--------------------------- MODULE HttpProxyProofs --------------------------
(***************************************************************************)
(* Theorems about HttpProxy, for every size of the buffers, the marks, the *)
(* request and the response, over plaintext and over TLS, with any set of  *)
(* faults.                                                                 *)
(***************************************************************************)
EXTENDS HttpProxy, SequenceTheorems, TLAPS

-----------------------------------------------------------------------------
(* The call stack.  Calls are the functions on it, Deeper those below the  *)
(* one that runs.                                                          *)

Calls(t) == {t[i] : i \in 1 .. Len(t)}
Deeper(t) == {t[i] : i \in 2 .. Len(t)}
AtHead(f) == todo # <<>> /\ Head(todo) = f

\* What a stack holds: the running function and the ones below.
LEMMA Stack ==
  ASSUME NEW t \in Seq(Functions), t # <<>>
  PROVE  /\ Head(t) \in Functions /\ Head(t) = t[1]
         /\ Tail(t) \in Seq(Functions)
         /\ Calls(t) = {Head(t)} \cup Deeper(t)
         /\ Calls(Tail(t)) = Deeper(t) /\ Deeper(Tail(t)) \subseteq Deeper(t)
         /\ Tail(t) # <<>> => Head(Tail(t)) = t[2] /\ t[2] \in Deeper(t)
<1>1. /\ Len(t) \in Nat /\ Len(t) > 0 /\ Tail(t) \in Seq(Functions)
      /\ Len(Tail(t)) = Len(t) - 1
      /\ \A i \in 1 .. Len(t) - 1 : Tail(t)[i] = t[i + 1]
      /\ Head(t) = t[1] /\ t[1] \in Functions
  OBVIOUS
<1>2. Calls(t) = {Head(t)} \cup Deeper(t)
  <2>1. \A i \in 1 .. Len(t) : i = 1 \/ i \in 2 .. Len(t)
    BY <1>1
  <2>2. 1 \in 1 .. Len(t) /\ 2 .. Len(t) \subseteq 1 .. Len(t)
    BY <1>1
  <2>3. QED
    BY <1>1, <2>1, <2>2 DEF Calls, Deeper
<1>3. Calls(Tail(t)) = Deeper(t)
  <2>1. ASSUME NEW f \in Calls(Tail(t)) PROVE f \in Deeper(t)
    <3>1. PICK i \in 1 .. Len(Tail(t)) : f = Tail(t)[i]
      BY DEF Calls
    <3>2. i + 1 \in 2 .. Len(t) /\ f = t[i + 1]
      BY <1>1, <3>1
    <3>3. QED
      BY <3>2 DEF Deeper
  <2>2. ASSUME NEW f \in Deeper(t) PROVE f \in Calls(Tail(t))
    <3>1. PICK i \in 2 .. Len(t) : f = t[i]
      BY DEF Deeper
    <3>2. i - 1 \in 1 .. Len(Tail(t)) /\ f = Tail(t)[i - 1]
      BY <1>1, <3>1
    <3>3. QED
      BY <3>2 DEF Calls
  <2>3. QED
    BY <2>1, <2>2
<1>4. Deeper(Tail(t)) \subseteq Calls(Tail(t))
  <2>1. 2 .. Len(Tail(t)) \subseteq 1 .. Len(Tail(t))
    BY <1>1
  <2>2. QED
    BY <2>1 DEF Calls, Deeper
<1>5. Tail(t) # <<>> => Head(Tail(t)) = t[2] /\ t[2] \in Deeper(t)
  <2>1. ASSUME Tail(t) # <<>> PROVE Head(Tail(t)) = t[2] /\ 2 \in 2 .. Len(t)
    BY <1>1, <2>1
  <2>2. QED
    BY <2>1 DEF Deeper
<1>6. QED
  BY <1>1, <1>2, <1>3, <1>4, <1>5

\* A call puts one function on top.
LEMMA Push ==
  ASSUME NEW s \in Seq(Functions), NEW f \in Functions
  PROVE  /\ <<f>> \o s \in Seq(Functions) /\ <<f>> \o s # <<>>
         /\ Head(<<f>> \o s) = f /\ Tail(<<f>> \o s) = s
         /\ Deeper(<<f>> \o s) = Calls(s) /\ Calls(<<f>> \o s) = {f} \cup Calls(s)
<1>1. /\ <<f>> \o s \in Seq(Functions) /\ Len(<<f>> \o s) = Len(s) + 1 /\ Len(s) \in Nat
      /\ (<<f>> \o s)[1] = f /\ \A i \in 1 .. Len(s) : (<<f>> \o s)[i + 1] = s[i]
  OBVIOUS
<1>2. <<f>> \o s # <<>> /\ Head(<<f>> \o s) = f
  BY <1>1
<1>3. /\ Tail(<<f>> \o s) \in Seq(Functions) /\ Len(Tail(<<f>> \o s)) = Len(s)
      /\ \A i \in 1 .. Len(s) : Tail(<<f>> \o s)[i] = s[i]
  BY <1>1, <1>2
<1>4. Tail(<<f>> \o s) = s
  BY <1>3
<1> DEFINE t == <<f>> \o s
<1>5. t \in Seq(Functions) /\ t # <<>> /\ Head(t) = f /\ Tail(t) = s
  BY <1>1, <1>2, <1>4
<1> HIDE DEF t
<1>6. Calls(t) = {Head(t)} \cup Deeper(t) /\ Calls(Tail(t)) = Deeper(t)
  BY <1>5, Stack
<1>7. Deeper(t) = Calls(s) /\ Calls(t) = {f} \cup Calls(s)
  BY <1>5, <1>6
<1>8. QED
  BY <1>5, <1>7 DEF t

\* Return, and a function that is replaced by one, two or three calls.
LEMMA Returns ==
  ASSUME todo \in Seq(Functions), todo # <<>>, Return
  PROVE  /\ todo' \in Seq(Functions)
         /\ Calls(todo') = Deeper(todo) /\ Deeper(todo') \subseteq Deeper(todo)
         /\ todo' # <<>> => Head(todo') = todo[2] /\ todo[2] \in Deeper(todo)
  BY Stack DEF Return

LEMMA Then1 ==
  ASSUME todo \in Seq(Functions), todo # <<>>, NEW f \in Functions, Then(<<f>>)
  PROVE  /\ todo' \in Seq(Functions) /\ todo' # <<>> /\ Head(todo') = f
         /\ Calls(todo') = {f} \cup Deeper(todo) /\ Deeper(todo') = Deeper(todo)
         /\ Tail(todo') = Tail(todo)
<1>1. Tail(todo) \in Seq(Functions) /\ Calls(Tail(todo)) = Deeper(todo)
  BY Stack
<1>2. todo' = <<f>> \o Tail(todo)
  BY DEF Then
<1>3. /\ todo' \in Seq(Functions) /\ todo' # <<>> /\ Head(todo') = f
      /\ Tail(todo') = Tail(todo)
  BY <1>1, <1>2, Push
<1>4. QED
  BY <1>1, <1>3, Stack

\* Two and three calls are pushed one by one.
LEMMA PushTwo ==
  ASSUME NEW s \in Seq(Functions), NEW f \in Functions, NEW g \in Functions
  PROVE  <<f, g>> \o s = <<f>> \o (<<g>> \o s)
<1>1. /\ <<f, g>> \in Seq(Functions) /\ Len(<<f, g>>) = 2
      /\ <<f, g>>[1] = f /\ <<f, g>>[2] = g
  OBVIOUS
<1>2. /\ <<f, g>> \o s \in Seq(Functions) /\ Len(<<f, g>> \o s) = Len(s) + 2 /\ Len(s) \in Nat
      /\ (<<f, g>> \o s)[1] = f /\ (<<f, g>> \o s)[2] = g
      /\ \A i \in 3 .. Len(s) + 2 : (<<f, g>> \o s)[i] = s[i - 2]
  BY <1>1
<1> DEFINE u == <<g>> \o s
<1>3. /\ u \in Seq(Functions) /\ Len(u) = Len(s) + 1 /\ u[1] = g
      /\ \A i \in 2 .. Len(s) + 1 : u[i] = s[i - 1]
  OBVIOUS
<1> HIDE DEF u
<1>4. /\ <<f>> \o u \in Seq(Functions) /\ Len(<<f>> \o u) = Len(u) + 1
      /\ (<<f>> \o u)[1] = f
      /\ \A i \in 2 .. Len(u) + 1 : (<<f>> \o u)[i] = u[i - 1]
  BY <1>3
<1>5. \A i \in 1 .. Len(s) + 2 : (<<f>> \o u)[i] = (<<f, g>> \o s)[i]
  BY <1>2, <1>3, <1>4
<1>6. <<f, g>> \o s = <<f>> \o u
  BY <1>2, <1>3, <1>4, <1>5
<1>7. QED
  BY <1>6 DEF u

\* The calls of a function, put together.
LEMMA TwoCalls ==
  ASSUME NEW f \in Functions, NEW g \in Functions
  PROVE  <<f>> \o <<g>> = <<f, g>> /\ <<>> \o <<g>> = <<g>>
<1>1. <<g>> \in Seq(Functions) /\ <<f>> \in Seq(Functions) /\ <<f, g>> \in Seq(Functions)
  OBVIOUS
<1>2. /\ <<f>> \o <<g>> \in Seq(Functions) /\ Len(<<f>> \o <<g>>) = 2
      /\ (<<f>> \o <<g>>)[1] = f /\ (<<f>> \o <<g>>)[2] = g
  BY <1>1
<1>3. Len(<<f, g>>) = 2 /\ <<f, g>>[1] = f /\ <<f, g>>[2] = g
  OBVIOUS
<1> DEFINE s == <<f>> \o <<g>>
           t == <<f, g>>
<1>4. \A i \in 1 .. Len(s) : s[i] = t[i]
  BY <1>2, <1>3
<1>5. s \in Seq(Functions) /\ t \in Seq(Functions) /\ Len(s) = Len(t)
  BY <1>1, <1>2, <1>3
<1> HIDE DEF s, t
<1>6. s = t
  BY <1>4, <1>5
<1>7. <<>> \o <<g>> = <<g>>
  BY <1>1, ConcatEmptySeq
<1>8. QED
  BY <1>6, <1>7 DEF s, t

LEMMA ThreeCalls ==
  ASSUME NEW f \in Functions, NEW g \in Functions, NEW h \in Functions
  PROVE  <<f>> \o <<g, h>> = <<f, g, h>>
<1>1. /\ <<f>> \in Seq(Functions) /\ <<g, h>> \in Seq(Functions)
      /\ <<f, g, h>> \in Seq(Functions)
  OBVIOUS
<1>2. /\ <<f>> \o <<g, h>> \in Seq(Functions) /\ Len(<<f>> \o <<g, h>>) = 3
      /\ (<<f>> \o <<g, h>>)[1] = f /\ (<<f>> \o <<g, h>>)[2] = g
      /\ (<<f>> \o <<g, h>>)[3] = h
  BY <1>1
<1>3. Len(<<f, g, h>>) = 3 /\ <<f, g, h>>[1] = f /\ <<f, g, h>>[2] = g /\ <<f, g, h>>[3] = h
  OBVIOUS
<1> DEFINE s == <<f>> \o <<g, h>>
           t == <<f, g, h>>
<1>4. \A i \in 1 .. Len(s) : s[i] = t[i]
  BY <1>2, <1>3
<1>5. s \in Seq(Functions) /\ t \in Seq(Functions) /\ Len(s) = Len(t)
  BY <1>1, <1>2, <1>3
<1> HIDE DEF s, t
<1>6. s = t
  BY <1>4, <1>5
<1>7. QED
  BY <1>6 DEF s, t

LEMMA PushThree ==
  ASSUME NEW s \in Seq(Functions), NEW f \in Functions, NEW g \in Functions,
         NEW h \in Functions
  PROVE  <<f, g, h>> \o s = <<f>> \o (<<g, h>> \o s)
<1>1. <<f, g, h>> = <<f>> \o <<g, h>> /\ <<f>> \in Seq(Functions) /\ <<g, h>> \in Seq(Functions)
  BY ThreeCalls
<1>2. (<<f>> \o <<g, h>>) \o s = <<f>> \o (<<g, h>> \o s)
  BY <1>1, ConcatAssociative
<1>3. QED
  BY <1>1, <1>2

LEMMA Then2 ==
  ASSUME todo \in Seq(Functions), todo # <<>>, NEW f \in Functions, NEW g \in Functions,
         Then(<<f, g>>)
  PROVE  /\ todo' \in Seq(Functions) /\ todo' # <<>> /\ Head(todo') = f
         /\ Calls(todo') = {f, g} \cup Deeper(todo) /\ Deeper(todo') = {g} \cup Deeper(todo)
         /\ Tail(todo') = <<g>> \o Tail(todo) /\ todo'[2] = g
<1>1. Tail(todo) \in Seq(Functions) /\ Calls(Tail(todo)) = Deeper(todo)
  BY Stack
<1> DEFINE s == <<g>> \o Tail(todo)
<1>2. todo' = <<f>> \o s
  BY <1>1, PushTwo DEF Then
<1>3. s \in Seq(Functions) /\ Calls(s) = {g} \cup Deeper(todo) /\ s # <<>> /\ Head(s) = g
  BY <1>1, Push
<1> HIDE DEF s
<1>4. /\ todo' \in Seq(Functions) /\ todo' # <<>> /\ Head(todo') = f /\ Tail(todo') = s
      /\ Deeper(todo') = Calls(s) /\ Calls(todo') = {f} \cup Calls(s)
  BY <1>2, <1>3, Push
<1>5. todo'[2] = g
  BY <1>3, <1>4, Stack
<1>6. QED
  BY <1>3, <1>4, <1>5 DEF s

LEMMA Then3 ==
  ASSUME todo \in Seq(Functions), todo # <<>>, NEW f \in Functions, NEW g \in Functions,
         NEW h \in Functions, Then(<<f, g, h>>)
  PROVE  /\ todo' \in Seq(Functions) /\ todo' # <<>> /\ Head(todo') = f
         /\ Calls(todo') = {f, g, h} \cup Deeper(todo)
         /\ Deeper(todo') = {g, h} \cup Deeper(todo)
         /\ Tail(todo') = <<g>> \o (<<h>> \o Tail(todo)) /\ todo'[2] = g
<1>1. Tail(todo) \in Seq(Functions) /\ Calls(Tail(todo)) = Deeper(todo)
  BY Stack
<1> DEFINE s == <<h>> \o Tail(todo)
           u == <<g>> \o s
<1>2. todo' = <<f>> \o u
  <2>1. todo' = <<f>> \o (<<g, h>> \o Tail(todo))
    BY <1>1, PushThree DEF Then
  <2>2. <<g, h>> \o Tail(todo) = u
    BY <1>1, PushTwo
  <2>3. QED
    BY <2>1, <2>2
<1>3. s \in Seq(Functions) /\ Calls(s) = {h} \cup Deeper(todo)
  BY <1>1, Push
<1> HIDE DEF s
<1>4. u \in Seq(Functions) /\ u # <<>> /\ Head(u) = g /\ Calls(u) = {g} \cup Calls(s)
  BY <1>3, Push
<1> HIDE DEF u
<1>5. /\ todo' \in Seq(Functions) /\ todo' # <<>> /\ Head(todo') = f /\ Tail(todo') = u
      /\ Deeper(todo') = Calls(u) /\ Calls(todo') = {f} \cup Calls(u)
  BY <1>2, <1>4, Push
<1>6. todo'[2] = g
  BY <1>4, <1>5, Stack
<1>7. QED
  BY <1>3, <1>4, <1>5, <1>6 DEF s, u

-----------------------------------------------------------------------------
(* Types.                                                                  *)

ClientSet ==
  [alive : BOOLEAN, in : Nat, out : Nat, bodyLeft : Nat,
   state : {"ReadingHead", "StreamingUp", "Streaming", "Closing"},
   backend : BOOLEAN, responded : BOOLEAN, relayed : BOOLEAN,
   replied : BOOLEAN, handshake : BOOLEAN, closed : BOOLEAN,
   eof : BOOLEAN, readPaused : BOOLEAN, backendPaused : BOOLEAN,
   interest : SUBSET {"in", "out"}, readBlock : {"r", "w"},
   writeBlock : {"ok", "r", "w"}, idle : BOOLEAN]
BackendSet ==
  [alive : BOOLEAN, client : BOOLEAN, out : Nat, connected : BOOLEAN,
   readPaused : BOOLEAN, highWater : BOOLEAN,
   interest : SUBSET {"in", "out"}, idle : BOOLEAN]
SocketSet ==
  [up : BOOLEAN, rcv : 0 .. SockBuf, eof : BOOLEAN, err : BOOLEAN, space : 0 .. SockBuf]
EventSet == [fd : Fds \cup {"timer"}, ev : SUBSET {"in", "out", "err"}]

Types ==
  /\ c \in ClientSet /\ b \in BackendSet
  /\ net \in [Fds -> SocketSet] /\ left \in [Fds -> Nat]
  /\ todo \in Seq(Functions) /\ phase \in {"wait", "run"}
  /\ batch \subseteq EventSet /\ queued \subseteq Fds /\ closing \subseteq Fds
  /\ crashed \in BOOLEAN

LEMMA TypesOK == Types => TypeOK
  BY DEF Types, TypeOK, ClientSet, BackendSet, SocketSet, EventSet

\* AtMost takes no more than there is, and something when there is something.
LEMMA AtMostFacts ==
  ASSUME NEW m \in Nat, NEW n \in Nat
  PROVE  /\ AtMost(m, n) \in Nat /\ AtMost(m, n) <= m /\ AtMost(m, n) <= n
         /\ m > 0 /\ n > 0 => AtMost(m, n) > 0
  BY DEF AtMost

\* The marks and sizes are naturals.
LEMMA Sizes ==
  /\ kBackpressureHigh \in Nat /\ kBackpressureHigh > 0 /\ kBackpressureLow \in Nat
  /\ kBackpressureLow <= kBackpressureHigh
  /\ Chunk \in Nat /\ Chunk > 0 /\ SockBuf \in Nat /\ SockBuf > 0
  /\ HeadLen \in Nat /\ HeadLen > 0 /\ ReplyLen \in Nat /\ ReplyLen > 0
  /\ MaxContent \in Nat /\ MaxResponse \in Nat
  BY ConstantsAssumption

LEMMA TypesInit == Init => Types
<1> SUFFICES ASSUME Init PROVE Types
  OBVIOUS
<1>1. c \in ClientSet
  BY DEF Init, HttpConnection, ClientSet
<1>2. b \in BackendSet
  BY DEF Init, NoBackend, BackendSet
<1>3. FreshSocket(TRUE) \in SocketSet /\ FreshSocket(FALSE) \in SocketSet
  BY Sizes DEF FreshSocket, SocketSet
<1>4. net \in [Fds -> SocketSet]
  <2>1. ASSUME NEW x \in SocketSet, NEW y \in SocketSet
        PROVE  [client |-> x, backend |-> y] \in [Fds -> SocketSet]
    BY DEF Fds
  <2>2. net = [client |-> FreshSocket(TRUE), backend |-> FreshSocket(FALSE)]
    BY DEF Init
  <2>3. QED
    BY <1>3, <2>1, <2>2, Zenon
<1>5. left \in [Fds -> Nat]
  BY Sizes DEF Init, Fds
<1>6. /\ todo = <<>> /\ phase = "wait" /\ batch = {} /\ queued = {}
      /\ closing = {} /\ crashed = FALSE
  BY DEF Init
<1>7. <<>> \in Seq(Functions)
  OBVIOUS
<1>8. QED
  BY <1>1, <1>2, <1>4, <1>5, <1>6, <1>7 DEF Types

\* close_both.
LEMMA CloseBothTypes ==
  ASSUME NEW cc \in ClientSet, NEW bb \in BackendSet, closing \subseteq Fds, CloseBoth(cc, bb)
  PROVE  c' \in ClientSet /\ b' \in BackendSet /\ closing' \subseteq Fds
<1>1. [cc EXCEPT !.closed = TRUE, !.backend = FALSE] \in ClientSet
  BY DEF ClientSet
<1>2. DetachClient(bb) \in BackendSet
  BY DEF BackendSet, DetachClient
<1>3. QED
  BY <1>1, <1>2 DEF CloseBoth, Fds

\* What the two handlers ask of epoll is a set of events.
LEMMA WantedTypes ==
  /\ \A cc \in ClientSet : Wanted(cc) \subseteq {"in", "out"}
  /\ \A bb \in BackendSet : BackendWanted(bb) \subseteq {"in", "out"} /\ Applied(bb) \in BackendSet
<1>1. \A cc \in ClientSet : Wanted(cc) \subseteq {"in", "out"}
  BY DEF Wanted, ReadWants, WriteWants
<1>2. \A bb \in BackendSet : BackendWanted(bb) \subseteq {"in", "out"}
  BY DEF BackendWanted
<1>3. \A bb \in BackendSet : Applied(bb) \in BackendSet
  <2>1. ASSUME NEW bb \in BackendSet, NEW w \in SUBSET {"in", "out"}
        PROVE  [bb EXCEPT !.interest = w] \in BackendSet
    BY DEF BackendSet
  <2>2. QED
    BY <1>2, <2>1 DEF Applied
<1>4. QED
  BY <1>1, <1>2, <1>3

LEMMA QueuedTypes ==
  ASSUME NEW bb \in BackendSet, NEW n \in Nat
  PROVE  Queued(bb, n) \in BackendSet
<1>1. PICK m \in Nat, h \in BOOLEAN : Queued(bb, n) = [bb EXCEPT !.out = m, !.highWater = h]
  <2>1. bb.out + n \in Nat /\ (bb.highWater \/ bb.out + n > kBackpressureHigh) \in BOOLEAN
    BY Sizes DEF BackendSet
  <2>2. QED
    BY <2>1, Zenon DEF Queued
<1>2. QED
  BY <1>1 DEF BackendSet

\* The part of a step that the call stack sees.
LEMMA TypedReturn == ASSUME Types, todo # <<>>, Return PROVE todo' \in Seq(Functions)
  BY Returns DEF Types

LEMMA TypedThen1 ==
  ASSUME Types, todo # <<>>, NEW f \in Functions, Then(<<f>>) PROVE todo' \in Seq(Functions)
  BY Then1 DEF Types

LEMMA TypedThen2 ==
  ASSUME Types, todo # <<>>, NEW f \in Functions, NEW g \in Functions, Then(<<f, g>>)
  PROVE  todo' \in Seq(Functions)
  BY Then2 DEF Types

LEMMA TypedThen3 ==
  ASSUME Types, todo # <<>>, NEW f \in Functions, NEW g \in Functions, NEW h \in Functions,
         Then(<<f, g, h>>)
  PROVE  todo' \in Seq(Functions)
  BY Then3 DEF Types

\* set_interest.
LEMMA SetInterestTypes ==
  ASSUME NEW cc \in ClientSet, NEW q \in SUBSET Fds, NEW ev \in SUBSET {"in", "out"},
         SetInterest(cc, q, ev)
  PROVE  c' \in ClientSet /\ queued' \subseteq Fds
<1>1. c' \in ClientSet
  BY DEF SetInterest, ClientSet
<1>2. queued' \subseteq Fds
  BY DEF SetInterest, Update, Fds
<1>3. QED
  BY <1>1, <1>2

\* drive and recompute_interest.
LEMMA DriveTypes ==
  ASSUME Types, RecomputeInterest \/ Drive \/ DriveWrite
  PROVE  Types'
<1>1. todo # <<>> /\ c \in ClientSet /\ b \in BackendSet /\ queued \in SUBSET Fds /\ closing \subseteq Fds
  BY DEF Types, RecomputeInterest, Drive, DriveWrite, Doing
<1>2. CASE RecomputeInterest
  <2>1. c' \in ClientSet /\ queued' \subseteq Fds
    BY <1>1, <1>2, WantedTypes, SetInterestTypes DEF RecomputeInterest
  <2>2. todo' \in Seq(Functions)
    BY <1>1, <1>2, TypedReturn DEF RecomputeInterest
  <2>3. QED
    BY <1>2, <2>1, <2>2 DEF RecomputeInterest, Types, envVars
<1>3. CASE Drive
  <2>1. c' \in ClientSet
    <3>1. [c EXCEPT !.handshake = TRUE, !.idle = FALSE] \in ClientSet
      BY <1>1 DEF ClientSet
    <3>2. QED
      BY <1>1, <1>3, <3>1, SetInterestTypes, CloseBothTypes DEF Drive
  <2>2. b' \in BackendSet /\ closing' \subseteq Fds
    BY <1>1, <1>3, CloseBothTypes DEF Drive
  <2>3. queued' \subseteq Fds
    BY <1>1, <1>3, SetInterestTypes DEF Drive
  <2>4. todo' \in Seq(Functions)
    BY <1>1, <1>3, TypedReturn, TypedThen2 DEF Drive, Functions
  <2>5. QED
    BY <1>3, <2>1, <2>2, <2>3, <2>4 DEF Drive, Types, envVars
<1>4. CASE DriveWrite
  <2>1. todo' \in Seq(Functions)
    BY <1>1, <1>4, TypedReturn, TypedThen2 DEF DriveWrite, Functions
  <2>2. QED
    BY <1>4, <2>1 DEF DriveWrite, Types, envVars, loopVars
<1>5. QED
  BY <1>2, <1>3, <1>4

\* forward_body.
LEMMA ForwardBodyTypes ==
  ASSUME Types, todo # <<>>, NEW cc \in ClientSet, NEW bb \in BackendSet, NEW n \in Nat,
         NEW rest \in {<<>>, <<"pump_read">>}, ForwardBody(cc, bb, n, rest)
  PROVE  c' \in ClientSet /\ b' \in BackendSet /\ todo' \in Seq(Functions)
<1>1. Take(cc, n) \in Nat /\ cc.bodyLeft \in Nat /\ cc.bodyLeft - Take(cc, n) \in Nat
  <2>1. cc.bodyLeft \in Nat
    BY DEF ClientSet
  <2>2. QED
    BY <2>1 DEF Take, AtMost
<1>2. ASSUME NEW m \in Nat PROVE [cc EXCEPT !.bodyLeft = m] \in ClientSet
  BY DEF ClientSet
<1>3. c' \in ClientSet
  BY <1>1, <1>2 DEF ForwardBody
<1>4. b' \in BackendSet
  BY <1>1, QueuedTypes DEF ForwardBody
<1>5. Tail(todo) \in Seq(Functions) /\ rest \in Seq(Functions)
  <2>1. Tail(todo) \in Seq(Functions)
    BY Stack DEF Types
  <2>2. <<>> \in Seq(Functions) /\ <<"pump_read">> \in Seq(Functions)
    BY DEF Functions
  <2>3. QED
    BY <2>1, <2>2
<1>6. /\ <<>> \in Seq(Functions) /\ <<"flush">> \in Seq(Functions)
      /\ <<"forward_body_rest">> \in Seq(Functions)
  BY DEF Functions
<1>7. PICK calls \in Seq(Functions) : todo' = calls \o Tail(todo)
  <2>1. CASE ~cc.backend
    BY <1>5, <2>1 DEF ForwardBody, Then
  <2>2. CASE cc.backend
    <3>1. PICK f \in Seq(Functions) : todo' = (f \o <<"forward_body_rest">> \o rest) \o Tail(todo)
      BY <1>6, <2>2 DEF ForwardBody, Then
    <3>2. f \o <<"forward_body_rest">> \o rest \in Seq(Functions)
      BY <1>5, <1>6
    <3>3. QED
      BY <3>1, <3>2
  <2>3. QED
    BY <2>1, <2>2
<1>8. QED
  BY <1>3, <1>4, <1>5, <1>7

\* pump_read.
LEMMA PumpReadTypes ==
  ASSUME Types, PumpReadStop \/ PumpReadBlock \/ PumpReadEof \/ PumpReadError \/ PumpReadData
  PROVE  Types'
<1>1. todo # <<>> /\ c \in ClientSet /\ b \in BackendSet /\ closing \subseteq Fds
  BY DEF Types, PumpReadStop, PumpReadBlock, PumpReadEof, PumpReadError, PumpReadData,
         Receiving, Doing
<1>2. CASE PumpReadStop
  <2>1. c' \in ClientSet
    BY <1>1, <1>2 DEF PumpReadStop, ClientSet
  <2>2. QED
    BY <1>1, <1>2, <2>1, TypedReturn DEF PumpReadStop, Types, envVars, loopVars
<1>3. CASE PumpReadBlock
  <2>1. c' \in ClientSet
    BY <1>1, <1>3 DEF PumpReadBlock, ClientSet
  <2>2. QED
    BY <1>1, <1>3, <2>1, TypedReturn DEF PumpReadBlock, Types, envVars, loopVars
<1>4. CASE PumpReadEof
  <2>1. [c EXCEPT !.eof = TRUE, !.readBlock = "r"] \in ClientSet
    BY <1>1 DEF ClientSet
  <2>2. c' \in ClientSet /\ b' \in BackendSet /\ closing' \subseteq Fds
    BY <1>1, <1>4, <2>1, CloseBothTypes DEF PumpReadEof
  <2>3. QED
    BY <1>1, <1>4, <2>2, TypedReturn DEF PumpReadEof, Types, envVars, loopVars
<1>5. CASE PumpReadError
  <2>1. c' \in ClientSet /\ b' \in BackendSet /\ closing' \subseteq Fds
    BY <1>1, <1>5, CloseBothTypes DEF PumpReadError
  <2>2. QED
    BY <1>1, <1>5, <2>1, TypedReturn DEF PumpReadError, Types, envVars, loopVars
<1>6. CASE PumpReadData
  <2> DEFINE n == AtMost(net.client.rcv, Chunk)
             cc == [c EXCEPT !.idle = FALSE]
  <2>1. net.client \in SocketSet /\ net.client.rcv \in 0 .. SockBuf
    BY DEF Types, Fds, SocketSet
  <2>2. n \in Nat /\ n <= net.client.rcv
    <3>1. net.client.rcv \in Nat /\ Chunk \in Nat
      BY <2>1, Sizes
    <3>2. QED
      BY <3>1, AtMostFacts
  <2>3. net' = [net EXCEPT !.client.rcv = @ - n]
    BY <1>6 DEF PumpReadData
  <2>4. cc \in ClientSet /\ c.in \in Nat
    BY <1>1 DEF ClientSet
  <2>5. \/ c' = [cc EXCEPT !.in = @ + n] /\ Then(<<"process_head", "pump_read">>) /\ b' = b
        \/ ForwardBody(cc, b, n, <<"pump_read">>)
        \/ c' = cc /\ b' = b /\ todo' = todo
    BY <1>6 DEF PumpReadData
  <2> HIDE DEF n
  <2>6. net' \in [Fds -> SocketSet]
    <3>1. net \in [Fds -> SocketSet] /\ SockBuf \in Nat
      BY Sizes DEF Types
    <3>2. QED
      BY <2>2, <2>3, <3>1 DEF Fds, SocketSet
  <2>7. c' \in ClientSet /\ b' \in BackendSet /\ todo' \in Seq(Functions)
    <3>1. CASE c' = [cc EXCEPT !.in = @ + n] /\ Then(<<"process_head", "pump_read">>) /\ b' = b
      <4>1. PICK m \in Nat : c' = [cc EXCEPT !.in = m]
        <5>1. cc.in + n \in Nat
          BY <2>2, <2>4 DEF ClientSet
        <5>2. QED
          BY <3>1, <5>1, Zenon
      <4>2. c' \in ClientSet
        BY <2>4, <4>1 DEF ClientSet
      <4>3. QED
        BY <1>1, <3>1, <4>2, TypedThen2 DEF Functions
    <3>2. CASE ForwardBody(cc, b, n, <<"pump_read">>)
      BY <1>1, <2>2, <2>4, <3>2, ForwardBodyTypes
    <3>3. CASE c' = cc /\ b' = b /\ todo' = todo
      BY <1>1, <2>4, <3>3 DEF Types
    <3>4. QED
      BY <2>5, <3>1, <3>2, <3>3
  <2>8. QED
    BY <1>6, <2>6, <2>7 DEF PumpReadData, Types, loopVars
<1>7. QED
  BY <1>2, <1>3, <1>4, <1>5, <1>6

\* process_head, forward_body's end and send_response.
LEMMA RequestTypes ==
  ASSUME Types,
         \/ ForwardBodyRest \/ ProcessHeadIncomplete \/ ProcessHeadReject \/ HandleInternal
         \/ StartBackendFails \/ ProcessHeadForward
         \/ SendResponse("send_response", ReplyLen) \/ SendResponse("send_head", 1)
  PROVE  Types'
<1>1. todo # <<>> /\ c \in ClientSet /\ b \in BackendSet /\ closing \subseteq Fds
  BY DEF Types, ForwardBodyRest, ProcessHeadIncomplete, ProcessHeadReject, HandleInternal,
         StartBackendFails, ProcessHeadForward, SendResponse, Doing
<1>2. CASE ForwardBodyRest
  <2>1. \A p \in BOOLEAN : [c EXCEPT !.readPaused = p] \in ClientSet
    BY <1>1 DEF ClientSet
  <2>2. [c EXCEPT !.state = "Streaming"] \in ClientSet
    BY <1>1 DEF ClientSet
  <2>3. c' \in ClientSet
    <3>1. (c.readPaused \/ BackedUp(b)) \in BOOLEAN
      OBVIOUS
    <3>2. QED
      BY <1>1, <1>2, <2>1, <2>2, <3>1 DEF ForwardBodyRest
  <2>4. todo' \in Seq(Functions) /\ crashed' \in BOOLEAN
    BY <1>1, <1>2, TypedReturn DEF ForwardBodyRest, Types
  <2>5. QED
    BY <1>2, <2>3, <2>4 DEF ForwardBodyRest, Types, envVars, loopVars
<1>3. CASE ProcessHeadIncomplete
  BY <1>1, <1>3, TypedReturn DEF ProcessHeadIncomplete, Types, envVars, loopVars
<1>4. CASE ProcessHeadReject \/ HandleInternal
  <2>1. todo' \in Seq(Functions)
    BY <1>1, <1>4, TypedThen1 DEF ProcessHeadReject, HandleInternal, Functions
  <2>2. QED
    BY <1>4, <2>1 DEF ProcessHeadReject, HandleInternal, Types, envVars, loopVars
<1>5. CASE StartBackendFails
  <2>1. todo' \in Seq(Functions)
    BY <1>1, <1>5, TypedThen1 DEF StartBackendFails, Functions
  <2>2. c' \in ClientSet
    BY <1>1, <1>5, Sizes DEF StartBackendFails, ClientSet
  <2>3. QED
    BY <1>5, <2>1, <2>2 DEF StartBackendFails, Types, envVars, loopVars
<1>6. CASE ProcessHeadForward
  <2>1. PICK length \in 0 .. MaxContent, added \in BOOLEAN :
          LET bb == IF added THEN Queued(BackendConnection, 1) ELSE NoBackend
              cc == [c EXCEPT !.in = 0, !.bodyLeft = length, !.backend = added,
                              !.state = IF length = 0 THEN "Streaming" ELSE "StreamingUp"]
          IN IF length > 0 /\ c.in > HeadLen
             THEN ForwardBody(cc, bb, c.in - HeadLen, <<>>)
             ELSE c' = cc /\ b' = bb /\ Return
    BY <1>6 DEF ProcessHeadForward
  <2> DEFINE bb == IF added THEN Queued(BackendConnection, 1) ELSE NoBackend
             st == IF length = 0 THEN "Streaming" ELSE "StreamingUp"
             cc == [c EXCEPT !.in = 0, !.bodyLeft = length, !.backend = added, !.state = st]
  <2>2. NoBackend \in BackendSet /\ BackendConnection \in BackendSet
    BY DEF NoBackend, BackendConnection, BackendSet
  <2>3. bb \in BackendSet
    BY <2>2, QueuedTypes
  <2>4. st \in {"Streaming", "StreamingUp"} /\ length \in Nat
    BY Sizes
  <2> HIDE DEF st
  <2>5. cc \in ClientSet
    BY <1>1, <2>4 DEF ClientSet
  <2>6. c.in > HeadLen => c.in - HeadLen \in Nat
    BY <1>1, Sizes DEF ClientSet
  <2>7. IF length > 0 /\ c.in > HeadLen
        THEN ForwardBody(cc, bb, c.in - HeadLen, <<>>)
        ELSE c' = cc /\ b' = bb /\ Return
    BY <2>1 DEF st
  <2> HIDE DEF bb, cc
  <2>8. c' \in ClientSet /\ b' \in BackendSet /\ todo' \in Seq(Functions)
    BY <1>1, <2>3, <2>5, <2>6, <2>7, ForwardBodyTypes, TypedReturn
  <2>9. QED
    BY <1>6, <2>8 DEF ProcessHeadForward, Types, envVars, loopVars
<1>7. ASSUME NEW f, NEW n \in Nat, SendResponse(f, n)
      PROVE  Types'
  <2>1. todo' \in Seq(Functions)
    BY <1>1, <1>7, TypedThen2 DEF SendResponse, Functions
  <2>2. c' \in ClientSet
    BY <1>1, <1>7 DEF SendResponse, ClientSet
  <2>3. QED
    BY <1>7, <2>1, <2>2 DEF SendResponse, Types, envVars, loopVars
<1>8. QED
  BY <1>2, <1>3, <1>4, <1>5, <1>6, <1>7, Sizes

\* pump_write.
LEMMA PumpWriteTypes ==
  ASSUME Types,
         PumpWriteSome \/ PumpWriteBlock \/ PumpWriteError \/ PumpWriteDrained \/ PumpWriteEnd
  PROVE  Types'
<1>1. todo # <<>> /\ c \in ClientSet /\ b \in BackendSet /\ closing \subseteq Fds
  BY DEF Types, PumpWriteSome, PumpWriteBlock, PumpWriteError, PumpWriteDrained, PumpWriteEnd,
         Doing
<1>2. CASE PumpWriteSome
  <2>1. /\ net.client \in SocketSet /\ net.client.space \in Nat /\ c.out \in Nat
        /\ net \in [Fds -> SocketSet] /\ SockBuf \in Nat
    BY <1>1, Sizes DEF Types, Fds, SocketSet, ClientSet
  <2>2. PICK n \in Nat : /\ n <= c.out /\ n <= net.client.space
                         /\ c' = [c EXCEPT !.out = @ - n, !.idle = FALSE]
                         /\ net' = [net EXCEPT !.client.space = @ - n]
    BY <1>2, <2>1, AtMostFacts DEF PumpWriteSome
  <2>3. net' \in [Fds -> SocketSet]
    BY <2>1, <2>2 DEF Fds, SocketSet
  <2>4. PICK m \in Nat : c' = [c EXCEPT !.out = m, !.idle = FALSE]
    <3>1. c.out - n \in Nat
      BY <2>1, <2>2
    <3>2. QED
      BY <2>2, <3>1, Zenon
  <2>5. c' \in ClientSet
    BY <1>1, <2>4 DEF ClientSet
  <2>6. QED
    BY <1>2, <2>3, <2>5 DEF PumpWriteSome, Types, loopVars
<1>3. CASE PumpWriteBlock
  <2>1. c' \in ClientSet
    BY <1>1, <1>3 DEF PumpWriteBlock, ClientSet
  <2>2. QED
    BY <1>1, <1>3, <2>1, TypedReturn DEF PumpWriteBlock, Types, envVars, loopVars
<1>4. CASE PumpWriteError
  <2>1. c' \in ClientSet /\ b' \in BackendSet /\ closing' \subseteq Fds
    BY <1>1, <1>4, CloseBothTypes DEF PumpWriteError
  <2>2. QED
    BY <1>1, <1>4, <2>1, TypedReturn DEF PumpWriteError, Types, envVars, loopVars
<1>5. CASE PumpWriteDrained
  <2>1. c' \in ClientSet
    BY <1>1, <1>5 DEF PumpWriteDrained, ClientSet
  <2>2. todo' \in Seq(Functions)
    BY <1>1, <1>5, TypedThen1, TypedThen2 DEF PumpWriteDrained, Functions
  <2>3. QED
    BY <1>5, <2>1, <2>2 DEF PumpWriteDrained, Types, envVars, loopVars
<1>6. CASE PumpWriteEnd
  <2>1. [c EXCEPT !.writeBlock = "ok"] \in ClientSet
    BY <1>1 DEF ClientSet
  <2>2. c' \in ClientSet /\ b' \in BackendSet /\ closing' \subseteq Fds
    BY <1>1, <1>6, <2>1, CloseBothTypes DEF PumpWriteEnd
  <2>3. QED
    BY <1>1, <1>6, <2>2, TypedReturn DEF PumpWriteEnd, Types, envVars, loopVars
<1>7. QED
  BY <1>2, <1>3, <1>4, <1>5, <1>6

\* The backend's reads.
LEMMA BackendReadTypes ==
  ASSUME Types,
         \/ ResumeReads \/ BackendReadData \/ DeliverRest \/ BackendReadStop
         \/ BackendReadEof \/ BackendReadError \/ OnBackendClosed
  PROVE  Types'
<1>1. /\ todo # <<>> /\ c \in ClientSet /\ b \in BackendSet /\ closing \subseteq Fds
      /\ queued \in SUBSET Fds
  BY DEF Types, ResumeReads, BackendReadData, DeliverRest, BackendReadStop, BackendReadEof,
         BackendReadError, OnBackendClosed, Doing
<1>2. \A bb \in BackendSet : ApplyInterest(bb, queued) \in SUBSET Fds
  BY <1>1 DEF ApplyInterest, Update, Fds
<1>3. CASE ResumeReads
  <2>1. [b EXCEPT !.readPaused = FALSE] \in BackendSet
    BY <1>1 DEF BackendSet
  <2>2. b' \in BackendSet /\ queued' \subseteq Fds
    BY <1>1, <1>2, <1>3, <2>1, WantedTypes DEF ResumeReads
  <2>3. todo' \in Seq(Functions)
    BY <1>1, <1>3, TypedReturn, TypedThen1 DEF ResumeReads, Functions
  <2>4. QED
    BY <1>3, <2>2, <2>3 DEF ResumeReads, Types, envVars
<1>4. CASE BackendReadData
  <2>1. /\ net.backend.rcv \in Nat /\ Chunk \in Nat /\ c.out \in Nat
        /\ net \in [Fds -> SocketSet] /\ SockBuf \in Nat
    BY <1>1, Sizes DEF Types, Fds, SocketSet, ClientSet
  <2>2. PICK n \in Nat : /\ n <= net.backend.rcv
                         /\ net' = [net EXCEPT !.backend.rcv = @ - n]
                         /\ b' = [b EXCEPT !.idle = FALSE]
                         /\ \/ c' = Deliver(c, n) /\ Then(DeliverLoop)
                            \/ c' = c /\ todo' = todo
    BY <1>4, <2>1, AtMostFacts DEF BackendReadData
  <2>3. net' \in [Fds -> SocketSet]
    BY <2>1, <2>2 DEF Fds, SocketSet
  <2>4. b' \in BackendSet
    BY <1>1, <2>2 DEF BackendSet
  <2>5. Deliver(c, n) \in ClientSet
    <3>1. PICK m \in Nat : Deliver(c, n) = [c EXCEPT !.out = m, !.responded = TRUE, !.relayed = TRUE]
      <4>1. c.out + n \in Nat
        BY <2>1
      <4>2. QED
        BY <4>1, Zenon DEF Deliver
    <3>2. QED
      BY <1>1, <3>1 DEF ClientSet
  <2>6. todo' \in Seq(Functions)
    <3>1. CASE Then(<<"pump_write", "deliver_rest", "on_readable">>)
      BY <1>1, <3>1, TypedThen3 DEF Functions
    <3>2. CASE todo' = todo
      BY <3>2 DEF Types
    <3>3. QED
      BY <2>2, <3>1, <3>2 DEF DeliverLoop
  <2>7. QED
    BY <1>1, <1>4, <2>2, <2>3, <2>4, <2>5, <2>6 DEF BackendReadData, Types, loopVars
<1>5. CASE DeliverRest
  <2>1. CASE c.closed
    BY <1>1, <1>5, <2>1, TypedReturn DEF DeliverRest, Types, envVars
  <2>2. CASE ~c.closed
    <3>1. PICK cc \in ClientSet, q \in SUBSET Fds :
            SetInterest(cc, q, Wanted(cc)) /\ b' \in BackendSet
      <4> DEFINE pause == c.backend /\ ~c.backendPaused /\ c.out > kBackpressureHigh
                 paused == pause /\ ~b.readPaused
                 cc == [c EXCEPT !.backendPaused = @ \/ pause]
                 bb == PauseReads(b)
                 q == IF paused THEN ApplyInterest(bb, queued) ELSE queued
      <4>1. SetInterest(cc, q, Wanted(cc)) /\ b' = IF paused THEN Applied(bb) ELSE b
        BY <1>5, <2>2 DEF DeliverRest
      <4>2. cc \in ClientSet
        <5>1. \A p \in BOOLEAN : [c EXCEPT !.backendPaused = p] \in ClientSet
          BY <1>1 DEF ClientSet
        <5>2. (c.backendPaused \/ pause) \in BOOLEAN
          OBVIOUS
        <5>3. QED
          BY <5>1, <5>2, Zenon
      <4>3. bb \in BackendSet
        BY <1>1 DEF PauseReads, BackendSet
      <4> HIDE DEF pause, cc, bb
      <4>4. q \in SUBSET Fds /\ b' \in BackendSet
        BY <1>1, <1>2, <4>1, <4>3, WantedTypes
      <4>5. QED
        BY <4>1, <4>2, <4>4
    <3>2. c' \in ClientSet /\ queued' \subseteq Fds
      BY <3>1, WantedTypes, SetInterestTypes
    <3>3. QED
      BY <1>1, <1>5, <3>1, <3>2, TypedReturn DEF DeliverRest, Types, envVars
  <2>3. QED
    BY <2>1, <2>2
<1>6. CASE BackendReadStop
  BY <1>1, <1>6, TypedReturn DEF BackendReadStop, Types, envVars, loopVars
<1>7. CASE BackendReadEof
  <2>1. b' \in BackendSet
    BY <1>1, <1>7 DEF BackendReadEof, BackendSet
  <2>2. todo' \in Seq(Functions)
    BY <1>1, <1>7, TypedThen1, TypedThen2 DEF BackendReadEof, Functions
  <2>3. QED
    BY <1>7, <2>1, <2>2 DEF BackendReadEof, Types, envVars, loopVars
<1>8. CASE BackendReadError
  <2>1. todo' \in Seq(Functions)
    BY <1>1, <1>8, TypedThen1 DEF BackendReadError, Functions
  <2>2. QED
    BY <1>8, <2>1 DEF BackendReadError, Types, envVars, loopVars
<1>9. CASE OnBackendClosed
  <2>1. todo' \in Seq(Functions)
    BY <1>1, <1>9, TypedThen2 DEF OnBackendClosed, Functions
  <2>2. c' \in ClientSet
    BY <1>1, <1>9 DEF OnBackendClosed, ClientSet
  <2>3. QED
    BY <1>9, <2>1, <2>2 DEF OnBackendClosed, Types, envVars, loopVars
<1>10. QED
  BY <1>3, <1>4, <1>5, <1>6, <1>7, <1>8, <1>9

\* The backend's writes and its end.
LEMMA BackendWriteTypes ==
  ASSUME Types,
         \/ RequestClose \/ Fail \/ OnWritable \/ FlushSome \/ FlushError \/ FlushDone
         \/ FlushApplyInterest \/ OnBackendDrained
  PROVE  Types'
<1>1. /\ todo # <<>> /\ c \in ClientSet /\ b \in BackendSet /\ closing \subseteq Fds
      /\ queued \in SUBSET Fds
  BY DEF Types, RequestClose, Fail, OnWritable, FlushSome, FlushError, FlushDone,
         FlushApplyInterest, OnBackendDrained, Doing
<1>2. CASE RequestClose
  BY <1>1, <1>2, TypedReturn DEF RequestClose, Types, Fds, envVars, loopVars
<1>3. CASE Fail
  <2>1. DetachClient(b) \in BackendSet /\ [c EXCEPT !.backend = FALSE] \in ClientSet
    BY <1>1 DEF DetachClient, BackendSet, ClientSet
  <2>2. c' \in ClientSet /\ b' \in BackendSet /\ closing' \subseteq Fds
    BY <1>1, <1>3, <2>1, CloseBothTypes DEF Fail, OnBackendError
  <2>3. todo' \in Seq(Functions)
    BY <1>1, <1>3, TypedThen1, TypedThen2 DEF Fail, OnBackendError, Functions
  <2>4. QED
    BY <1>3, <2>2, <2>3 DEF Fail, Types, envVars, loopVars
<1>4. CASE OnWritable
  <2>1. b' \in BackendSet
    BY <1>1, <1>4 DEF OnWritable, BackendSet
  <2>2. todo' \in Seq(Functions)
    BY <1>1, <1>4, TypedReturn, TypedThen1 DEF OnWritable, Functions
  <2>3. QED
    BY <1>4, <2>1, <2>2 DEF OnWritable, Types, envVars, loopVars
<1>5. CASE FlushSome
  <2>1. /\ net.backend.space \in Nat /\ b.out \in Nat
        /\ net \in [Fds -> SocketSet] /\ SockBuf \in Nat
    BY <1>1, Sizes DEF Types, Fds, SocketSet, BackendSet
  <2>2. PICK n \in Nat : /\ n <= b.out /\ n <= net.backend.space
                         /\ b' = [b EXCEPT !.out = @ - n, !.idle = FALSE]
                         /\ net' = [net EXCEPT !.backend.space = @ - n]
    BY <1>5, <2>1, AtMostFacts DEF FlushSome
  <2>3. net' \in [Fds -> SocketSet]
    BY <2>1, <2>2 DEF Fds, SocketSet
  <2>4. PICK m \in Nat : b' = [b EXCEPT !.out = m, !.idle = FALSE]
    <3>1. b.out - n \in Nat
      BY <2>1, <2>2
    <3>2. QED
      BY <2>2, <3>1, Zenon
  <2>5. b' \in BackendSet
    BY <1>1, <2>4 DEF BackendSet
  <2>6. QED
    BY <1>5, <2>3, <2>5 DEF FlushSome, Types, loopVars
<1>6. CASE FlushError
  <2>1. todo' \in Seq(Functions)
    BY <1>1, <1>6, TypedThen1 DEF FlushError, Functions
  <2>2. QED
    BY <1>6, <2>1 DEF FlushError, Types, envVars, loopVars
<1>7. CASE FlushDone
  <2>1. PICK h \in BOOLEAN : b' = [b EXCEPT !.highWater = h]
    <3>1. (b.highWater /\ ~Drained(b)) \in BOOLEAN
      OBVIOUS
    <3>2. QED
      BY <1>7, <3>1, Zenon DEF FlushDone
  <2>2. b' \in BackendSet
    BY <1>1, <2>1 DEF BackendSet
  <2>3. Then(<<"on_backend_drained", "apply_interest">>) \/ Then(<<"apply_interest">>)
    <3>1. "on_backend_drained" \in Functions /\ "apply_interest" \in Functions
      BY DEF Functions
    <3>2. /\ <<"on_backend_drained">> \o <<"apply_interest">>
               = <<"on_backend_drained", "apply_interest">>
          /\ <<>> \o <<"apply_interest">> = <<"apply_interest">>
      BY <3>1, TwoCalls
    <3>3. QED
      BY <1>7, <3>2, Zenon DEF FlushDone, Notice
  <2>4. todo' \in Seq(Functions)
    BY <1>1, <2>3, TypedThen1, TypedThen2 DEF Functions
  <2>5. QED
    BY <1>7, <2>2, <2>4 DEF FlushDone, Types, envVars, loopVars
<1>8. CASE FlushApplyInterest
  <2>1. b' \in BackendSet /\ queued' \subseteq Fds
    BY <1>1, <1>8, WantedTypes DEF FlushApplyInterest, ApplyInterest, Update, Fds
  <2>2. QED
    BY <1>1, <1>8, <2>1, TypedReturn DEF FlushApplyInterest, Types, envVars
<1>9. CASE OnBackendDrained
  <2>1. c' \in ClientSet
    BY <1>1, <1>9 DEF OnBackendDrained, ClientSet
  <2>2. todo' \in Seq(Functions)
    BY <1>1, <1>9, TypedReturn, TypedThen1 DEF OnBackendDrained, Functions
  <2>3. QED
    BY <1>9, <2>1, <2>2 DEF OnBackendDrained, Types, envVars, loopVars
<1>10. QED
  BY <1>2, <1>3, <1>4, <1>5, <1>6, <1>7, <1>8, <1>9

\* EventLoop::run.
LEMMA LoopTypes ==
  ASSUME Types,
         \/ EpollWait \/ Dispatch \/ ProcessPendingClose
         \/ OnErrorClient \/ TimeoutClient \/ TimeoutBackend
  PROVE  Types'
<1>1. /\ c \in ClientSet /\ b \in BackendSet /\ closing \subseteq Fds /\ queued \in SUBSET Fds
      /\ batch \subseteq EventSet
  BY DEF Types
<1>2. CASE EpollWait
  <2>1. \A fd \in Fds : [fd |-> fd, ev |-> Ready(fd) \cap Interest(fd)] \in EventSet
    BY DEF EventSet, Ready
  <2>2. [fd |-> "timer", ev |-> {}] \in EventSet
    BY DEF EventSet
  <2>3. batch' \subseteq EventSet
    BY <1>1, <1>2, <2>1, <2>2 DEF EpollWait
  <2>4. QED
    BY <1>2, <2>3 DEF EpollWait, Types, envVars
<1>3. CASE Dispatch
  <2>1. batch' \subseteq EventSet
    BY <1>1, <1>3 DEF Dispatch
  <2>2. \A f, g \in Functions : <<f>> \in Seq(Functions) /\ <<f, g>> \in Seq(Functions)
    OBVIOUS
  <2>3. /\ {"drive", "on_readable", "on_writable", "on_error_client", "fail", "timeout_client",
            "timeout_backend"} \subseteq Functions
        /\ <<>> \in Seq(Functions)
    BY DEF Functions
  <2>4. <<"on_readable">> \o <<"on_writable">> \in Seq(Functions)
    BY <2>2, <2>3
  <2>5. todo' \in Seq(Functions)
    <3>1. PICK e \in batch :
            \/ todo' \in SweepTimeouts \/ todo' = <<"on_error_client">>
            \/ todo' = <<"drive", "drive">> \/ todo' = <<"drive">> \/ todo' = <<"fail">>
            \/ todo' = (IF "in" \in e.ev THEN <<"on_readable">> ELSE <<>>)
                         \o (IF "out" \in e.ev THEN <<"on_writable">> ELSE <<>>)
      BY <1>3 DEF Dispatch
    <3>2. /\ <<"on_readable">> \in Seq(Functions) /\ <<"on_writable">> \in Seq(Functions)
          /\ <<"drive", "drive">> \in Seq(Functions) /\ <<"drive">> \in Seq(Functions)
          /\ <<"fail">> \in Seq(Functions) /\ <<"on_error_client">> \in Seq(Functions)
      BY <2>2, <2>3
    <3>3. \A t \in SweepTimeouts : t \in Seq(Functions)
      BY <2>2, <2>3 DEF SweepTimeouts
    <3>4. (IF "in" \in e.ev THEN <<"on_readable">> ELSE <<>>)
             \o (IF "out" \in e.ev THEN <<"on_writable">> ELSE <<>>) \in Seq(Functions)
      BY <2>3, <3>2
    <3>5. QED
      BY <3>1, <3>2, <3>3, <3>4
  <2>6. QED
    BY <1>3, <2>1, <2>5 DEF Dispatch, Types, envVars
<1>4. CASE ProcessPendingClose
  <2>1. PICK x \in BOOLEAN, y \in BOOLEAN : c' = [c EXCEPT !.alive = x, !.backend = y]
    <3>1. /\ (c.alive /\ "client" \notin closing) \in BOOLEAN
          /\ (c.backend /\ ~("backend" \in closing /\ b.client)) \in BOOLEAN
      OBVIOUS
    <3>2. QED
      BY <1>4, <3>1, Zenon DEF ProcessPendingClose
  <2>2. c' \in ClientSet
    BY <1>1, <2>1 DEF ClientSet
  <2>3. NoBackend \in BackendSet
    BY DEF NoBackend, BackendSet
  <2>4. \A z \in BOOLEAN : [b EXCEPT !.client = z] \in BackendSet
    BY <1>1 DEF BackendSet
  <2>5. b' \in BackendSet
    <3>1. (b.client /\ ~("client" \in closing /\ c.backend)) \in BOOLEAN
      OBVIOUS
    <3>2. QED
      BY <1>4, <2>3, <2>4, <3>1, Zenon DEF ProcessPendingClose
  <2>6. queued' \subseteq Fds /\ closing' = {} /\ phase' = "wait"
    BY <1>1, <1>4 DEF ProcessPendingClose
  <2>7. QED
    BY <1>4, <2>2, <2>5, <2>6 DEF ProcessPendingClose, Types, envVars
<1>5. CASE OnErrorClient \/ TimeoutClient
  <2>1. c' \in ClientSet /\ b' \in BackendSet /\ closing' \subseteq Fds
    BY <1>1, <1>5, CloseBothTypes DEF OnErrorClient, TimeoutClient
  <2>2. QED
    BY <1>5, <2>1, TypedReturn DEF OnErrorClient, TimeoutClient, Doing, Types, envVars, loopVars
<1>6. CASE TimeoutBackend
  <2>1. todo' \in Seq(Functions)
    BY <1>6, TypedReturn, TypedThen1 DEF TimeoutBackend, Doing, Functions
  <2>2. QED
    BY <1>6, <2>1 DEF TimeoutBackend, Types, envVars, loopVars
<1>7. QED
  BY <1>2, <1>3, <1>4, <1>5, <1>6

\* The peers and the clock.
LEMMA EnvTypes ==
  ASSUME Types, Env \/ TimePasses
  PROVE  Types'
<1>1. net \in [Fds -> SocketSet] /\ left \in [Fds -> Nat] /\ SockBuf \in Nat
  BY Sizes DEF Types
<1>2. ASSUME NEW fd \in Fds, NEW e, Wake(fd, e)
      PROVE  queued' \subseteq Fds
  BY <1>2 DEF Types, Wake
<1>3. ASSUME NEW fd \in Fds, PeerSends(fd)
      PROVE  Types'
  <2>1. net' \in [Fds -> SocketSet]
    BY <1>1, <1>3 DEF PeerSends, SocketSet, Fds
  <2>2. left' \in [Fds -> Nat]
    BY <1>1, <1>3 DEF PeerSends
  <2>3. QED
    BY <1>2, <1>3, <2>1, <2>2 DEF PeerSends, Types
<1>4. ASSUME NEW fd \in Fds, PeerCloses(fd) \/ PeerReads(fd) \/ PeerResets(fd)
      PROVE  Types'
  <2>1. net' \in [Fds -> SocketSet]
    <3>1. CASE PeerCloses(fd)
      BY <1>1, <3>1 DEF PeerCloses, SocketSet, Fds
    <3>2. CASE PeerReads(fd)
      BY <1>1, <3>2 DEF PeerReads, SocketSet, Fds
    <3>3. CASE PeerResets(fd)
      BY <1>1, <3>3 DEF PeerResets, SocketSet, Fds
    <3>4. QED
      BY <1>4, <3>1, <3>2, <3>3
  <2>2. queued' \subseteq Fds
    <3>1. Wake(fd, "in") \/ Wake(fd, "out") \/ Wake(fd, "err") \/ queued' = queued
      BY <1>4 DEF PeerCloses, PeerReads, PeerResets
    <3>2. QED
      BY <1>2, <3>1 DEF Types
  <2>3. QED
    BY <1>4, <2>1, <2>2 DEF PeerCloses, PeerReads, PeerResets, Types
<1>5. CASE BackendAccepts \/ BackendRefuses
  <2>1. net' \in [Fds -> SocketSet]
    <3>1. CASE BackendAccepts
      BY <1>1, <3>1 DEF BackendAccepts, SocketSet, Fds
    <3>2. CASE BackendRefuses
      BY <1>1, <3>2 DEF BackendRefuses, SocketSet, Fds
    <3>3. QED
      BY <1>5, <3>1, <3>2
  <2>2. queued' \subseteq Fds
    BY <1>2, <1>5 DEF BackendAccepts, BackendRefuses, Fds
  <2>3. QED
    BY <1>5, <2>1, <2>2 DEF BackendAccepts, BackendRefuses, Types
<1>6. CASE TimePasses
  <2>1. PICK x \in BOOLEAN, y \in BOOLEAN :
          c' = [c EXCEPT !.idle = x] /\ b' = [b EXCEPT !.idle = y]
    <3>1. PICK S \in SUBSET Fds : /\ c' = [c EXCEPT !.idle = @ \/ "client" \in S]
                                  /\ b' = [b EXCEPT !.idle = @ \/ ("backend" \in S /\ b.alive)]
      BY <1>6 DEF TimePasses
    <3>2. /\ (c.idle \/ "client" \in S) \in BOOLEAN
          /\ (b.idle \/ ("backend" \in S /\ b.alive)) \in BOOLEAN
      OBVIOUS
    <3>3. QED
      BY <3>1, <3>2, Zenon
  <2>2. c' \in ClientSet
    BY <2>1 DEF Types, ClientSet
  <2>3. b' \in BackendSet
    BY <2>1 DEF Types, BackendSet
  <2>4. QED
    BY <1>6, <2>2, <2>3 DEF TimePasses, Types, envVars, loopVars
<1>7. QED
  BY <1>3, <1>4, <1>5, <1>6 DEF Env

\* Every step keeps the types.
LEMMA TypesNext == ASSUME Types, [Next]_vars PROVE Types'
<1>1. CASE LoopStep
  BY <1>1, LoopTypes, DriveTypes, PumpReadTypes, RequestTypes, PumpWriteTypes,
     BackendReadTypes, BackendWriteTypes DEF LoopStep
<1>2. CASE Env \/ TimePasses
  BY <1>2, EnvTypes
<1>3. CASE Finished \/ UNCHANGED vars
  BY <1>3 DEF Finished, vars, envVars, loopVars, Types
<1>4. QED
  BY <1>1, <1>2, <1>3 DEF Next

LEMMA TypesInvariant == Spec => []Types
  BY TypesInit, TypesNext, PTL DEF Spec

(* Every reachable state is well typed: no buffer and no socket count goes *)
(* below zero, and the call stack holds the functions of the two handlers. *)
THEOREM TypeCorrect == Spec => []TypeOK
  BY TypesInvariant, TypesOK, PTL

-----------------------------------------------------------------------------
(* Who is alive, who points at whom, and what may be on the stack.         *)

\* Functions of the client's handler, and of the backend's.
ClientFns ==
  {"recompute_interest", "drive", "drive_write", "pump_read", "process_head",
   "forward_body_rest", "send_response", "send_head", "pump_write", "pump_write_end",
   "deliver_rest", "on_backend_closed", "on_backend_drained", "on_error_client"}
BackendFns ==
  {"resume_reads", "on_readable", "request_close", "fail", "on_writable", "flush",
   "apply_interest"}

\* Functions that run as soon as they are called: nothing is ever above them.
HeadOnly ==
  {"process_head", "send_response", "send_head", "pump_write", "resume_reads",
   "on_backend_closed", "on_backend_drained", "fail", "flush", "on_error_client"}

Discipline == \A f \in Deeper(todo) : f \notin HeadOnly

(* A handler with work queued, in the batch or on the stack is alive; a    *)
(* handler is destroyed only after the batch that closed it, and a backend *)
(* that is to be closed has let go of its client.                          *)
LifeInv ==
  /\ phase = "wait" => todo = <<>> /\ batch = {} /\ closing = {}
  /\ "client" \in queued => c.alive
  /\ "backend" \in queued => b.alive
  /\ \A e \in batch : (e.fd = "client" => c.alive) /\ (e.fd = "backend" => b.alive)
  /\ \A f \in Calls(todo) : (f \in ClientFns => c.alive) /\ (f \in BackendFns => b.alive)
  /\ "client" \in closing => c.closed
  /\ c.closed /\ c.alive => "client" \in closing
  /\ ~c.alive => c.closed
  /\ "backend" \in closing => b.alive /\ ~b.client
  /\ "request_close" \in Calls(todo) => ~b.client

(* The pointers, and what is known of a client that has no backend yet.    *)
PointerInv ==
  /\ PointersLive
  /\ c.closed => ~c.backend
  /\ c.state = "ReadingHead" => ~b.alive /\ ~c.backend
  /\ AtHead("process_head") => c.state = "ReadingHead" /\ ~c.closed
  /\ AtHead("on_backend_closed") => c.backend /\ ~b.client

Core == Types /\ Discipline /\ LifeInv /\ PointerInv

LEMMA CoreInit == Init => Core
<1> SUFFICES ASSUME Init PROVE Core
  OBVIOUS
<1>1. /\ c = HttpConnection /\ b = NoBackend /\ todo = <<>> /\ batch = {} /\ queued = {}
      /\ closing = {}
  BY DEF Init
<1>2. Calls(todo) = {} /\ Deeper(todo) = {}
  BY <1>1 DEF Calls, Deeper
<1>3. /\ c.alive /\ ~c.closed /\ ~c.backend /\ c.state = "ReadingHead"
      /\ ~b.alive /\ ~b.client
  BY <1>1 DEF HttpConnection, NoBackend
<1>4. QED
  BY <1>1, <1>2, <1>3, TypesInit
     DEF Core, Discipline, LifeInv, PointerInv, PointersLive, AtHead

\* Return and calls keep the discipline.
LEMMA DReturn ==
  ASSUME Types, Discipline, todo # <<>>, Return
  PROVE  /\ Discipline' /\ \A f \in Calls(todo') : f \in Calls(todo)
         /\ \A f \in HeadOnly : ~(todo' # <<>> /\ Head(todo') = f)
<1>1. /\ Calls(todo') = Deeper(todo) /\ Deeper(todo') \subseteq Deeper(todo)
      /\ todo' # <<>> => Head(todo') \in Deeper(todo)
  BY Returns DEF Types
<1>2. Deeper(todo) \subseteq Calls(todo)
  BY Stack DEF Types
<1>3. QED
  BY <1>1, <1>2 DEF Discipline

LEMMA DThen1 ==
  ASSUME Types, Discipline, todo # <<>>, NEW f \in Functions, Then(<<f>>)
  PROVE  /\ Discipline' /\ \A x \in Calls(todo') : x = f \/ x \in Calls(todo)
         /\ todo' # <<>> /\ Head(todo') = f
<1>1. Deeper(todo) \subseteq Calls(todo)
  BY Stack DEF Types
<1>2. QED
  BY <1>1, Then1 DEF Discipline, Types

LEMMA DThen2 ==
  ASSUME Types, Discipline, todo # <<>>, NEW f \in Functions, NEW g \in Functions,
         g \notin HeadOnly, Then(<<f, g>>)
  PROVE  /\ Discipline' /\ \A x \in Calls(todo') : x \in {f, g} \/ x \in Calls(todo)
         /\ todo' # <<>> /\ Head(todo') = f /\ todo'[2] = g
<1>1. Deeper(todo) \subseteq Calls(todo)
  BY Stack DEF Types
<1>2. QED
  BY <1>1, Then2 DEF Discipline, Types

LEMMA DThen3 ==
  ASSUME Types, Discipline, todo # <<>>, NEW f \in Functions, NEW g \in Functions,
         NEW h \in Functions, g \notin HeadOnly, h \notin HeadOnly, Then(<<f, g, h>>)
  PROVE  /\ Discipline' /\ \A x \in Calls(todo') : x \in {f, g, h} \/ x \in Calls(todo)
         /\ todo' # <<>> /\ Head(todo') = f /\ todo'[2] = g
<1>1. Deeper(todo) \subseteq Calls(todo)
  BY Stack DEF Types
<1>2. /\ todo' # <<>> /\ Head(todo') = f /\ todo'[2] = g
      /\ Calls(todo') = {f, g, h} \cup Deeper(todo)
      /\ Deeper(todo') = {g, h} \cup Deeper(todo)
  BY Then3 DEF Types
<1>3. QED
  BY <1>1, <1>2 DEF Discipline

\* Most steps leave alone who is alive and who points at whom.
SameLinks ==
  /\ c'.alive = c.alive /\ c'.closed = c.closed /\ c'.backend = c.backend
  /\ c'.state = "ReadingHead" => c.state = "ReadingHead"
  /\ b'.alive = b.alive /\ b'.client = b.client

\* What a function may call: its own handler's, and those of a live one.
LiveCalls ==
  \A f \in Calls(todo') :
    \/ f \in Calls(todo)
    \/ f \in ClientFns /\ c.alive
    \/ f \in BackendFns /\ b.alive /\ (f = "request_close" => ~b.client)

LEMMA CoreQuiet ==
  ASSUME Core, SameLinks, Discipline', LiveCalls, Types',
         closing' = closing, batch' = batch, phase' = phase,
         "client" \in queued' => "client" \in queued \/ c.alive,
         "backend" \in queued' => "backend" \in queued \/ b.alive,
         todo # <<>> \/ todo' = todo,
         todo' = todo \/ ~AtHead("on_backend_closed"),
         todo' # <<>> /\ Head(todo') = "process_head" =>
           c'.state = "ReadingHead" /\ ~c.closed,
         todo' # todo => ~(todo' # <<>> /\ Head(todo') = "on_backend_closed")
  PROVE  Core'
<1>1. Discipline /\ LifeInv /\ PointerInv /\ Types
  BY DEF Core
<1>2. \A f \in ClientFns : f \notin BackendFns
  BY DEF ClientFns, BackendFns
<1>3. "request_close" \notin ClientFns
  BY DEF ClientFns
<1>4. \A f \in Calls(todo') : (f \in ClientFns => c.alive) /\ (f \in BackendFns => b.alive)
  BY <1>1, <1>2 DEF LifeInv, LiveCalls
<1>5. "request_close" \in Calls(todo') => ~b.client
  BY <1>1, <1>3 DEF LifeInv, LiveCalls
<1>6. LifeInv'
  BY <1>1, <1>4, <1>5 DEF LifeInv, SameLinks
<1>7. PointerInv'
  <2>1. PointersLive'
    BY <1>1 DEF PointerInv, PointersLive, SameLinks, AtHead
  <2>2. QED
    BY <1>1, <2>1 DEF PointerInv, SameLinks, AtHead
<1>8. QED
  BY <1>6, <1>7 DEF Core

\* The functions by name.
LEMMA Names ==
  /\ ClientFns \subseteq Functions /\ BackendFns \subseteq Functions
  /\ \A f \in {"drive", "drive_write", "pump_read", "forward_body_rest", "pump_write_end",
               "recompute_interest", "deliver_rest", "on_readable", "request_close",
               "apply_interest", "on_writable"} : f \notin HeadOnly
  BY DEF ClientFns, BackendFns, Functions, HeadOnly

\* The running function's handler is alive.
LEMMA Running ==
  ASSUME Core, NEW f, Doing(f)
  PROVE  /\ todo # <<>> /\ Types /\ Discipline /\ AtHead(f)
         /\ f \in ClientFns => c.alive
         /\ f \in BackendFns => b.alive
         /\ c \in ClientSet /\ b \in BackendSet
<1>1. todo # <<>> /\ Head(todo) = f /\ Types /\ Discipline /\ LifeInv
  BY DEF Doing, Core
<1>2. f \in Calls(todo)
  BY <1>1, Stack DEF Types
<1>3. QED
  BY <1>1, <1>2 DEF LifeInv, AtHead, Types

\* Calls that a live handler may make.
May(f) ==
  \/ f \in ClientFns /\ c.alive
  \/ f \in BackendFns /\ b.alive /\ (f = "request_close" => ~b.client)
Calm == ~(todo' # <<>> /\ Head(todo') \in {"process_head", "on_backend_closed"})
Steady == Discipline' /\ LiveCalls /\ Calm

LEMMA SReturn == ASSUME Core, todo # <<>>, Return PROVE Steady
  BY DReturn DEF Core, Steady, LiveCalls, Calm, HeadOnly

LEMMA SThen1 ==
  ASSUME Core, todo # <<>>, NEW f, May(f), f \notin {"process_head", "on_backend_closed"},
         Then(<<f>>)
  PROVE  Steady
<1>1. f \in Functions
  BY Names DEF May
<1>2. QED
  BY <1>1, DThen1 DEF Core, Steady, LiveCalls, Calm, May

LEMMA SThen2 ==
  ASSUME Core, todo # <<>>, NEW f, NEW g, May(f), May(g), g \notin HeadOnly,
         f \notin {"process_head", "on_backend_closed"}, Then(<<f, g>>)
  PROVE  Steady
<1>1. f \in Functions /\ g \in Functions
  BY Names DEF May
<1>2. /\ Discipline' /\ \A x \in Calls(todo') : x \in {f, g} \/ x \in Calls(todo)
      /\ todo' # <<>> /\ Head(todo') = f
  BY <1>1, DThen2 DEF Core
<1>3. QED
  BY <1>2 DEF Steady, LiveCalls, Calm, May

LEMMA SThen3 ==
  ASSUME Core, todo # <<>>, NEW f, NEW g, NEW h, May(f), May(g), May(h), g \notin HeadOnly,
         h \notin HeadOnly, f \notin {"process_head", "on_backend_closed"}, Then(<<f, g, h>>)
  PROVE  Steady
<1>1. f \in Functions /\ g \in Functions /\ h \in Functions
  BY Names DEF May
<1>2. /\ Discipline' /\ \A x \in Calls(todo') : x \in {f, g, h} \/ x \in Calls(todo)
      /\ todo' # <<>> /\ Head(todo') = f
  BY <1>1, DThen3 DEF Core
<1>3. QED
  BY <1>2 DEF Steady, LiveCalls, Calm, May

\* A step of a function that leaves the links alone.
LEMMA CoreStep ==
  ASSUME Core, Types', SameLinks, Steady, NEW f, Doing(f), f # "on_backend_closed",
         closing' = closing, batch' = batch, phase' = phase,
         "client" \in queued' => "client" \in queued \/ c.alive,
         "backend" \in queued' => "backend" \in queued \/ b.alive
  PROVE  Core'
  BY CoreQuiet DEF Steady, Calm, Doing, AtHead
\* drive and recompute_interest, where they close nothing.
LEMMA CoreDrive ==
  ASSUME Core, RecomputeInterest \/ DriveWrite \/ (Drive /\ UNCHANGED closing /\ c'.closed = c.closed)
  PROVE  Core'
<1>1. Types'
  BY DriveTypes DEF Core
<1>2. CASE RecomputeInterest
  <2>1. Doing("recompute_interest")
    BY <1>2 DEF RecomputeInterest
  <2>2. todo # <<>> /\ c.alive /\ c \in ClientSet
    BY <2>1, Running DEF ClientFns
  <2>3. Steady
    BY <1>2, <2>2, SReturn DEF RecomputeInterest
  <2>4. SameLinks /\ ("backend" \in queued' => "backend" \in queued)
    BY <1>2, <2>2 DEF RecomputeInterest, SetInterest, Update, SameLinks, ClientSet
  <2>5. QED
    BY <1>1, <1>2, <2>1, <2>2, <2>3, <2>4, CoreStep DEF RecomputeInterest
<1>3. CASE DriveWrite
  <2>1. Doing("drive_write")
    BY <1>3 DEF DriveWrite
  <2>2. todo # <<>> /\ c.alive
    BY <2>1, Running DEF ClientFns
  <2>3. Steady
    BY <1>3, <2>2, SReturn, SThen2 DEF DriveWrite, May, ClientFns, HeadOnly
  <2>4. QED
    BY <1>1, <1>3, <2>1, <2>3, CoreStep DEF DriveWrite, SameLinks, loopVars
<1>4. CASE Drive /\ UNCHANGED closing /\ c'.closed = c.closed
  <2>1. Doing("drive")
    BY <1>4 DEF Drive
  <2>2. todo # <<>> /\ c.alive /\ c \in ClientSet
    BY <2>1, Running DEF ClientFns
  <2>3. Steady
    BY <1>4, <2>2, SReturn, SThen2 DEF Drive, May, ClientFns, HeadOnly
  <2>4. SameLinks /\ ("backend" \in queued' => "backend" \in queued)
    BY <1>4, <2>2 DEF Drive, SetInterest, Update, SameLinks, ClientSet, CloseBoth
  <2>5. QED
    BY <1>1, <1>4, <2>1, <2>2, <2>3, <2>4, CoreStep DEF Drive
<1>5. QED
  BY <1>2, <1>3, <1>4

\* forward_body's calls.
LEMMA ForwardCalls ==
  ASSUME NEW cc, NEW bb, NEW n, ForwardBody(cc, bb, n, <<"pump_read">>), cc.backend
  PROVE  IF bb.connected THEN Then(<<"flush", "forward_body_rest", "pump_read">>)
                         ELSE Then(<<"forward_body_rest", "pump_read">>)
<1>1. "flush" \in Functions /\ "forward_body_rest" \in Functions /\ "pump_read" \in Functions
  BY DEF Functions
<1>2. /\ <<"forward_body_rest">> \o <<"pump_read">> = <<"forward_body_rest", "pump_read">>
      /\ <<>> \o <<"forward_body_rest">> = <<"forward_body_rest">>
      /\ <<"flush">> \o <<"forward_body_rest">> = <<"flush", "forward_body_rest">>
      /\ <<"pump_read">> \in Seq(Functions)
  BY <1>1, TwoCalls
<1>3. <<"flush", "forward_body_rest">> \o <<"pump_read">> = <<"flush", "forward_body_rest", "pump_read">>
  <2>1. <<"flush", "forward_body_rest">> \o <<"pump_read">>
          = <<"flush">> \o (<<"forward_body_rest">> \o <<"pump_read">>)
    BY <1>1, <1>2, PushTwo
  <2>2. <<"flush">> \o <<"forward_body_rest", "pump_read">> = <<"flush", "forward_body_rest", "pump_read">>
    BY <1>1, ThreeCalls
  <2>3. QED
    BY <1>2, <2>1, <2>2, Zenon
<1>4. QED
  BY <1>2, <1>3, Zenon DEF ForwardBody

LEMMA ForwardCallsHead ==
  ASSUME NEW cc, NEW bb, NEW n, ForwardBody(cc, bb, n, <<>>), cc.backend
  PROVE  IF bb.connected THEN Then(<<"flush", "forward_body_rest">>)
                         ELSE Then(<<"forward_body_rest">>)
<1>1. "flush" \in Functions /\ "forward_body_rest" \in Functions
  BY DEF Functions
<1>2. /\ <<>> \o <<"forward_body_rest">> = <<"forward_body_rest">>
      /\ <<"flush">> \o <<"forward_body_rest">> = <<"flush", "forward_body_rest">>
      /\ <<"forward_body_rest">> \in Seq(Functions)
      /\ <<"flush", "forward_body_rest">> \in Seq(Functions)
  BY <1>1, TwoCalls
<1>3. /\ <<"flush", "forward_body_rest">> \o <<>> = <<"flush", "forward_body_rest">>
      /\ <<"forward_body_rest">> \o <<>> = <<"forward_body_rest">>
  BY <1>2, ConcatEmptySeq
<1>4. QED
  BY <1>2, <1>3, Zenon DEF ForwardBody

\* What is known of the links when a function of the client's runs.
LEMMA Links ==
  ASSUME Core
  PROVE  /\ c.backend => b.alive
         /\ b.client => b.alive /\ c.alive /\ c.backend /\ ~c.closed
         /\ c.closed => ~c.backend
  BY DEF Core, PointerInv, PointersLive

\* pump_read, where it closes nothing.
LEMMA CoreRead ==
  ASSUME Core, PumpReadStop \/ PumpReadBlock \/ PumpReadData
                 \/ (PumpReadEof /\ c.state \in {"Streaming", "Closing"})
  PROVE  Core'
<1>1. Types' /\ Doing("pump_read")
  BY PumpReadTypes DEF Core, PumpReadStop, PumpReadBlock, PumpReadData, PumpReadEof, Receiving
<1>2. todo # <<>> /\ c.alive /\ c \in ClientSet /\ b \in BackendSet /\ Types /\ Discipline
  BY <1>1, Running DEF ClientFns
<1>3. CASE PumpReadStop \/ PumpReadBlock \/ (PumpReadEof /\ c.state \in {"Streaming", "Closing"})
  <2>1. Return /\ b' = b /\ closing' = closing /\ phase' = phase /\ batch' = batch /\ queued' = queued
    BY <1>3 DEF PumpReadStop, PumpReadBlock, PumpReadEof, loopVars
  <2>2. SameLinks
    BY <1>2, <1>3, <2>1 DEF PumpReadStop, PumpReadBlock, PumpReadEof, SameLinks, ClientSet
  <2>3. Steady
    BY <1>2, <2>1, SReturn
  <2>4. QED
    BY <1>1, <2>1, <2>2, <2>3, CoreStep
<1>4. CASE PumpReadData
  <2> DEFINE n == AtMost(net.client.rcv, Chunk)
             cc == [c EXCEPT !.idle = FALSE]
  <2>1. closing' = closing /\ phase' = phase /\ batch' = batch /\ queued' = queued
    BY <1>4 DEF PumpReadData, loopVars
  <2>2. /\ cc.backend = c.backend /\ cc.alive = c.alive /\ cc.closed = c.closed
        /\ cc.state = c.state /\ cc \in ClientSet
    BY <1>2 DEF ClientSet
  <2>3. CASE c.state = "ReadingHead" /\ c' = [cc EXCEPT !.in = @ + n]
               /\ Then(<<"process_head", "pump_read">>) /\ b' = b
    <3>1. SameLinks /\ c'.state = "ReadingHead"
      BY <2>2, <2>3 DEF SameLinks, ClientSet
    <3>2. /\ Discipline' /\ todo' # <<>> /\ Head(todo') = "process_head"
          /\ \A x \in Calls(todo') : x \in {"process_head", "pump_read"} \/ x \in Calls(todo)
      BY <1>2, <2>3, DThen2 DEF Functions, HeadOnly
    <3>3. LiveCalls
      BY <1>2, <3>2 DEF LiveCalls, ClientFns
    <3>4. ~c.closed /\ ~AtHead("on_backend_closed")
      BY <1>1, <1>4 DEF PumpReadData, Receiving, Doing, AtHead
    <3>5. QED
      BY <1>1, <1>2, <2>1, <3>1, <3>2, <3>3, <3>4, CoreQuiet
  <2>4. CASE c.state = "StreamingUp" /\ ForwardBody(cc, b, n, <<"pump_read">>)
    <3>1. SameLinks
      <4>1. c' = cc \/ \E m : c' = [cc EXCEPT !.bodyLeft = m]
        BY <2>4, Zenon DEF ForwardBody
      <4>2. b' = b \/ \E m, h : b' = [b EXCEPT !.out = m, !.highWater = h]
        BY <2>4, Zenon DEF ForwardBody, Queued
      <4>3. b'.alive = b.alive /\ b'.client = b.client
        BY <1>2, <4>2 DEF BackendSet
      <4>4. c'.alive = cc.alive /\ c'.closed = cc.closed /\ c'.backend = cc.backend /\ c'.state = cc.state
        BY <2>2, <4>1 DEF ClientSet
      <4>5. QED
        BY <2>2, <4>3, <4>4 DEF SameLinks
    <3>2. CASE ~c.backend
      <4>1. Then(<<"pump_read">>)
        BY <2>2, <2>4, <3>2 DEF ForwardBody
      <4>2. Steady
        BY <1>2, <4>1, SThen1 DEF May, ClientFns
      <4>3. QED
        BY <1>1, <2>1, <3>1, <4>2, CoreStep
    <3>3. CASE c.backend
      <4>1. \/ Then(<<"flush", "forward_body_rest", "pump_read">>)
            \/ Then(<<"forward_body_rest", "pump_read">>)
        BY <2>2, <2>4, <3>3, ForwardCalls
      <4>2. May("flush") /\ May("forward_body_rest") /\ May("pump_read")
        BY <1>2, <3>3, Links DEF May, ClientFns, BackendFns
      <4>3. "forward_body_rest" \notin HeadOnly /\ "pump_read" \notin HeadOnly
        BY Names
      <4>4. Steady
        BY <1>2, <4>1, <4>2, <4>3, SThen2, SThen3
      <4>5. QED
        BY <1>1, <2>1, <3>1, <4>4, CoreStep
    <3>4. QED
      BY <1>2, <3>2, <3>3 DEF ClientSet
  <2>5. CASE c' = cc /\ b' = b /\ todo' = todo
    <3>1. SameLinks
      BY <2>2, <2>5 DEF SameLinks
    <3>2. Discipline' /\ LiveCalls
      BY <1>2, <2>5 DEF Discipline, LiveCalls
    <3>3. ~AtHead("process_head") /\ ~AtHead("on_backend_closed")
      BY <1>1 DEF Doing, AtHead
    <3>4. QED
      BY <1>1, <2>1, <2>5, <3>1, <3>2, <3>3, CoreQuiet DEF AtHead
  <2>6. QED
    BY <1>4, <2>3, <2>4, <2>5 DEF PumpReadData
<1>5. QED
  BY <1>3, <1>4

\* The request's head, where no backend is started, and the rest of a body.
LEMMA CoreRequest ==
  ASSUME Core, ProcessHeadIncomplete \/ ProcessHeadReject \/ HandleInternal \/ StartBackendFails
                 \/ ForwardBodyRest \/ (\E f \in {"send_response", "send_head"}, n \in Nat : SendResponse(f, n)),
         Types'
  PROVE  Core'
<1>1. CASE ProcessHeadIncomplete \/ ProcessHeadReject \/ HandleInternal \/ StartBackendFails
  <2>1. Doing("process_head") /\ b' = b /\ closing' = closing /\ phase' = phase
          /\ batch' = batch /\ queued' = queued
    BY <1>1 DEF ProcessHeadIncomplete, ProcessHeadReject, HandleInternal, StartBackendFails, loopVars
  <2>2. todo # <<>> /\ c.alive /\ c \in ClientSet
    BY <2>1, Running DEF ClientFns
  <2>3. SameLinks
    BY <1>1, <2>1, <2>2
       DEF ProcessHeadIncomplete, ProcessHeadReject, HandleInternal, StartBackendFails,
           SameLinks, ClientSet
  <2>4. May("send_response") /\ May("send_head")
    BY <2>2 DEF May, ClientFns
  <2>5. Return \/ Then(<<"send_response">>) \/ Then(<<"send_head">>)
    BY <1>1 DEF ProcessHeadIncomplete, ProcessHeadReject, HandleInternal, StartBackendFails
  <2>6. Steady
    BY <2>2, <2>4, <2>5, SReturn, SThen1
  <2>7. QED
    BY <2>1, <2>3, <2>6, CoreStep
<1>2. CASE ForwardBodyRest
  <2>1. Doing("forward_body_rest") /\ b' = b /\ closing' = closing /\ phase' = phase
          /\ batch' = batch /\ queued' = queued
    BY <1>2 DEF ForwardBodyRest, loopVars
  <2>2. todo # <<>> /\ c.alive /\ c \in ClientSet /\ Types /\ Discipline
    BY <2>1, Running DEF ClientFns
  <2>3. SameLinks
    BY <1>2, <2>1, <2>2 DEF ForwardBodyRest, SameLinks, ClientSet
  <2>4. CASE Return
    <3>1. Steady
      BY <2>2, <2>4, SReturn
    <3>2. QED
      BY <2>1, <2>3, <3>1, CoreStep
  <2>5. CASE todo' = todo
    <3>1. Discipline' /\ LiveCalls
      BY <2>2, <2>5 DEF Discipline, LiveCalls
    <3>2. ~AtHead("process_head") /\ ~AtHead("on_backend_closed")
      BY <2>1 DEF Doing, AtHead
    <3>3. QED
      BY <2>1, <2>3, <2>5, <3>1, <3>2, CoreQuiet DEF AtHead
  <2>6. QED
    BY <1>2, <2>4, <2>5 DEF ForwardBodyRest
<1>3. ASSUME NEW f \in {"send_response", "send_head"}, NEW n \in Nat, SendResponse(f, n)
      PROVE  Core'
  <2>1. Doing(f) /\ b' = b /\ closing' = closing /\ phase' = phase
          /\ batch' = batch /\ queued' = queued
    BY <1>3 DEF SendResponse, loopVars
  <2>2. todo # <<>> /\ c.alive /\ c \in ClientSet
    BY <2>1, Running DEF ClientFns
  <2>3. SameLinks
    BY <1>3, <2>1, <2>2 DEF SendResponse, SameLinks, ClientSet
  <2>4. Steady
    BY <1>3, <2>2, SThen2 DEF SendResponse, May, ClientFns, HeadOnly
  <2>5. QED
    BY <2>1, <2>3, <2>4, CoreStep
<1>4. QED
  BY <1>1, <1>2, <1>3

\* pump_write and the backend's reads, where nothing is closed.
LEMMA CoreWrite ==
  ASSUME Core, Types', PumpWriteSome \/ PumpWriteBlock \/ PumpWriteDrained
                         \/ (PumpWriteEnd /\ c.state # "Closing")
  PROVE  Core'
<1>1. \E f \in {"pump_write", "pump_write_end"} : Doing(f)
  BY DEF PumpWriteSome, PumpWriteBlock, PumpWriteDrained, PumpWriteEnd
<1>2. PICK f \in {"pump_write", "pump_write_end"} : Doing(f)
  BY <1>1
<1>3. todo # <<>> /\ c.alive /\ c \in ClientSet /\ Types /\ Discipline
  BY <1>2, Running DEF ClientFns
<1>4. b' = b /\ closing' = closing /\ phase' = phase /\ batch' = batch /\ queued' = queued
  BY DEF PumpWriteSome, PumpWriteBlock, PumpWriteDrained, PumpWriteEnd, loopVars
<1>5. SameLinks
  <2>1. CASE PumpWriteSome
    <3>1. \E m : c' = [c EXCEPT !.out = m, !.idle = FALSE]
      BY <2>1, Zenon DEF PumpWriteSome
    <3>2. QED
      BY <1>3, <1>4, <3>1 DEF SameLinks, ClientSet
  <2>2. CASE PumpWriteBlock \/ PumpWriteDrained \/ (PumpWriteEnd /\ c.state # "Closing")
    BY <1>3, <1>4, <2>2 DEF PumpWriteBlock, PumpWriteDrained, PumpWriteEnd, SameLinks, ClientSet
  <2>3. QED
    BY <2>1, <2>2
<1>6. CASE PumpWriteSome
  <2>1. todo' = todo
    BY <1>6 DEF PumpWriteSome
  <2>2. Discipline' /\ LiveCalls
    BY <1>3, <2>1 DEF Discipline, LiveCalls
  <2>3. ~AtHead("process_head") /\ ~AtHead("on_backend_closed")
    BY <1>2 DEF Doing, AtHead
  <2>4. QED
    BY <1>4, <1>5, <2>1, <2>2, <2>3, CoreQuiet DEF AtHead
<1>7. CASE PumpWriteBlock \/ PumpWriteDrained \/ (PumpWriteEnd /\ c.state # "Closing")
  <2>1. Return \/ Then(<<"pump_write_end">>) \/ (c.backend /\ Then(<<"resume_reads", "pump_write_end">>))
    BY <1>7 DEF PumpWriteBlock, PumpWriteDrained, PumpWriteEnd, Resumes
  <2>2. May("pump_write_end") /\ (c.backend => May("resume_reads"))
    BY <1>3, Links DEF May, ClientFns, BackendFns
  <2>3. Steady
    BY <1>3, <2>1, <2>2, Names, SReturn, SThen1, SThen2
  <2>4. QED
    BY <1>2, <1>4, <1>5, <2>3, CoreStep
<1>8. QED
  BY <1>6, <1>7

LEMMA CoreBackendRead ==
  ASSUME Core, Types', ResumeReads \/ BackendReadData \/ DeliverRest \/ BackendReadStop \/ BackendReadError
  PROVE  Core'
<1>1. CASE ResumeReads \/ BackendReadStop \/ BackendReadError
  <2>1. PICK f \in {"resume_reads", "on_readable"} : Doing(f)
    BY <1>1 DEF ResumeReads, BackendReadStop, BackendReadError
  <2>2. todo # <<>> /\ b.alive /\ b \in BackendSet
    BY <2>1, Running DEF BackendFns
  <2>3. /\ c' = c /\ closing' = closing /\ phase' = phase /\ batch' = batch
        /\ "client" \in queued' => "client" \in queued
    BY <1>1 DEF ResumeReads, BackendReadStop, BackendReadError, loopVars, ApplyInterest, Update
  <2>4. SameLinks
    BY <1>1, <2>2, <2>3 DEF ResumeReads, BackendReadStop, BackendReadError, SameLinks, Applied, BackendSet
  <2>5. Return \/ Then(<<"on_readable">>) \/ Then(<<"fail">>)
    BY <1>1 DEF ResumeReads, BackendReadStop, BackendReadError
  <2>6. Steady
    BY <2>2, <2>5, SReturn, SThen1 DEF May, BackendFns
  <2>7. QED
    BY <2>1, <2>2, <2>3, <2>4, <2>6, CoreStep
<1>2. CASE BackendReadData
  <2>1. Doing("on_readable")
    BY <1>2 DEF BackendReadData
  <2>2. todo # <<>> /\ b.alive /\ b \in BackendSet /\ c \in ClientSet /\ Types /\ Discipline
    BY <2>1, Running DEF BackendFns
  <2>3. closing' = closing /\ phase' = phase /\ batch' = batch /\ queued' = queued
    BY <1>2 DEF BackendReadData, loopVars
  <2>4. /\ b' = [b EXCEPT !.idle = FALSE]
        /\ c' = c \/ \E m : c' = [c EXCEPT !.out = m, !.responded = TRUE, !.relayed = TRUE]
    BY <1>2, Zenon DEF BackendReadData, Deliver
  <2>5. SameLinks
    BY <2>2, <2>4 DEF SameLinks, ClientSet, BackendSet
  <2>6. CASE b.client /\ Then(<<"pump_write", "deliver_rest", "on_readable">>)
    <3>1. May("pump_write") /\ May("deliver_rest") /\ May("on_readable")
      BY <2>2, <2>6, Links DEF May, ClientFns, BackendFns
    <3>2. "deliver_rest" \notin HeadOnly /\ "on_readable" \notin HeadOnly
      BY Names
    <3>3. Steady
      BY <2>2, <2>6, <3>1, <3>2, SThen3
    <3>4. QED
      BY <2>1, <2>3, <2>5, <3>3, CoreStep
  <2>7. CASE todo' = todo
    <3>1. Discipline' /\ LiveCalls
      BY <2>2, <2>7 DEF Discipline, LiveCalls
    <3>2. ~AtHead("process_head") /\ ~AtHead("on_backend_closed")
      BY <2>1 DEF Doing, AtHead
    <3>3. QED
      BY <2>3, <2>5, <2>7, <3>1, <3>2, CoreQuiet DEF AtHead
  <2>8. QED
    BY <1>2, <2>6, <2>7 DEF BackendReadData, DeliverLoop
<1>3. CASE DeliverRest
  <2>1. Doing("deliver_rest")
    BY <1>3 DEF DeliverRest
  <2>2. todo # <<>> /\ c.alive /\ b \in BackendSet /\ c \in ClientSet
    BY <2>1, Running DEF ClientFns
  <2>3. closing' = closing /\ phase' = phase /\ batch' = batch
    BY <1>3 DEF DeliverRest
  <2>4. /\ c' = c \/ \E x, y : c' = [[c EXCEPT !.backendPaused = x] EXCEPT !.interest = y]
        /\ b' = b \/ \E y : b' = [[b EXCEPT !.readPaused = TRUE] EXCEPT !.interest = y]
    BY <1>3, Zenon DEF DeliverRest, SetInterest, Applied, PauseReads
  <2>5. SameLinks
    BY <2>2, <2>4 DEF SameLinks, ClientSet, BackendSet
  <2>6. "backend" \in queued' => "backend" \in queued \/ b.alive
    <3>1. CASE c.closed
      BY <1>3, <3>1 DEF DeliverRest
    <3>2. CASE ~c.closed /\ c.backend
      BY <3>2, Links
    <3>3. CASE ~c.closed /\ ~c.backend
      BY <1>3, <3>3 DEF DeliverRest, SetInterest, Update
    <3>4. QED
      BY <3>1, <3>2, <3>3
  <2>7. Steady
    BY <1>3, <2>2, SReturn DEF DeliverRest
  <2>8. QED
    BY <2>1, <2>2, <2>3, <2>5, <2>6, <2>7, CoreStep
<1>4. QED
  BY <1>1, <1>2, <1>3

\* The calls with which flush ends.
LEMMA FlushCalls ==
  ASSUME FlushDone
  PROVE  \/ Drained(b) /\ b.client /\ Then(<<"on_backend_drained", "apply_interest">>)
         \/ ~(Drained(b) /\ b.client) /\ Then(<<"apply_interest">>)
<1>1. "on_backend_drained" \in Functions /\ "apply_interest" \in Functions
  BY DEF Functions
<1>2. /\ <<"on_backend_drained">> \o <<"apply_interest">>
           = <<"on_backend_drained", "apply_interest">>
      /\ <<>> \o <<"apply_interest">> = <<"apply_interest">>
  BY <1>1, TwoCalls
<1>3. QED
  BY <1>2, Zenon DEF FlushDone, Notice

\* The backend's writes.
LEMMA CoreFlush ==
  ASSUME Core, Types', \/ OnWritable \/ FlushSome \/ FlushError \/ FlushDone
                       \/ FlushApplyInterest \/ OnBackendDrained \/ TimeoutBackend
  PROVE  Core'
<1>1. CASE OnWritable \/ FlushError \/ FlushDone \/ FlushApplyInterest
  <2>1. PICK f \in {"on_writable", "flush", "apply_interest"} : Doing(f)
    BY <1>1 DEF OnWritable, FlushError, FlushDone, FlushApplyInterest
  <2>2. todo # <<>> /\ b.alive /\ b \in BackendSet
    BY <2>1, Running DEF BackendFns
  <2>3. /\ c' = c /\ closing' = closing /\ phase' = phase /\ batch' = batch
        /\ "client" \in queued' => "client" \in queued
    BY <1>1 DEF OnWritable, FlushError, FlushDone, FlushApplyInterest, loopVars, ApplyInterest, Update
  <2>4. \/ b' = b \/ (\E h : b' = [b EXCEPT !.highWater = h])
        \/ b' = [b EXCEPT !.connected = TRUE, !.idle = FALSE]
        \/ \E y : b' = [b EXCEPT !.interest = y]
    BY <1>1, Zenon DEF OnWritable, FlushError, FlushDone, FlushApplyInterest, Applied
  <2>5. SameLinks
    BY <2>2, <2>3, <2>4 DEF SameLinks, BackendSet
  <2>6. \/ Return \/ Then(<<"fail">>) \/ Then(<<"flush">>) \/ Then(<<"apply_interest">>)
        \/ b.client /\ Then(<<"on_backend_drained", "apply_interest">>)
    BY <1>1, FlushCalls DEF OnWritable, FlushError, FlushApplyInterest
  <2>7. /\ May("fail") /\ May("flush") /\ May("apply_interest")
        /\ b.client => May("on_backend_drained")
    BY <2>2, Links DEF May, ClientFns, BackendFns
  <2>8. Steady
    BY <2>2, <2>6, <2>7, Names, SReturn, SThen1, SThen2
  <2>9. QED
    BY <2>1, <2>2, <2>3, <2>5, <2>8, CoreStep
<1>2. CASE FlushSome
  <2>1. Doing("flush") /\ todo' = todo /\ c' = c /\ closing' = closing /\ phase' = phase
          /\ batch' = batch /\ queued' = queued
    BY <1>2 DEF FlushSome, loopVars
  <2>2. todo # <<>> /\ b \in BackendSet /\ Types /\ Discipline
    BY <2>1, Running
  <2>3. \E m : b' = [b EXCEPT !.out = m, !.idle = FALSE]
    BY <1>2, Zenon DEF FlushSome
  <2>4. SameLinks
    BY <2>1, <2>2, <2>3 DEF SameLinks, BackendSet
  <2>5. Discipline' /\ LiveCalls
    BY <2>1, <2>2 DEF Discipline, LiveCalls
  <2>6. ~AtHead("process_head") /\ ~AtHead("on_backend_closed")
    BY <2>1 DEF Doing, AtHead
  <2>7. QED
    BY <2>1, <2>4, <2>5, <2>6, CoreQuiet DEF AtHead
<1>3. CASE OnBackendDrained \/ TimeoutBackend
  <2>1. PICK f \in {"on_backend_drained", "timeout_backend"} : Doing(f)
    BY <1>3 DEF OnBackendDrained, TimeoutBackend
  <2>2. todo # <<>> /\ c \in ClientSet /\ (f = "on_backend_drained" => c.alive)
    BY <2>1, Running DEF ClientFns
  <2>3. b' = b /\ closing' = closing /\ phase' = phase /\ batch' = batch /\ queued' = queued
    BY <1>3 DEF OnBackendDrained, TimeoutBackend, loopVars
  <2>4. SameLinks
    BY <1>3, <2>2, <2>3 DEF OnBackendDrained, TimeoutBackend, SameLinks, ClientSet
  <2>5. Return \/ (c.alive /\ Then(<<"drive">>)) \/ (b.alive /\ Then(<<"fail">>))
    BY <1>3, <2>1, <2>2 DEF OnBackendDrained, TimeoutBackend, Doing
  <2>6. Steady
    BY <2>2, <2>5, SReturn, SThen1 DEF May, ClientFns, BackendFns
  <2>7. QED
    BY <2>1, <2>3, <2>4, <2>6, CoreStep
<1>4. QED
  BY <1>1, <1>2, <1>3

\* Steps after which the two handlers no longer point at each other.
LEMMA CoreUnlinked ==
  ASSUME Core, Types', Discipline', Calm, todo # <<>>,
         \A f \in Calls(todo') : \/ f \in Calls(todo)
                                 \/ f \in ClientFns /\ c.alive
                                 \/ f \in BackendFns /\ b.alive,
         c'.alive = c.alive, b'.alive = b.alive, ~b'.client, ~c'.backend,
         c.closed => c'.closed, c'.closed => c.closed \/ "client" \in closing',
         c'.state = "ReadingHead" => c.state = "ReadingHead",
         closing \subseteq closing', "client" \in closing' => c'.closed,
         "backend" \in closing' => b.alive,
         phase' = phase, batch' = batch, queued' = queued
  PROVE  Core'
<1>1. LifeInv /\ PointerInv
  BY DEF Core
<1>2. \A f \in ClientFns : f \notin BackendFns
  BY DEF ClientFns, BackendFns
<1>3. \A f \in Calls(todo') : (f \in ClientFns => c.alive) /\ (f \in BackendFns => b.alive)
  BY <1>1, <1>2 DEF LifeInv
<1>4. LifeInv'
  BY <1>1, <1>3 DEF LifeInv
<1>5. PointerInv'
  BY <1>1 DEF PointerInv, PointersLive, Calm, AtHead
<1>6. QED
  BY <1>4, <1>5 DEF Core

\* A function of the client's that calls close_both and returns.
LEMMA CoreClose ==
  ASSUME Core, Types', NEW f, Doing(f), f # "on_backend_closed", c.alive,
         NEW cc \in ClientSet, cc.alive = c.alive, cc.closed = c.closed,
         cc.backend = c.backend, cc.state = c.state, CloseBoth(cc, b), Return,
         phase' = phase, batch' = batch, queued' = queued
  PROVE  Core'
<1>1. todo # <<>> /\ b \in BackendSet
  BY Running
<1>2. Steady
  BY <1>1, SReturn
<1>3. CASE c.closed
  <2>1. closing' = closing /\ SameLinks
    BY <1>3 DEF CloseBoth, SameLinks
  <2>2. QED
    BY <1>2, <2>1, CoreStep
<1>4. CASE ~c.closed
  <2>1. /\ c' = [cc EXCEPT !.closed = TRUE, !.backend = FALSE]
        /\ b' = IF c.backend THEN DetachClient(b) ELSE b
        /\ closing' = closing \cup {"client"} \cup (IF c.backend THEN {"backend"} ELSE {})
    BY <1>4 DEF CloseBoth
  <2>2. c'.closed /\ ~c'.backend /\ c'.alive = c.alive /\ c'.state = c.state
    BY <2>1 DEF ClientSet
  <2>3. b'.alive = b.alive /\ ~b'.client
    BY <1>1, <2>1, Links DEF DetachClient, BackendSet
  <2>4. /\ closing \subseteq closing' /\ "client" \in closing'
        /\ "backend" \in closing' => b.alive
    BY <2>1, Links DEF Core, LifeInv
  <2>5. \A x \in Calls(todo') : \/ x \in Calls(todo)
                                \/ x \in ClientFns /\ c.alive
                                \/ x \in BackendFns /\ b.alive
    BY <1>2 DEF Steady, LiveCalls
  <2>6. QED
    BY <1>1, <1>2, <2>2, <2>3, <2>4, <2>5, CoreUnlinked DEF Steady
<1>5. QED
  BY <1>3, <1>4

LEMMA CoreCloses ==
  ASSUME Core, Types',
         \/ Drive /\ CloseBoth(c, b) /\ Return /\ queued' = queued
         \/ PumpReadEof /\ c.state \notin {"Streaming", "Closing"}
         \/ PumpReadError \/ PumpWriteError \/ (PumpWriteEnd /\ c.state = "Closing")
         \/ OnErrorClient \/ TimeoutClient
  PROVE  Core'
<1>1. c \in ClientSet /\ b \in BackendSet
  BY DEF Core, Types
<1>2. CASE PumpWriteEnd /\ c.state = "Closing"
  <2> DEFINE cc == [c EXCEPT !.writeBlock = "ok"]
  <2>1. Doing("pump_write_end") /\ CloseBoth(cc, b) /\ Return
    BY <1>2 DEF PumpWriteEnd
  <2>2. c.alive
    BY <2>1, Running DEF ClientFns
  <2>3. /\ cc \in ClientSet /\ cc.alive = c.alive /\ cc.closed = c.closed
        /\ cc.backend = c.backend /\ cc.state = c.state
    BY <1>1 DEF ClientSet
  <2>4. phase' = phase /\ batch' = batch /\ queued' = queued
    BY <1>2 DEF PumpWriteEnd, loopVars
  <2> HIDE DEF cc
  <2>5. QED
    BY <2>1, <2>2, <2>3, <2>4, CoreClose
<1>3. CASE TimeoutClient /\ ~(c.alive /\ c.idle)
  <2>1. Doing("timeout_client") /\ Return /\ c' = c /\ b' = b /\ closing' = closing
          /\ phase' = phase /\ batch' = batch /\ queued' = queued
    BY <1>3 DEF TimeoutClient, loopVars
  <2>2. Steady
    BY <2>1, Running, SReturn
  <2>3. QED
    BY <2>1, <2>2, CoreStep DEF SameLinks
<1>4. CASE \/ Drive /\ CloseBoth(c, b) /\ Return /\ queued' = queued
           \/ PumpReadEof /\ c.state \notin {"Streaming", "Closing"}
           \/ PumpReadError \/ PumpWriteError \/ OnErrorClient
           \/ TimeoutClient /\ c.alive /\ c.idle
  <2>1. /\ CloseBoth(c, b) /\ Return
        /\ phase' = phase /\ batch' = batch /\ queued' = queued
    BY <1>4 DEF Drive, PumpReadEof, PumpReadError, PumpWriteError, OnErrorClient, TimeoutClient, loopVars
  <2>2. PICK f \in {"drive", "pump_read", "pump_write", "on_error_client", "timeout_client"} :
          Doing(f) /\ (f = "timeout_client" => c.alive)
    BY <1>4 DEF Drive, PumpReadEof, PumpReadError, PumpWriteError, OnErrorClient, TimeoutClient, Receiving
  <2>3. c.alive
    BY <2>2, Running DEF ClientFns
  <2>4. QED
    BY <1>1, <2>1, <2>2, <2>3, CoreClose
<1>5. QED
  BY <1>2, <1>3, <1>4

\* The end of a backend.
LEMMA CoreEnd ==
  ASSUME Core, Types', BackendReadEof \/ OnBackendClosed \/ Fail \/ RequestClose
  PROVE  Core'
<1>1. PICK f \in {"on_readable", "on_backend_closed", "fail", "request_close"} :
        /\ Doing(f)
        /\ BackendReadEof => f = "on_readable"
        /\ OnBackendClosed => f = "on_backend_closed"
        /\ Fail => f = "fail"
        /\ RequestClose => f = "request_close"
  <2>1. CASE BackendReadEof
    BY <2>1 DEF BackendReadEof, OnBackendClosed, Fail, RequestClose, Doing
  <2>2. CASE OnBackendClosed
    BY <2>2 DEF BackendReadEof, OnBackendClosed, Fail, RequestClose, Doing
  <2>3. CASE Fail
    BY <2>3 DEF BackendReadEof, OnBackendClosed, Fail, RequestClose, Doing
  <2>4. CASE RequestClose
    BY <2>4 DEF BackendReadEof, OnBackendClosed, Fail, RequestClose, Doing
  <2>5. QED
    BY <2>1, <2>2, <2>3, <2>4
<1>2. /\ todo # <<>> /\ Types /\ Discipline /\ AtHead(f) /\ c \in ClientSet /\ b \in BackendSet
      /\ f = "on_backend_closed" => c.alive
      /\ f # "on_backend_closed" => b.alive
  BY <1>1, Running DEF ClientFns, BackendFns
<1>3. LifeInv /\ PointerInv
  BY DEF Core
<1>4. /\ f # "on_backend_closed" /\ ~b.client => ~c.backend
      /\ f = "on_backend_closed" => c.backend /\ ~b.client /\ ~c.closed
  BY <1>2, <1>3 DEF PointerInv, PointersLive, AtHead
<1>5. phase' = phase /\ batch' = batch /\ queued' = queued
  BY DEF BackendReadEof, OnBackendClosed, Fail, RequestClose, loopVars
<1>6. CASE BackendReadEof /\ b.client
  <2>1. /\ b' = [b EXCEPT !.client = FALSE] /\ c' = c /\ closing' = closing
        /\ Then(<<"on_backend_closed", "request_close">>)
    BY <1>6 DEF BackendReadEof
  <2>2. /\ Discipline' /\ todo' # <<>> /\ Head(todo') = "on_backend_closed"
        /\ \A x \in Calls(todo') : x \in {"on_backend_closed", "request_close"} \/ x \in Calls(todo)
    BY <1>2, <2>1, DThen2 DEF Functions, HeadOnly
  <2>3. b'.alive = b.alive /\ ~b'.client
    BY <1>2, <2>1 DEF BackendSet
  <2>4. c.alive /\ c.backend /\ ~c.closed /\ b.alive
    BY <1>6, Links
  <2>5. LifeInv'
    <3>1. \A x \in Calls(todo') : (x \in ClientFns => c.alive) /\ (x \in BackendFns => b.alive)
      BY <2>4
    <3>2. phase # "wait" /\ "backend" \notin closing
      BY <1>2, <1>3, <1>6 DEF LifeInv
    <3>3. QED
      BY <1>3, <1>5, <2>1, <2>3, <3>1, <3>2 DEF LifeInv
  <2>6. PointerInv'
    BY <1>3, <2>1, <2>2, <2>3, <2>4 DEF PointerInv, PointersLive, AtHead
  <2>7. QED
    BY <2>2, <2>5, <2>6 DEF Core
<1>7. CASE BackendReadEof /\ ~b.client
  <2>1. /\ b' = [b EXCEPT !.client = FALSE] /\ c' = c /\ closing' = closing
        /\ Then(<<"request_close">>)
    BY <1>7 DEF BackendReadEof
  <2>2. /\ Discipline' /\ Calm
        /\ \A x \in Calls(todo') : x = "request_close" \/ x \in Calls(todo)
    BY <1>2, <2>1, DThen1 DEF Functions, Calm
  <2>3. b'.alive = b.alive /\ ~b'.client /\ ~c'.backend /\ b.alive
    <3>1. f = "on_readable"
      BY <1>1, <1>7
    <3>2. b'.alive = b.alive /\ ~b'.client
      BY <1>2, <2>1 DEF BackendSet
    <3>3. QED
      BY <1>2, <1>4, <1>7, <2>1, <3>1, <3>2
  <2>4. QED
    BY <1>2, <1>3, <1>5, <2>1, <2>2, <2>3, CoreUnlinked DEF BackendFns, LifeInv
<1>8. CASE OnBackendClosed
  <2>1. /\ c' = [c EXCEPT !.backend = FALSE, !.state = "Closing"] /\ b' = b /\ closing' = closing
        /\ Then(<<"pump_write", "recompute_interest">>) /\ f = "on_backend_closed"
    BY <1>1, <1>8 DEF OnBackendClosed
  <2>2. /\ Discipline' /\ Calm
        /\ \A x \in Calls(todo') : x \in {"pump_write", "recompute_interest"} \/ x \in Calls(todo)
    BY <1>2, <2>1, DThen2 DEF Functions, HeadOnly, Calm
  <2>3. c'.alive = c.alive /\ c'.closed = c.closed /\ ~c'.backend /\ c'.state = "Closing"
    BY <1>2, <2>1 DEF ClientSet
  <2>4. QED
    BY <1>2, <1>3, <1>4, <1>5, <2>1, <2>2, <2>3, CoreUnlinked DEF ClientFns, LifeInv
<1>9. CASE RequestClose
  <2>1. /\ closing' = closing \cup {"backend"} /\ Return /\ c' = c /\ b' = b /\ f = "request_close"
    BY <1>1, <1>9 DEF RequestClose
  <2>2. "request_close" \in Calls(todo)
    BY <1>2, <2>1, Stack DEF AtHead, Types
  <2>3. ~b.client
    BY <1>3, <2>2 DEF LifeInv
  <2>4. Steady
    BY <1>2, <2>1, SReturn
  <2>5. \A x \in Calls(todo') : \/ x \in Calls(todo)
                                \/ x \in ClientFns /\ c.alive
                                \/ x \in BackendFns /\ b.alive
    BY <2>4 DEF Steady, LiveCalls
  <2>6. QED
    BY <1>2, <1>3, <1>4, <1>5, <2>1, <2>3, <2>4, <2>5, CoreUnlinked DEF Steady, LifeInv
<1>10. CASE Fail
  <2>1. f = "fail" /\ b.alive
    BY <1>1, <1>2, <1>10
  <2>2. CASE ~b.client
    <3>1. c' = c /\ b' = b /\ closing' = closing /\ Then(<<"request_close">>)
      BY <1>10, <2>2 DEF Fail
    <3>2. /\ Discipline' /\ Calm
          /\ \A x \in Calls(todo') : x = "request_close" \/ x \in Calls(todo)
      BY <1>2, <3>1, DThen1 DEF Functions, Calm
    <3>3. QED
      BY <1>2, <1>3, <1>4, <1>5, <2>1, <2>2, <3>1, <3>2, CoreUnlinked DEF BackendFns, LifeInv
  <2>3. CASE b.client
    <3> DEFINE cc == [c EXCEPT !.backend = FALSE]
    <3>1. /\ cc.alive = c.alive /\ cc.closed = c.closed /\ ~cc.backend /\ cc.state = c.state
          /\ cc \in ClientSet
      BY <1>2 DEF ClientSet
    <3>2. DetachClient(b).alive = b.alive /\ ~DetachClient(b).client
      BY <1>2 DEF BackendSet, DetachClient
    <3>3. c.alive /\ ~c.closed
      BY <2>3, Links
    <3>4. /\ b' = DetachClient(b)
          /\ \/ c' = cc /\ closing' = closing /\ Then(<<"send_response", "request_close">>)
             \/ /\ c' = [cc EXCEPT !.closed = TRUE, !.backend = FALSE]
                /\ closing' = closing \cup {"client"} /\ Then(<<"request_close">>)
      BY <1>10, <2>3, <3>1, <3>3 DEF Fail, OnBackendError, CloseBoth
    <3>5. /\ c'.alive = c.alive /\ ~c'.backend /\ c'.state = c.state
          /\ c'.closed => "client" \in closing'
          /\ closing' = closing \/ (closing' = closing \cup {"client"} /\ c'.closed)
      BY <3>1, <3>3, <3>4 DEF ClientSet
    <3> HIDE DEF cc
    <3>6. /\ Discipline' /\ Calm
          /\ \A x \in Calls(todo') : x \in {"send_response", "request_close"} \/ x \in Calls(todo)
      BY <1>2, <3>4, DThen1, DThen2 DEF Functions, Calm, HeadOnly
    <3>7. "backend" \in closing' => b.alive
      BY <2>1
    <3>8. closing \subseteq closing' /\ ("client" \in closing' => c'.closed)
      BY <1>3, <3>3, <3>5 DEF LifeInv
    <3>9. QED
      BY <1>2, <1>5, <2>1, <3>2, <3>3, <3>4, <3>5, <3>6, <3>7, <3>8, CoreUnlinked DEF BackendFns, ClientFns
  <2>4. QED
    BY <2>2, <2>3
<1>11. QED
  BY <1>6, <1>7, <1>8, <1>9, <1>10

\* The head of a request that is forwarded: the client gets a backend.
LEMMA CoreForward == ASSUME Core, Types', ProcessHeadForward PROVE Core'
<1>1. Doing("process_head") /\ closing' = closing /\ phase' = phase /\ batch' = batch
        /\ queued' = queued
  BY DEF ProcessHeadForward, loopVars
<1>2. todo # <<>> /\ c.alive /\ c \in ClientSet /\ Types /\ Discipline /\ LifeInv /\ PointerInv
  BY <1>1, Running DEF ClientFns, Core
<1>3. /\ c.state = "ReadingHead" /\ ~c.closed /\ ~b.alive
  BY <1>1, <1>2 DEF PointerInv, Doing, AtHead
<1>4. PICK length \in 0..MaxContent, added \in BOOLEAN :
        LET bb == IF added THEN Queued(BackendConnection, 1) ELSE NoBackend
            cc == [c EXCEPT !.in = 0, !.bodyLeft = length, !.backend = added,
                            !.state = IF length = 0 THEN "Streaming" ELSE "StreamingUp"]
        IN IF length > 0 /\ c.in > HeadLen
           THEN ForwardBody(cc, bb, c.in - HeadLen, <<>>)
           ELSE c' = cc /\ b' = bb /\ Return
  BY DEF ProcessHeadForward
<1> DEFINE bb == IF added THEN Queued(BackendConnection, 1) ELSE NoBackend
           st == IF length = 0 THEN "Streaming" ELSE "StreamingUp"
           cc == [c EXCEPT !.in = 0, !.bodyLeft = length, !.backend = added, !.state = st]
<1>5. /\ cc.alive = c.alive /\ cc.closed = c.closed /\ cc.backend = added
      /\ cc.state # "ReadingHead"
      /\ \A m : /\ [cc EXCEPT !.bodyLeft = m].alive = c.alive
                /\ [cc EXCEPT !.bodyLeft = m].closed = c.closed
                /\ [cc EXCEPT !.bodyLeft = m].backend = added
                /\ [cc EXCEPT !.bodyLeft = m].state # "ReadingHead"
  BY <1>2 DEF ClientSet
<1>6. /\ bb.alive = added /\ bb.client = added /\ bb.connected = FALSE
      /\ \A m, h : /\ [bb EXCEPT !.out = m, !.highWater = h].alive = added
                   /\ [bb EXCEPT !.out = m, !.highWater = h].client = added
  <2>1. CASE added
    BY <2>1 DEF Queued, BackendConnection, NoBackend
  <2>2. CASE ~added
    BY <2>2 DEF NoBackend
  <2>3. QED
    BY <2>1, <2>2
<1>7. \/ c' = cc /\ b' = bb /\ Return
      \/ ForwardBody(cc, bb, c.in - HeadLen, <<>>)
  BY <1>4, Zenon
<1> HIDE DEF bb, cc
<1>8. /\ c'.alive = c.alive /\ c'.closed = c.closed /\ c'.backend = added
      /\ c'.state # "ReadingHead" /\ b'.alive = added /\ b'.client = added
  <2>1. c' = cc \/ \E m : c' = [cc EXCEPT !.bodyLeft = m]
    BY <1>7, Zenon DEF ForwardBody
  <2>2. b' = bb \/ \E m, h : b' = [bb EXCEPT !.out = m, !.highWater = h]
    BY <1>7, Zenon DEF ForwardBody, Queued
  <2>3. /\ c'.alive = c.alive /\ c'.closed = c.closed /\ c'.backend = added
        /\ c'.state # "ReadingHead"
    BY <1>5, <2>1, Zenon
  <2>4. b'.alive = added /\ b'.client = added
    BY <1>6, <2>2, Zenon
  <2>5. QED
    BY <2>3, <2>4
<1>9. Return \/ Then(<<"forward_body_rest">>)
  <2>1. CASE ForwardBody(cc, bb, c.in - HeadLen, <<>>) /\ added
    BY <1>5, <1>6, <2>1, ForwardCallsHead
  <2>2. CASE ForwardBody(cc, bb, c.in - HeadLen, <<>>) /\ ~added
    <3>1. Then(<<>>)
      BY <1>5, <2>2 DEF ForwardBody
    <3>2. Tail(todo) \in Seq(Functions)
      BY <1>2, Stack DEF Types
    <3>3. <<>> \o Tail(todo) = Tail(todo)
      BY <3>2, ConcatEmptySeq
    <3>4. QED
      BY <3>1, <3>3 DEF Then, Return
  <2>3. QED
    BY <1>7, <2>1, <2>2
<1>10. Steady
  BY <1>2, <1>9, SReturn, SThen1 DEF May, ClientFns
<1>11. \A f \in Calls(todo') : f \notin BackendFns
  <2>1. \A f \in Calls(todo) : f \notin BackendFns
    BY <1>2, <1>3 DEF LifeInv
  <2>2. \A f \in ClientFns : f \notin BackendFns
    BY DEF ClientFns, BackendFns
  <2>3. QED
    BY <1>3, <1>10, <2>1, <2>2 DEF Steady, LiveCalls
<1>12. LifeInv'
  BY <1>1, <1>2, <1>3, <1>8, <1>11 DEF LifeInv, BackendFns
<1>13. PointerInv'
  BY <1>2, <1>3, <1>8, <1>10 DEF PointerInv, PointersLive, Steady, Calm, AtHead
<1>14. QED
  BY <1>10, <1>12, <1>13 DEF Core, Steady

\* What an event of the batch makes the loop call.
LEMMA DispatchCalls ==
  ASSUME Dispatch
  PROVE  /\ phase = "run" /\ batch' \subseteq batch
         /\ \E e \in batch :
              /\ batch' = batch \ {e}
              /\ \/ e.fd = "timer" /\ todo' \in SweepTimeouts
                 \/ e.fd = "client" /\ "err" \in e.ev /\ todo' = <<"on_error_client">>
                 \/ e.fd = "client" /\ todo' \in {<<"drive", "drive">>, <<"drive">>}
                 \/ /\ e.fd = "backend"
                    /\ \/ "err" \in e.ev /\ todo' = <<"fail">>
                       \/ "in" \in e.ev /\ "out" \notin e.ev /\ todo' = <<"on_readable">>
                       \/ "out" \in e.ev /\ "in" \notin e.ev /\ todo' = <<"on_writable">>
                       \/ "in" \in e.ev /\ "out" \in e.ev /\ todo' = <<"on_readable", "on_writable">>
                       \/ "in" \notin e.ev /\ "out" \notin e.ev /\ todo' = <<>>
              /\ \A x \in Calls(todo') :
                   \/ x \in {"timeout_client", "timeout_backend"}
                   \/ e.fd = "client" /\ x \in {"on_error_client", "drive"}
                   \/ e.fd = "backend" /\ x \in {"fail", "on_readable", "on_writable"}
         /\ \A x \in Deeper(todo') : x \in {"timeout_client", "timeout_backend", "drive", "on_writable"}
         /\ todo' # <<>> => Head(todo') \in {"timeout_client", "timeout_backend", "on_error_client",
                                            "drive", "fail", "on_readable", "on_writable"}
<1>1. phase = "run"
  BY DEF Dispatch
<1>2. PICK e \in batch :
        /\ batch' = batch \ {e}
        /\ \/ e.fd = "timer" /\ todo' \in SweepTimeouts
           \/ e.fd = "client" /\ "err" \in e.ev /\ todo' = <<"on_error_client">>
           \/ e.fd = "client" /\ todo' = IF e.ev = {"in", "out"} THEN <<"drive", "drive">> ELSE <<"drive">>
           \/ e.fd = "backend" /\ "err" \in e.ev /\ todo' = <<"fail">>
           \/ /\ e.fd = "backend"
              /\ todo' = (IF "in" \in e.ev THEN <<"on_readable">> ELSE <<>>)
                           \o (IF "out" \in e.ev THEN <<"on_writable">> ELSE <<>>)
  BY Zenon DEF Dispatch
<1>3. "on_readable" \in Functions /\ "on_writable" \in Functions
  BY DEF Functions
<1>4. /\ <<"on_readable">> \o <<"on_writable">> = <<"on_readable", "on_writable">>
      /\ <<>> \o <<"on_writable">> = <<"on_writable">>
  BY <1>3, TwoCalls
<1>5. <<"on_readable">> \o <<>> = <<"on_readable">> /\ <<>> \o <<>> = <<>>
  BY <1>3, ConcatEmptySeq
<1>6. \/ e.fd = "timer" /\ todo' \in SweepTimeouts
      \/ e.fd = "client" /\ "err" \in e.ev /\ todo' = <<"on_error_client">>
      \/ e.fd = "client" /\ todo' \in {<<"drive", "drive">>, <<"drive">>}
      \/ /\ e.fd = "backend"
         /\ \/ "err" \in e.ev /\ todo' = <<"fail">>
            \/ "in" \in e.ev /\ "out" \notin e.ev /\ todo' = <<"on_readable">>
            \/ "out" \in e.ev /\ "in" \notin e.ev /\ todo' = <<"on_writable">>
            \/ "in" \in e.ev /\ "out" \in e.ev /\ todo' = <<"on_readable", "on_writable">>
            \/ "in" \notin e.ev /\ "out" \notin e.ev /\ todo' = <<>>
  BY <1>2, <1>4, <1>5, Zenon
<1>7. /\ \A x, y : Calls(<<x, y>>) = {x, y} /\ Deeper(<<x, y>>) = {y} /\ Head(<<x, y>>) = x
      /\ \A x : Calls(<<x>>) = {x} /\ Deeper(<<x>>) = {} /\ Head(<<x>>) = x
      /\ Calls(<<>>) = {} /\ Deeper(<<>>) = {}
  BY DEF Calls, Deeper
<1>8. /\ \A x \in Calls(todo') :
            \/ x \in {"timeout_client", "timeout_backend"}
            \/ e.fd = "client" /\ x \in {"on_error_client", "drive"}
            \/ e.fd = "backend" /\ x \in {"fail", "on_readable", "on_writable"}
      /\ \A x \in Deeper(todo') : x \in {"timeout_client", "timeout_backend", "drive", "on_writable"}
      /\ todo' # <<>> => Head(todo') \in {"timeout_client", "timeout_backend", "on_error_client",
                                         "drive", "fail", "on_readable", "on_writable"}
  <2>1. CASE todo' \in SweepTimeouts
    BY <1>7, <2>1 DEF SweepTimeouts
  <2>2. CASE e.fd = "client" /\ todo' \in {<<"on_error_client">>, <<"drive", "drive">>, <<"drive">>}
    BY <1>7, <2>2
  <2>3. CASE e.fd = "backend" /\ todo' \in {<<"fail">>, <<"on_readable">>, <<"on_writable">>,
                                            <<"on_readable", "on_writable">>, <<>>}
    BY <1>7, <2>3
  <2>4. QED
    BY <1>6, <2>1, <2>2, <2>3
<1>9. QED
  BY <1>1, <1>2, <1>6, <1>8

\* EventLoop::run: a batch is taken, dispatched and followed by the closes.
LEMMA CoreLoop ==
  ASSUME Core, Types', EpollWait \/ Dispatch \/ ProcessPendingClose
  PROVE  Core'
<1>1. LifeInv /\ PointerInv /\ Types /\ todo = <<>>
  BY DEF Core, EpollWait, Idle, Dispatch, ProcessPendingClose
<1>2. CASE EpollWait
  <2>1. /\ c' = c /\ b' = b /\ todo' = <<>> /\ closing' = closing /\ queued' = {} /\ phase' = "run"
        /\ \A e \in batch' : e.fd \in queued \/ e.fd = "timer"
    BY <1>1, <1>2 DEF EpollWait
  <2>2. LifeInv'
    <3>1. \A e \in batch' : (e.fd = "client" => c.alive) /\ (e.fd = "backend" => b.alive)
      BY <1>1, <2>1 DEF LifeInv
    <3>2. Calls(todo') = {}
      BY <2>1 DEF Calls
    <3>3. QED
      BY <1>1, <2>1, <3>1, <3>2 DEF LifeInv
  <2>3. PointerInv'
    BY <1>1, <2>1 DEF PointerInv, PointersLive, AtHead
  <2>4. Discipline'
    BY <2>1 DEF Discipline, Deeper
  <2>5. QED
    BY <2>2, <2>3, <2>4 DEF Core
<1>3. CASE Dispatch
  <2>1. /\ c' = c /\ b' = b /\ closing' = closing /\ queued' = queued /\ phase' = phase /\ phase = "run"
        /\ batch' \subseteq batch
    BY <1>3 DEF Dispatch
  <2>2. PICK e \in batch :
          \A x \in Calls(todo') : \/ x \in {"timeout_client", "timeout_backend"}
                                  \/ e.fd = "client" /\ x \in {"on_error_client", "drive"}
                                  \/ e.fd = "backend" /\ x \in {"fail", "on_readable", "on_writable"}
    BY <1>3, DispatchCalls
  <2>8. /\ \A x \in Deeper(todo') : x \in {"timeout_client", "timeout_backend", "drive", "on_writable"}
        /\ todo' # <<>> => Head(todo') \in {"timeout_client", "timeout_backend", "on_error_client",
                                           "drive", "fail", "on_readable", "on_writable"}
    BY <1>3, DispatchCalls
  <2>9. (e.fd = "client" => c.alive) /\ (e.fd = "backend" => b.alive)
    BY <1>1, <2>2 DEF LifeInv
  <2>10. \A x \in Calls(todo') : /\ x \in ClientFns => c.alive
                                 /\ x \in BackendFns => b.alive
                                 /\ x # "request_close"
    BY <2>2, <2>9 DEF ClientFns, BackendFns
  <2>11. LifeInv'
    BY <1>1, <2>1, <2>10 DEF LifeInv
  <2>12. PointerInv'
    BY <1>1, <2>1, <2>8 DEF PointerInv, PointersLive, AtHead
  <2>13. Discipline'
    BY <2>8 DEF Discipline, HeadOnly
  <2>14. QED
    BY <2>11, <2>12, <2>13 DEF Core
<1>4. CASE ProcessPendingClose
  <2>1. /\ todo' = <<>> /\ batch' = {} /\ closing' = {} /\ phase' = "wait"
        /\ queued' = queued \ closing
    BY <1>1, <1>4 DEF ProcessPendingClose
  <2>2. PICK x \in BOOLEAN, y \in BOOLEAN :
          /\ x = (c.alive /\ "client" \notin closing)
          /\ y = (c.backend /\ ~("backend" \in closing /\ b.client))
          /\ c' = [c EXCEPT !.alive = x, !.backend = y]
    <3>1. /\ (c.alive /\ "client" \notin closing) \in BOOLEAN
          /\ (c.backend /\ ~("backend" \in closing /\ b.client)) \in BOOLEAN
      OBVIOUS
    <3>2. QED
      BY <1>4, <3>1, Zenon DEF ProcessPendingClose
  <2>3. c'.alive = x /\ c'.backend = y /\ c'.closed = c.closed /\ c'.state = c.state
    BY <1>1, <2>2 DEF Types, ClientSet
  <2>4. PICK z \in BOOLEAN :
          /\ z = (b.client /\ ~("client" \in closing /\ c.backend))
          /\ b' = IF "backend" \in closing THEN NoBackend ELSE [b EXCEPT !.client = z]
    <3>1. (b.client /\ ~("client" \in closing /\ c.backend)) \in BOOLEAN
      OBVIOUS
    <3>2. QED
      BY <1>4, <3>1, Zenon DEF ProcessPendingClose
  <2>5. /\ "backend" \in closing => ~b'.alive /\ ~b'.client
        /\ "backend" \notin closing => b'.alive = b.alive /\ b'.client = z
    BY <1>1, <2>4 DEF Types, BackendSet, NoBackend
  <2>6. c.backend => b.client
    BY <1>1 DEF PointerInv, PointersLive
  <2>7. LifeInv'
    <3>1. Calls(todo') = {}
      BY <2>1 DEF Calls
    <3>2. ~(c'.closed /\ c'.alive)
      BY <1>1, <2>2, <2>3 DEF LifeInv
    <3>3. ~c'.alive => c.closed
      BY <1>1, <2>2, <2>3 DEF LifeInv
    <3>4. ("client" \in queued' => c'.alive) /\ ("backend" \in queued' => b'.alive)
      BY <1>1, <2>1, <2>2, <2>3, <2>5 DEF LifeInv
    <3>5. QED
      BY <1>1, <2>1, <2>3, <3>1, <3>2, <3>3, <3>4 DEF LifeInv
  <2>8. PointerInv'
    <3>1. PointersLive /\ LifeInv
      BY <1>1 DEF PointerInv
    <3>2. b'.client => b.client /\ "client" \notin closing /\ "backend" \notin closing
      BY <1>1, <2>2, <2>4, <2>5, <3>1 DEF PointersLive, LifeInv
    <3>3. c'.backend => c.backend /\ "backend" \notin closing
      BY <2>2, <2>3, <2>6, <3>1 DEF LifeInv
    <3>4. c'.backend => b'.client /\ b'.alive
      BY <1>1, <2>2, <2>3, <2>4, <2>5, <2>6, <3>1, <3>3 DEF PointersLive, LifeInv, PointerInv
    <3>5. b'.client => b'.alive /\ c'.alive /\ c'.backend /\ ~c'.closed
      BY <2>2, <2>3, <2>4, <2>5, <3>1, <3>2 DEF PointersLive, LifeInv
    <3>6. c'.state = "ReadingHead" => ~b'.alive
      BY <1>1, <2>3, <2>5 DEF PointerInv
    <3>7. QED
      BY <1>1, <2>1, <2>3, <3>3, <3>4, <3>5, <3>6 DEF PointerInv, PointersLive, AtHead
  <2>9. Discipline'
    BY <2>1 DEF Discipline, Deeper
  <2>10. QED
    BY <2>7, <2>8, <2>9 DEF Core
<1>5. QED
  BY <1>2, <1>3, <1>4

\* The peers, the kernel and the clock move nothing but the sockets and idle.
LEMMA CoreEnv == ASSUME Core, Types', Env \/ TimePasses PROVE Core'
<1>1. /\ todo' = todo /\ closing' = closing /\ phase' = phase /\ batch' = batch
  BY DEF Env, TimePasses, PeerSends, PeerCloses, PeerReads, PeerResets, BackendAccepts,
         BackendRefuses, loopVars
<1>2. Discipline' /\ LiveCalls
  BY <1>1 DEF Core, Discipline, LiveCalls
<1>3. /\ "client" \in queued' => "client" \in queued \/ c.alive
      /\ "backend" \in queued' => "backend" \in queued \/ b.alive
  <2>1. ASSUME NEW fd \in Fds, Open(fd), queued' \subseteq queued \cup {fd}
        PROVE  /\ "client" \in queued' => "client" \in queued \/ c.alive
               /\ "backend" \in queued' => "backend" \in queued \/ b.alive
    BY <2>1 DEF Open, Fds
  <2>2. ASSUME NEW fd \in Fds, PeerSends(fd) \/ PeerCloses(fd) \/ PeerReads(fd) \/ PeerResets(fd)
        PROVE  Open(fd) /\ queued' \subseteq queued \cup {fd}
    BY <2>2 DEF PeerSends, PeerCloses, PeerReads, PeerResets, Wake
  <2>3. CASE BackendAccepts \/ BackendRefuses
    BY <2>3 DEF BackendAccepts, BackendRefuses, Wake
  <2>4. CASE TimePasses
    BY <2>4 DEF TimePasses, loopVars
  <2>5. QED
    BY <2>1, <2>2, <2>3, <2>4 DEF Env
<1>4. SameLinks
  <2>1. CASE Env
    BY <2>1 DEF Env, PeerSends, PeerCloses, PeerReads, PeerResets, BackendAccepts,
                BackendRefuses, SameLinks
  <2>2. CASE TimePasses
    <3>1. \E x, y : c' = [c EXCEPT !.idle = x] /\ b' = [b EXCEPT !.idle = y]
      BY <2>2, Zenon DEF TimePasses
    <3>2. QED
      BY <3>1 DEF Core, Types, ClientSet, BackendSet, SameLinks
  <2>3. QED
    BY <2>1, <2>2
<1>5. todo' # <<>> /\ Head(todo') = "process_head" => c'.state = "ReadingHead" /\ ~c.closed
  <2>1. AtHead("process_head") => c.state = "ReadingHead" /\ ~c.closed
    BY DEF Core, PointerInv
  <2>2. c'.state = c.state
    <3>1. CASE Env
      BY <3>1 DEF Env, PeerSends, PeerCloses, PeerReads, PeerResets, BackendAccepts, BackendRefuses
    <3>2. CASE TimePasses
      <4>1. \E x : c' = [c EXCEPT !.idle = x]
        BY <3>2, Zenon DEF TimePasses
      <4>2. QED
        BY <4>1 DEF Core, Types, ClientSet
    <3>3. QED
      BY <3>1, <3>2
  <2>3. QED
    BY <1>1, <2>1, <2>2 DEF AtHead
<1>6. QED
  BY <1>1, <1>2, <1>3, <1>4, <1>5, CoreQuiet

\* Every step keeps the links.
LEMMA CoreNext == ASSUME Core, [Next]_vars PROVE Core'
<1>1. Types'
  BY TypesNext DEF Core
<1>2. CASE Drive
  <2>1. \/ UNCHANGED closing /\ c'.closed = c.closed
        \/ CloseBoth(c, b) /\ Return /\ queued' = queued
    <3>1. c \in ClientSet
      BY DEF Core, Types
    <3>2. QED
      BY <1>2, <3>1 DEF Drive, SetInterest, ClientSet
  <2>2. QED
    BY <1>1, <1>2, <2>1, CoreDrive, CoreCloses
<1>3. CASE DriveWrite \/ RecomputeInterest
  BY <1>3, CoreDrive
<1>4. CASE PumpReadStop \/ PumpReadBlock \/ PumpReadEof \/ PumpReadError \/ PumpReadData
  BY <1>1, <1>4, CoreRead, CoreCloses
<1>5. CASE \/ ProcessHeadIncomplete \/ ProcessHeadReject \/ HandleInternal \/ StartBackendFails
           \/ ProcessHeadForward \/ ForwardBodyRest
           \/ SendResponse("send_response", ReplyLen) \/ SendResponse("send_head", 1)
  <2>1. ReplyLen \in Nat /\ 1 \in Nat
    BY Sizes
  <2>2. QED
    BY <1>1, <1>5, <2>1, CoreRequest, CoreForward
<1>6. CASE PumpWriteSome \/ PumpWriteBlock \/ PumpWriteError \/ PumpWriteDrained \/ PumpWriteEnd
  BY <1>1, <1>6, CoreWrite, CoreCloses
<1>7. CASE ResumeReads \/ BackendReadData \/ DeliverRest \/ BackendReadStop \/ BackendReadError
  BY <1>1, <1>7, CoreBackendRead
<1>8. CASE BackendReadEof \/ OnBackendClosed \/ Fail \/ RequestClose
  BY <1>1, <1>8, CoreEnd
<1>9. CASE \/ OnWritable \/ FlushSome \/ FlushError \/ FlushDone \/ FlushApplyInterest
           \/ OnBackendDrained \/ TimeoutBackend
  BY <1>1, <1>9, CoreFlush
<1>10. CASE EpollWait \/ Dispatch \/ ProcessPendingClose
  BY <1>1, <1>10, CoreLoop
<1>11. CASE OnErrorClient \/ TimeoutClient
  BY <1>1, <1>11, CoreCloses
<1>12. CASE Env \/ TimePasses
  BY <1>1, <1>12, CoreEnv
<1>13. CASE Finished \/ UNCHANGED vars
  <2>1. /\ c' = c /\ b' = b /\ todo' = todo /\ phase' = phase /\ batch' = batch
        /\ queued' = queued /\ closing' = closing
    BY <1>13 DEF Finished, vars, envVars, loopVars
  <2>2. QED
    BY <1>1, <2>1 DEF Core, Discipline, LifeInv, PointerInv, PointersLive, AtHead
<1>14. QED
  BY <1>2, <1>3, <1>4, <1>5, <1>6, <1>7, <1>8, <1>9, <1>10, <1>11, <1>12, <1>13
     DEF Next, LoopStep

LEMMA CoreInvariant == Spec => []Core
  BY CoreInit, CoreNext, PTL DEF Spec

(* The raw pointers of the pair never dangle: whichever of the two is      *)
(* destroyed first, by an error, a timeout or the end of the request, its  *)
(* peer has let go of it, in the middle of whatever call that happens.     *)
THEOREM PointersNeverDangle == Spec => []PointersLive
<1>1. Core => PointersLive
  BY DEF Core, PointerInv
<1>2. QED
  BY <1>1, CoreInvariant, PTL

-----------------------------------------------------------------------------
(* One response.                                                           *)

(* A client that has been answered by castle has no backend, and one that  *)
(* is about to be has been sent nothing by a backend.                      *)
ResponseInv ==
  /\ c.relayed => c.responded
  /\ c.replied => ~c.backend /\ ~c.relayed
  /\ AtHead("send_response") \/ AtHead("send_head") => ~c.backend /\ ~c.relayed
  /\ c.state = "ReadingHead" => ~c.relayed /\ ~c.replied

LEMMA ResponseInit == Init => ResponseInv
  BY DEF Init, HttpConnection, ResponseInv, AtHead

\* What a step does to the answer, but for the steps that give one.
SameAnswer ==
  /\ c'.relayed = c.relayed /\ c'.replied = c.replied /\ c'.responded = c.responded
  /\ c'.backend => c.backend
  /\ c'.state = "ReadingHead" => c.state = "ReadingHead"

NoReplyNext == ~(todo' # <<>> /\ Head(todo') \in {"send_response", "send_head"})

LEMMA ResponseKept ==
  ASSUME ResponseInv, SameAnswer, todo' = todo \/ NoReplyNext
  PROVE  ResponseInv'
  BY DEF ResponseInv, SameAnswer, NoReplyNext, AtHead

\* close_both leaves everything alone but closed_ and the pointers.
LEMMA CloseFields ==
  ASSUME NEW cc \in ClientSet, NEW bb \in BackendSet, CloseBoth(cc, bb)
  PROVE  /\ c'.alive = cc.alive /\ c'.state = cc.state /\ c'.in = cc.in /\ c'.out = cc.out
         /\ c'.bodyLeft = cc.bodyLeft /\ (c'.backend => cc.backend /\ cc.closed) /\ c'.closed
         /\ c'.responded = cc.responded /\ c'.relayed = cc.relayed /\ c'.replied = cc.replied
         /\ c'.handshake = cc.handshake /\ c'.eof = cc.eof /\ c'.readPaused = cc.readPaused
         /\ c'.backendPaused = cc.backendPaused /\ c'.interest = cc.interest
         /\ c'.readBlock = cc.readBlock /\ c'.writeBlock = cc.writeBlock
         /\ b'.alive = bb.alive /\ (b'.client => bb.client) /\ b'.out = bb.out
         /\ b'.connected = bb.connected /\ b'.readPaused = bb.readPaused
         /\ b'.highWater = bb.highWater /\ b'.interest = bb.interest
         /\ cc.backend /\ ~cc.closed => ~b'.client
<1>1. CASE cc.closed
  BY <1>1 DEF CloseBoth
<1>2. CASE ~cc.closed
  <2>1. c' = [cc EXCEPT !.closed = TRUE, !.backend = FALSE]
    BY <1>2 DEF CloseBoth
  <2>2. b' = bb \/ b' = [bb EXCEPT !.client = FALSE]
    BY <1>2 DEF CloseBoth, DetachClient
  <2>3. cc.backend => b' = [bb EXCEPT !.client = FALSE]
    BY <1>2 DEF CloseBoth, DetachClient
  <2>4. /\ c'.alive = cc.alive /\ c'.state = cc.state /\ c'.in = cc.in /\ c'.out = cc.out
        /\ c'.bodyLeft = cc.bodyLeft /\ ~c'.backend /\ c'.closed
        /\ c'.responded = cc.responded /\ c'.relayed = cc.relayed /\ c'.replied = cc.replied
        /\ c'.handshake = cc.handshake /\ c'.eof = cc.eof /\ c'.readPaused = cc.readPaused
        /\ c'.backendPaused = cc.backendPaused /\ c'.interest = cc.interest
        /\ c'.readBlock = cc.readBlock /\ c'.writeBlock = cc.writeBlock
    BY <2>1 DEF ClientSet
  <2>5. /\ b'.alive = bb.alive /\ (b'.client => bb.client) /\ b'.out = bb.out
        /\ b'.connected = bb.connected /\ b'.readPaused = bb.readPaused
        /\ b'.highWater = bb.highWater /\ b'.interest = bb.interest
    BY <2>2 DEF BackendSet
  <2>6. cc.backend => ~b'.client
    BY <2>3 DEF BackendSet
  <2>7. QED
    BY <2>4, <2>5, <2>6
<1>3. QED
  BY <1>1, <1>2

LEMMA AnswerClient ==
  ASSUME Core, \/ Drive \/ DriveWrite \/ RecomputeInterest \/ PumpReadStop \/ PumpReadBlock
               \/ PumpReadEof \/ PumpReadError \/ PumpReadData \/ ForwardBodyRest
               \/ ProcessHeadIncomplete \/ PumpWriteSome \/ PumpWriteBlock \/ PumpWriteError
               \/ PumpWriteDrained \/ PumpWriteEnd \/ OnErrorClient \/ TimeoutClient
  PROVE  SameAnswer /\ (todo' = todo \/ NoReplyNext)
<1>1. c \in ClientSet /\ b \in BackendSet /\ Types /\ Discipline
  BY DEF Core, Types
<1>2. \A f \in {"send_response", "send_head"} : f \in HeadOnly
  BY DEF HeadOnly
<1>3. ASSUME CloseBoth(c, b) PROVE SameAnswer
  BY <1>1, <1>3, CloseFields DEF SameAnswer
<1>4. ASSUME todo # <<>>, Return PROVE NoReplyNext
  BY <1>1, <1>2, <1>4, DReturn DEF NoReplyNext
<1>5. CASE Drive
  <2>1. SameAnswer
    BY <1>1, <1>3, <1>5 DEF Drive, SetInterest, SameAnswer, ClientSet
  <2>2. NoReplyNext
    BY <1>1, <1>4, <1>5, DThen2 DEF Drive, Doing, Functions, HeadOnly, NoReplyNext
  <2>3. QED
    BY <2>1, <2>2
<1>6. CASE DriveWrite \/ RecomputeInterest
  <2>1. SameAnswer
    BY <1>1, <1>6 DEF DriveWrite, RecomputeInterest, SetInterest, SameAnswer, ClientSet
  <2>2. NoReplyNext
    BY <1>1, <1>4, <1>6, DThen2 DEF DriveWrite, RecomputeInterest, Doing, Functions, HeadOnly, NoReplyNext
  <2>3. QED
    BY <2>1, <2>2
<1>7. CASE \/ PumpReadStop \/ PumpReadBlock \/ PumpReadEof \/ PumpReadError \/ ForwardBodyRest
           \/ ProcessHeadIncomplete \/ PumpWriteBlock \/ PumpWriteError
           \/ OnErrorClient \/ TimeoutClient
  <2>1. SameAnswer
    BY <1>1, <1>3, <1>7 DEF PumpReadStop, PumpReadBlock, PumpReadEof, PumpReadError, ForwardBodyRest,
           ProcessHeadIncomplete, PumpWriteBlock, PumpWriteError, OnErrorClient, TimeoutClient,
           SameAnswer, ClientSet
  <2>2. todo # <<>> /\ (Return \/ todo' = todo)
    BY <1>7 DEF PumpReadStop, PumpReadBlock, PumpReadEof, PumpReadError, ForwardBodyRest, Receiving,
           ProcessHeadIncomplete, PumpWriteBlock, PumpWriteError, OnErrorClient, TimeoutClient, Doing
  <2>3. QED
    BY <1>4, <2>1, <2>2
<1>8. CASE PumpWriteSome
  <2>1. \E m : c' = [c EXCEPT !.out = m, !.idle = FALSE]
    BY <1>8, Zenon DEF PumpWriteSome
  <2>2. QED
    BY <1>1, <1>8, <2>1 DEF PumpWriteSome, SameAnswer, ClientSet
<1>9. CASE PumpWriteDrained
  <2>1. SameAnswer
    BY <1>1, <1>9 DEF PumpWriteDrained, SameAnswer, ClientSet
  <2>2. NoReplyNext
    BY <1>1, <1>9, DThen1, DThen2 DEF PumpWriteDrained, Doing, Functions, HeadOnly, NoReplyNext
  <2>3. QED
    BY <2>1, <2>2
<1>10. CASE PumpWriteEnd
  <2> DEFINE cc == [c EXCEPT !.writeBlock = "ok"]
  <2>1. /\ cc \in ClientSet /\ cc.relayed = c.relayed /\ cc.replied = c.replied
        /\ cc.responded = c.responded /\ cc.backend = c.backend /\ cc.state = c.state
    BY <1>1 DEF ClientSet
  <2>2. CloseBoth(cc, b) \/ c' = cc
    BY <1>10 DEF PumpWriteEnd
  <2> HIDE DEF cc
  <2>3. SameAnswer
    BY <1>1, <2>1, <2>2, CloseFields DEF SameAnswer
  <2>4. QED
    BY <1>4, <1>10, <2>3 DEF PumpWriteEnd, Doing
<1>11. CASE PumpReadData
  <2> DEFINE n == AtMost(net.client.rcv, Chunk)
             cc == [c EXCEPT !.idle = FALSE]
  <2>1. \/ \E m : c' = [c EXCEPT !.idle = FALSE, !.in = m]
        \/ \E m : c' = [[c EXCEPT !.idle = FALSE] EXCEPT !.bodyLeft = m]
        \/ \E m : c' = [[c EXCEPT !.idle = FALSE] EXCEPT !.in = m]
        \/ c' = [c EXCEPT !.idle = FALSE]
    BY <1>11, Zenon DEF PumpReadData, ForwardBody
  <2>2. SameAnswer
    BY <1>1, <2>1 DEF SameAnswer, ClientSet
  <2>3. cc.backend = c.backend
    BY <1>1 DEF ClientSet
  <2>4. \/ Then(<<"process_head", "pump_read">>) \/ todo' = todo
        \/ ForwardBody(cc, b, n, <<"pump_read">>)
    BY <1>11 DEF PumpReadData
  <2> HIDE DEF cc, n
  <2>5. ForwardBody(cc, b, n, <<"pump_read">>) =>
          \/ Then(<<"flush", "forward_body_rest", "pump_read">>)
          \/ Then(<<"forward_body_rest", "pump_read">>) \/ Then(<<"pump_read">>)
    <3>1. CASE cc.backend
      BY <3>1, ForwardCalls
    <3>2. CASE ~cc.backend
      BY <3>2 DEF ForwardBody
    <3>3. QED
      BY <3>1, <3>2
  <2>6. todo # <<>>
    BY <1>11 DEF PumpReadData, Receiving, Doing
  <2>7. /\ "pump_read" \notin HeadOnly /\ "forward_body_rest" \notin HeadOnly
        /\ \A f \in {"process_head", "pump_read", "flush", "forward_body_rest"} : f \in Functions
    BY DEF HeadOnly, Functions
  <2>8. todo' = todo \/ NoReplyNext
    BY <1>1, <2>4, <2>5, <2>6, <2>7, DThen1, DThen2, DThen3 DEF NoReplyNext
  <2>9. QED
    BY <2>2, <2>8
<1>12. QED
  BY <1>5, <1>6, <1>7, <1>8, <1>9, <1>10, <1>11

LEMMA AnswerBackend ==
  ASSUME Core, \/ ResumeReads \/ DeliverRest \/ BackendReadStop \/ BackendReadEof \/ BackendReadError
               \/ OnBackendClosed \/ RequestClose \/ OnWritable \/ FlushSome \/ FlushError \/ FlushDone
               \/ FlushApplyInterest \/ OnBackendDrained \/ TimeoutBackend
  PROVE  SameAnswer /\ (todo' = todo \/ NoReplyNext)
<1>1. c \in ClientSet /\ Types /\ Discipline
  BY DEF Core, Types
<1>2. \A f \in {"send_response", "send_head"} : f \in HeadOnly
  BY DEF HeadOnly
<1>3. ASSUME todo # <<>>, Return PROVE NoReplyNext
  BY <1>1, <1>2, <1>3, DReturn DEF NoReplyNext
<1>4. SameAnswer
  <2>1. CASE DeliverRest
    <3>1. c' = c \/ \E x, y : c' = [[c EXCEPT !.backendPaused = x] EXCEPT !.interest = y]
      BY <2>1, Zenon DEF DeliverRest, SetInterest
    <3>2. QED
      BY <1>1, <3>1 DEF SameAnswer, ClientSet
  <2>2. CASE OnBackendClosed
    BY <1>1, <2>2 DEF OnBackendClosed, SameAnswer, ClientSet
  <2>3. CASE OnBackendDrained
    BY <1>1, <2>3 DEF OnBackendDrained, SameAnswer, ClientSet
  <2>4. CASE \/ ResumeReads \/ BackendReadStop \/ BackendReadEof \/ BackendReadError
             \/ RequestClose \/ OnWritable \/ FlushSome \/ FlushError \/ FlushDone
             \/ FlushApplyInterest \/ TimeoutBackend
    <3>1. c' = c
      BY <2>4 DEF ResumeReads, BackendReadStop, BackendReadEof, BackendReadError, RequestClose,
                  OnWritable, FlushSome, FlushError, FlushDone, FlushApplyInterest, TimeoutBackend
    <3>2. QED
      BY <3>1 DEF SameAnswer
  <2>5. QED
    BY <2>1, <2>2, <2>3, <2>4
<1>5. todo # <<>>
  BY DEF ResumeReads, DeliverRest, BackendReadStop, BackendReadEof, BackendReadError, OnBackendClosed,
         RequestClose, OnWritable, FlushSome, FlushError, FlushDone, FlushApplyInterest,
         OnBackendDrained, TimeoutBackend, Doing
<1>6. \/ todo' = todo \/ Return
      \/ \E f \in {"on_readable", "fail", "request_close", "flush", "apply_interest", "drive"} :
           Then(<<f>>)
      \/ Then(<<"on_backend_closed", "request_close">>) \/ Then(<<"pump_write", "recompute_interest">>)
      \/ Then(<<"on_backend_drained", "apply_interest">>)
  <2>1. CASE ResumeReads \/ DeliverRest \/ BackendReadStop \/ BackendReadEof \/ BackendReadError
    BY <2>1 DEF ResumeReads, DeliverRest, BackendReadStop, BackendReadEof, BackendReadError
  <2>2. CASE \/ OnBackendClosed \/ RequestClose \/ OnWritable \/ FlushSome \/ FlushError
             \/ FlushApplyInterest \/ OnBackendDrained \/ TimeoutBackend
    BY <2>2 DEF OnBackendClosed, RequestClose, OnWritable, FlushSome, FlushError,
                FlushApplyInterest, OnBackendDrained, TimeoutBackend
  <2>3. CASE FlushDone
    BY <2>3, FlushCalls
  <2>4. QED
    BY <2>1, <2>2, <2>3
<1>7. /\ \A f \in {"request_close", "recompute_interest", "apply_interest"} : f \notin HeadOnly
      /\ \A f \in {"on_readable", "fail", "request_close", "flush", "apply_interest", "drive",
                   "on_backend_closed", "pump_write", "recompute_interest", "on_backend_drained"} :
           f \in Functions
  BY DEF HeadOnly, Functions
<1>8. todo' = todo \/ NoReplyNext
  <2>1. ASSUME NEW f \in {"on_readable", "fail", "request_close", "flush", "apply_interest", "drive"},
               Then(<<f>>)
        PROVE  NoReplyNext
    BY <1>1, <1>5, <1>7, <2>1, DThen1 DEF NoReplyNext
  <2>2. ASSUME NEW f \in {"on_backend_closed", "pump_write", "on_backend_drained"},
               NEW g \in {"request_close", "recompute_interest", "apply_interest"}, Then(<<f, g>>)
        PROVE  NoReplyNext
    BY <1>1, <1>5, <1>7, <2>2, DThen2 DEF NoReplyNext
  <2>3. QED
    BY <1>3, <1>5, <1>6, <2>1, <2>2
<1>9. QED
  BY <1>4, <1>8

\* BackendConnection::send, and what is new of the backend it is called on.
LEMMA QueuedFields ==
  ASSUME NEW bb \in BackendSet, NEW n \in Nat
  PROVE  /\ Queued(bb, n) \in BackendSet /\ Queued(bb, n).out = bb.out + n
         /\ Queued(bb, n).highWater <=> (bb.highWater \/ bb.out + n > kBackpressureHigh)
         /\ Queued(bb, n).alive = bb.alive /\ Queued(bb, n).client = bb.client
         /\ Queued(bb, n).connected = bb.connected /\ Queued(bb, n).readPaused = bb.readPaused
         /\ Queued(bb, n).interest = bb.interest
<1>1. bb.out + n \in Nat /\ (bb.highWater \/ bb.out + n > kBackpressureHigh) \in BOOLEAN
  BY Sizes DEF BackendSet
<1>2. PICK m \in Nat, h \in BOOLEAN :
        /\ m = bb.out + n /\ h = (bb.highWater \/ bb.out + n > kBackpressureHigh)
        /\ Queued(bb, n) = [bb EXCEPT !.out = m, !.highWater = h]
  BY <1>1, Zenon DEF Queued
<1> DEFINE q == Queued(bb, n)
<1>3. /\ q \in BackendSet /\ q.out = m /\ q.highWater = h /\ q.alive = bb.alive
      /\ q.client = bb.client /\ q.connected = bb.connected /\ q.readPaused = bb.readPaused
      /\ q.interest = bb.interest
  BY <1>2 DEF BackendSet
<1> HIDE DEF q
<1>4. q.highWater <=> (bb.highWater \/ bb.out + n > kBackpressureHigh)
  BY <1>2, <1>3
<1>5. QED
  BY <1>2, <1>3, <1>4 DEF q

\* What a forwarded head leaves behind.
LEMMA HeadForwarded ==
  ASSUME Core, ProcessHeadForward
  PROVE  /\ c'.alive = c.alive /\ c'.closed = c.closed /\ c'.in = 0 /\ c'.out = c.out
         /\ c'.state \in {"Streaming", "StreamingUp"}
         /\ c'.relayed = c.relayed /\ c'.replied = c.replied /\ c'.responded = c.responded
         /\ c'.handshake = c.handshake /\ c'.eof = c.eof /\ c'.interest = c.interest
         /\ c'.readPaused = c.readPaused /\ c'.backendPaused = c.backendPaused
         /\ c'.readBlock = c.readBlock /\ c'.writeBlock = c.writeBlock
         /\ b'.alive = c'.backend /\ b'.client = c'.backend /\ ~b'.connected /\ ~b'.readPaused
         /\ b'.interest = {"out"}
         /\ \/ Return /\ b'.out <= 1 /\ (b'.highWater <=> b'.out > kBackpressureHigh)
            \/ /\ Then(<<"forward_body_rest">>) /\ b'.out <= 1 + (c.in - HeadLen)
               /\ b'.out > kBackpressureHigh => b'.highWater
<1>1. /\ Doing("process_head") /\ Types /\ c \in ClientSet /\ c.in \in Nat /\ HeadLen \in Nat
      /\ kBackpressureHigh \in Nat \ {0} /\ todo # <<>>
  BY Sizes, ConstantsAssumption DEF ProcessHeadForward, Core, Types, Doing, ClientSet
<1>2. PICK length \in 0..MaxContent, added \in BOOLEAN :
        LET bb == IF added THEN Queued(BackendConnection, 1) ELSE NoBackend
            cc == [c EXCEPT !.in = 0, !.bodyLeft = length, !.backend = added,
                            !.state = IF length = 0 THEN "Streaming" ELSE "StreamingUp"]
        IN IF length > 0 /\ c.in > HeadLen
           THEN ForwardBody(cc, bb, c.in - HeadLen, <<>>)
           ELSE c' = cc /\ b' = bb /\ Return
  BY DEF ProcessHeadForward
<1> DEFINE bb == IF added THEN Queued(BackendConnection, 1) ELSE NoBackend
           st == IF length = 0 THEN "Streaming" ELSE "StreamingUp"
           cc == [c EXCEPT !.in = 0, !.bodyLeft = length, !.backend = added, !.state = st]
           k == c.in - HeadLen
<1>3. length \in Nat
  BY Sizes
<1>4. cc \in ClientSet /\ cc.bodyLeft = length /\ cc.backend = added
  <2>1. st \in {"Streaming", "StreamingUp"}
    OBVIOUS
  <2>2. QED
    BY <1>1, <1>3, <2>1 DEF ClientSet
<1>5. /\ cc.alive = c.alive /\ cc.closed = c.closed /\ cc.in = 0 /\ cc.out = c.out
      /\ cc.state \in {"Streaming", "StreamingUp"}
      /\ cc.relayed = c.relayed /\ cc.replied = c.replied /\ cc.responded = c.responded
      /\ cc.handshake = c.handshake /\ cc.eof = c.eof /\ cc.interest = c.interest
      /\ cc.readPaused = c.readPaused /\ cc.backendPaused = c.backendPaused
      /\ cc.readBlock = c.readBlock /\ cc.writeBlock = c.writeBlock
  BY <1>1 DEF ClientSet
<1>6. /\ bb \in BackendSet /\ bb.alive = added /\ bb.client = added /\ ~bb.connected
      /\ ~bb.readPaused /\ bb.interest = {"out"} /\ bb.out <= 1 /\ bb.highWater = FALSE
      /\ kBackpressureHigh >= 1
  <2>1. CASE added
    <3>1. /\ BackendConnection \in BackendSet /\ BackendConnection.out = 0
          /\ BackendConnection.highWater = FALSE /\ BackendConnection.alive = TRUE
          /\ BackendConnection.client = TRUE /\ BackendConnection.connected = FALSE
          /\ BackendConnection.readPaused = FALSE /\ BackendConnection.interest = {"out"}
      <4>1. NoBackend \in BackendSet
        BY DEF NoBackend, BackendSet
      <4>2. QED
        BY <4>1 DEF BackendConnection, NoBackend, BackendSet
    <3>2. bb = Queued(BackendConnection, 1)
      BY <2>1
    <3>3. bb \in BackendSet /\ bb.highWater \in BOOLEAN
      BY <3>1, <3>2, QueuedFields DEF BackendSet
    <3>4. /\ bb.out = 0 + 1 /\ bb.alive = TRUE /\ bb.client = TRUE /\ bb.connected = FALSE
          /\ bb.readPaused = FALSE /\ bb.interest = {"out"}
          /\ bb.highWater <=> (FALSE \/ 0 + 1 > kBackpressureHigh)
      <4>1. 1 \in Nat
        OBVIOUS
      <4> HIDE DEF bb
      <4>2. QED
        BY <3>1, <3>2, <4>1, QueuedFields, Zenon
    <3>5. kBackpressureHigh >= 1 /\ ~bb.highWater /\ bb.out <= 1
      BY <1>1, <3>4
    <3>6. added = TRUE
      BY <2>1
    <3> HIDE DEF bb
    <3>7. bb.highWater = FALSE
      BY <3>3, <3>5
    <3>8. QED
      BY <3>3, <3>4, <3>5, <3>6, <3>7
  <2>2. CASE ~added
    <3>1. bb = NoBackend
      BY <2>2
    <3> HIDE DEF bb
    <3>2. /\ bb \in BackendSet /\ bb.alive = FALSE /\ bb.client = FALSE /\ ~bb.connected
          /\ ~bb.readPaused /\ bb.interest = {"out"} /\ bb.out <= 1 /\ bb.highWater = FALSE
      BY <3>1 DEF NoBackend, BackendSet
    <3>3. added = FALSE /\ kBackpressureHigh >= 1
      BY <1>1, <2>2
    <3>4. QED
      BY <3>2, <3>3
  <2>3. QED
    BY <2>1, <2>2
<1>7. \/ c' = cc /\ b' = bb /\ Return
      \/ k \in Nat /\ ForwardBody(cc, bb, k, <<>>)
  BY <1>1, <1>2
<1> HIDE DEF bb, cc, st
<1>8. CASE c' = cc /\ b' = bb /\ Return
  <2>1. bb.out \in Nat
    BY <1>6 DEF BackendSet
  <2>2. QED
    BY <1>1, <1>4, <1>5, <1>6, <1>8, <2>1
<1>9. CASE k \in Nat /\ ForwardBody(cc, bb, k, <<>>) /\ ~added
  <2>1. Then(<<>>) /\ c' = cc /\ b' = bb
    BY <1>4, <1>9 DEF ForwardBody
  <2>2. Tail(todo) \in Seq(Functions)
    BY <1>1, Stack DEF Types
  <2>3. <<>> \o Tail(todo) = Tail(todo)
    BY <2>2, ConcatEmptySeq
  <2>4. Return
    BY <2>1, <2>3 DEF Then, Return
  <2>5. QED
    BY <1>8, <2>1, <2>4
<1>10. CASE k \in Nat /\ ForwardBody(cc, bb, k, <<>>) /\ added
  <2> DEFINE take == Take(cc, k)
  <2>1. take \in Nat /\ take <= k
    BY <1>3, <1>4, <1>10, AtMostFacts DEF Take
  <2>2. /\ \E m : c' = [cc EXCEPT !.bodyLeft = m]
        /\ b' = Queued(bb, take)
    BY <1>4, <1>10, Zenon DEF ForwardBody
  <2>3. Then(<<"forward_body_rest">>)
    BY <1>4, <1>6, <1>10, ForwardCallsHead
  <2> HIDE DEF take, k
  <2>4. bb.out \in Nat
    BY <1>6 DEF BackendSet
  <2>6. /\ b'.out = bb.out + take /\ (b'.highWater <=> (bb.highWater \/ bb.out + take > kBackpressureHigh))
        /\ b'.alive = added /\ b'.client = added
        /\ ~b'.connected /\ ~b'.readPaused /\ b'.interest = {"out"}
    BY <1>6, <2>1, <2>2, QueuedFields
  <2>7. /\ c'.alive = cc.alive /\ c'.closed = cc.closed /\ c'.in = 0 /\ c'.out = cc.out
        /\ c'.state = cc.state /\ c'.backend = added
        /\ c'.relayed = cc.relayed /\ c'.replied = cc.replied /\ c'.responded = cc.responded
        /\ c'.handshake = cc.handshake /\ c'.eof = cc.eof /\ c'.interest = cc.interest
        /\ c'.readPaused = cc.readPaused /\ c'.backendPaused = cc.backendPaused
        /\ c'.readBlock = cc.readBlock /\ c'.writeBlock = cc.writeBlock
    BY <1>4, <1>5, <2>2 DEF ClientSet
  <2>8. b'.out <= 1 + k /\ (b'.out > kBackpressureHigh => b'.highWater)
    BY <1>1, <1>6, <1>10, <2>1, <2>4, <2>6
  <2>9. QED
    BY <1>5, <2>3, <2>6, <2>7, <2>8 DEF k
<1>11. QED
  BY <1>7, <1>8, <1>9, <1>10

\* The calls of on_readable when it has read something for its client.
LEMMA DeliverHead ==
  ASSUME Types, Discipline, todo # <<>>, Then(<<"pump_write", "deliver_rest", "on_readable">>)
  PROVE  /\ todo' # <<>> /\ Head(todo') = "pump_write" /\ todo'[2] = "deliver_rest"
         /\ Calls(todo') = {"pump_write", "deliver_rest", "on_readable"} \cup Deeper(todo)
<1>1. "pump_write" \in Functions /\ "deliver_rest" \in Functions /\ "on_readable" \in Functions
  BY DEF Functions
<1>2. QED
  BY <1>1, Then3 DEF Types

\* The loop and the environment answer nobody.
LEMMA AnswerLoop ==
  ASSUME Core, EpollWait \/ Dispatch \/ ProcessPendingClose \/ Env \/ TimePasses
  PROVE  SameAnswer /\ (todo' = todo \/ NoReplyNext)
<1>1. c \in ClientSet
  BY DEF Core, Types
<1>2. CASE ProcessPendingClose
  <2>1. PICK x \in BOOLEAN, y \in BOOLEAN :
          (y => c.backend) /\ c' = [c EXCEPT !.alive = x, !.backend = y]
    <3>1. /\ (c.alive /\ "client" \notin closing) \in BOOLEAN
          /\ (c.backend /\ ~("backend" \in closing /\ b.client)) \in BOOLEAN
      OBVIOUS
    <3>2. QED
      BY <1>2, <3>1, Zenon DEF ProcessPendingClose
  <2>2. QED
    BY <1>1, <1>2, <2>1 DEF ProcessPendingClose, SameAnswer, ClientSet
<1>3. CASE TimePasses
  <2>1. \E x : c' = [c EXCEPT !.idle = x]
    BY <1>3, Zenon DEF TimePasses
  <2>2. QED
    BY <1>1, <1>3, <2>1 DEF TimePasses, SameAnswer, ClientSet
<1>4. CASE EpollWait \/ Env
  BY <1>4 DEF EpollWait, Env, PeerSends, PeerCloses, PeerReads, PeerResets, BackendAccepts,
              BackendRefuses, SameAnswer
<1>5. CASE Dispatch
  <2>1. c' = c
    BY <1>5 DEF Dispatch
  <2>2. NoReplyNext
    BY <1>5, DispatchCalls DEF NoReplyNext
  <2>3. QED
    BY <2>1, <2>2 DEF SameAnswer
<1>6. QED
  BY <1>2, <1>3, <1>4, <1>5

LEMMA ResponseNext == ASSUME Core, ResponseInv, [Next]_vars PROVE ResponseInv'
<1>1. c \in ClientSet /\ b \in BackendSet /\ Types /\ Discipline /\ PointerInv /\ LifeInv
  BY DEF Core, Types
<1>2. CASE \/ Drive \/ DriveWrite \/ RecomputeInterest \/ PumpReadStop \/ PumpReadBlock
           \/ PumpReadEof \/ PumpReadError \/ PumpReadData \/ ForwardBodyRest
           \/ ProcessHeadIncomplete \/ PumpWriteSome \/ PumpWriteBlock \/ PumpWriteError
           \/ PumpWriteDrained \/ PumpWriteEnd \/ OnErrorClient \/ TimeoutClient
  BY <1>2, AnswerClient, ResponseKept
<1>3. CASE \/ ResumeReads \/ DeliverRest \/ BackendReadStop \/ BackendReadEof \/ BackendReadError
           \/ OnBackendClosed \/ RequestClose \/ OnWritable \/ FlushSome \/ FlushError \/ FlushDone
           \/ FlushApplyInterest \/ OnBackendDrained \/ TimeoutBackend
  BY <1>3, AnswerBackend, ResponseKept
<1>4. CASE EpollWait \/ Dispatch \/ ProcessPendingClose \/ Env \/ TimePasses
  BY <1>4, AnswerLoop, ResponseKept
<1>5. CASE ProcessHeadReject \/ HandleInternal \/ StartBackendFails
  <2>1. Doing("process_head")
    BY <1>5 DEF ProcessHeadReject, HandleInternal, StartBackendFails
  <2>2. c.state = "ReadingHead" /\ ~c.backend /\ ~c.relayed /\ ~c.replied
    BY <1>1, <2>1 DEF PointerInv, Doing, AtHead, ResponseInv
  <2>3. SameAnswer
    BY <1>1, <1>5 DEF ProcessHeadReject, HandleInternal, StartBackendFails, SameAnswer, ClientSet
  <2>4. QED
    BY <2>2, <2>3 DEF ResponseInv, SameAnswer
<1>6. CASE ProcessHeadForward
  <2>1. Doing("process_head") /\ todo # <<>>
    BY <1>6 DEF ProcessHeadForward, Doing
  <2>2. c.state = "ReadingHead" /\ ~c.relayed /\ ~c.replied
    BY <1>1, <2>1 DEF PointerInv, Doing, AtHead, ResponseInv
  <2>3. /\ c'.state # "ReadingHead" /\ c'.relayed = c.relayed /\ c'.replied = c.replied
        /\ Return \/ Then(<<"forward_body_rest">>)
    BY <1>6, HeadForwarded
  <2>4. NoReplyNext
    BY <1>1, <2>1, <2>3, DReturn, DThen1 DEF NoReplyNext, HeadOnly, Functions
  <2>5. QED
    BY <2>2, <2>3, <2>4 DEF ResponseInv, NoReplyNext, AtHead
<1>7. ASSUME NEW f \in {"send_response", "send_head"}, NEW n \in Nat, SendResponse(f, n)
      PROVE  ResponseInv'
  <2>1. AtHead(f) /\ todo # <<>> /\ Then(<<"pump_write", "recompute_interest">>)
    BY <1>7 DEF SendResponse, Doing, AtHead
  <2>2. ~c.backend /\ ~c.relayed
    BY <2>1 DEF ResponseInv
  <2>3. c'.relayed = c.relayed /\ c'.replied /\ c'.backend = c.backend /\ c'.state = "Closing"
    BY <1>1, <1>7 DEF SendResponse, ClientSet
  <2>4. Head(todo') = "pump_write"
    BY <1>1, <2>1, DThen2 DEF Functions, HeadOnly
  <2>5. QED
    BY <2>2, <2>3, <2>4 DEF ResponseInv, AtHead
<1>8. CASE BackendReadData
  <2>1. Doing("on_readable") /\ todo # <<>>
    BY <1>8 DEF BackendReadData, Doing
  <2>2. b.alive
    BY <2>1, Running DEF BackendFns
  <2>3. CASE c' = c /\ todo' = todo
    BY <2>3 DEF ResponseInv, AtHead
  <2>4. CASE b.client /\ c' # c
    <3>1. Then(<<"pump_write", "deliver_rest", "on_readable">>)
      BY <1>8, <2>4 DEF BackendReadData, DeliverLoop
    <3>2. \E m : c' = [c EXCEPT !.out = m, !.responded = TRUE, !.relayed = TRUE]
      BY <1>8, <2>4, Zenon DEF BackendReadData, Deliver
    <3>3. c'.relayed /\ c'.responded /\ c'.replied = c.replied /\ c'.state = c.state
      BY <1>1, <3>2 DEF ClientSet
    <3>4. c.backend /\ c.state # "ReadingHead"
      BY <1>1, <2>2, <2>4, Links DEF PointerInv
    <3>5. Head(todo') = "pump_write"
      BY <1>1, <2>1, <3>1, DeliverHead
    <3>6. QED
      BY <3>3, <3>4, <3>5 DEF ResponseInv, AtHead
  <2>5. CASE b.client /\ c' = c
    <3>1. todo' = todo \/ Then(<<"pump_write", "deliver_rest", "on_readable">>)
      BY <1>8 DEF BackendReadData, DeliverLoop
    <3>2. todo' = todo \/ Head(todo') = "pump_write"
      BY <1>1, <2>1, <3>1, DeliverHead
    <3>3. QED
      BY <2>5, <3>2 DEF ResponseInv, AtHead
  <2>6. QED
    BY <1>8, <2>3, <2>4, <2>5 DEF BackendReadData
<1>9. CASE Fail
  <2>1. Doing("fail") /\ todo # <<>>
    BY <1>9 DEF Fail, Doing
  <2> DEFINE cc == [c EXCEPT !.backend = FALSE]
  <2>2. /\ cc \in ClientSet /\ cc.relayed = c.relayed /\ cc.replied = c.replied
        /\ cc.responded = c.responded /\ ~cc.backend /\ cc.state = c.state
        /\ DetachClient(b) \in BackendSet
    BY <1>1 DEF ClientSet, DetachClient, BackendSet
  <2>3. \/ c' = c /\ Then(<<"request_close">>)
        \/ CloseBoth(cc, DetachClient(b)) /\ Then(<<"request_close">>)
        \/ ~c.responded /\ c' = cc /\ Then(<<"send_response", "request_close">>)
    BY <1>9 DEF Fail, OnBackendError
  <2> HIDE DEF cc
  <2>4. SameAnswer /\ ((~c.responded /\ ~c'.backend) \/ Then(<<"request_close">>))
    BY <2>2, <2>3, CloseFields DEF SameAnswer
  <2>5. CASE Then(<<"request_close">>)
    <3>1. NoReplyNext
      BY <1>1, <2>1, <2>5, DThen1 DEF NoReplyNext, Functions
    <3>2. QED
      BY <2>4, <3>1, ResponseKept
  <2>6. CASE ~c.responded /\ ~c'.backend
    BY <2>4, <2>6 DEF ResponseInv, SameAnswer
  <2>7. QED
    BY <2>4, <2>5, <2>6
<1>10. CASE Finished \/ UNCHANGED vars
  <2>1. c' = c /\ todo' = todo
    BY <1>10 DEF Finished, vars
  <2>2. QED
    BY <2>1 DEF ResponseInv, AtHead
<1>11. ReplyLen \in Nat /\ 1 \in Nat
  BY Sizes
<1>12. QED
  BY <1>2, <1>3, <1>4, <1>5, <1>6, <1>7, <1>8, <1>9, <1>10, <1>11 DEF Next, LoopStep

(* A client is never given both the backend's response and one of castle's *)
(* own, whatever order the failures of the two come in.                    *)
THEOREM NeverTwoResponses == Spec => []OneResponse
<1>1. ResponseInv => OneResponse
  BY DEF ResponseInv, OneResponse
<1>2. QED
  BY <1>1, ResponseInit, ResponseNext, CoreInvariant, PTL DEF Spec

-----------------------------------------------------------------------------
(* Bounded buffers.                                                        *)

\* The function that the running one returns to.
Under(f) == Tail(todo) # <<>> /\ Head(Tail(todo)) = f

HeadInv ==
  c.state = "ReadingHead" =>
    /\ c.in <= HeadLen - 1 + Chunk /\ c.out = 0 /\ ~c.backendPaused /\ ~c.readPaused
    /\ c.in >= HeadLen => AtHead("process_head") \/ AtHead("send_response") \/ AtHead("send_head")

\* The backend's reads are paused as soon as the client's buffer is above the
\* high-water mark, and stay so until it is empty.
DownInv ==
  /\ AtHead("resume_reads") => ~c.backendPaused /\ c.out = 0
  /\ c.backend /\ c.backendPaused => b.readPaused
  /\ b.client /\ ~b.readPaused /\ c.out > kBackpressureHigh =>
       AtHead("deliver_rest") \/ (AtHead("pump_write") /\ Under("deliver_rest"))

\* The client's reads are, while there is a body to forward.
UpInv ==
  /\ AtHead("on_backend_drained") => b.out < kBackpressureLow
  /\ c.state = "StreamingUp" /\ c.backend /\ ~c.readPaused /\ b.out > kBackpressureHigh =>
       \/ AtHead("forward_body_rest")
       \/ AtHead("flush") /\ Under("forward_body_rest")
       \/ AtHead("apply_interest") /\ Under("forward_body_rest")
       \/ AtHead("fail") /\ Under("forward_body_rest")

BufferInv == BoundedBuffers /\ HeadInv /\ DownInv /\ UpInv

LEMMA BufferInit == Init => BufferInv
  BY ConstantsAssumption
     DEF Init, HttpConnection, NoBackend, BufferInv, BoundedBuffers, HeadInv, DownInv, UpInv, AtHead

\* Functions whose end the buffers depend on.
Keepers ==
  {"process_head", "send_response", "send_head", "pump_write", "deliver_rest",
   "forward_body_rest", "flush", "apply_interest", "fail"}

\* Steps that add nothing to a buffer and end no pause.
SameBuffers ==
  /\ c'.out <= c.out /\ c'.replied = c.replied /\ b'.out <= b.out
  /\ c'.state = "ReadingHead" => c.state = "ReadingHead" /\ c'.in = c.in
  /\ c'.state = "StreamingUp" => c.state = "StreamingUp"
  /\ c'.backendPaused = c.backendPaused /\ c'.readPaused = c.readPaused
  /\ c'.backend => c.backend
  /\ b'.client => b.client
  /\ b'.client \/ c'.backend => b'.readPaused = b.readPaused

OtherCalls ==
  \/ todo' = todo
  \/ /\ \A f \in Keepers : ~AtHead(f)
     /\ todo' # <<>> => Head(todo') \notin {"resume_reads", "on_backend_drained"}

LEMMA BufferKept ==
  ASSUME Core, Core', BufferInv, SameBuffers, OtherCalls
  PROVE  BufferInv'
<1>1. /\ c.out \in Nat /\ c'.out \in Nat /\ b.out \in Nat /\ b'.out \in Nat
      /\ kBackpressureHigh \in Nat /\ kBackpressureLow \in Nat /\ Chunk \in Nat /\ ReplyLen \in Nat
      /\ c.in \in Nat /\ HeadLen \in Nat /\ c'.replied = c.replied
  BY Sizes DEF Core, Types, ClientSet, BackendSet, SameBuffers
<1>2. BoundedBuffers'
  BY <1>1 DEF BufferInv, BoundedBuffers, SameBuffers
<1>3. HeadInv'
  BY <1>1 DEF BufferInv, HeadInv, SameBuffers, OtherCalls, AtHead, Keepers
<1>4. DownInv'
  <2>1. (AtHead("resume_reads"))' => ~c'.backendPaused /\ c'.out = 0
    BY <1>1 DEF BufferInv, DownInv, SameBuffers, OtherCalls, AtHead
  <2>2. c'.backend /\ c'.backendPaused => b'.readPaused
    BY DEF BufferInv, DownInv, SameBuffers
  <2>3. ASSUME b'.client, ~b'.readPaused, c'.out > kBackpressureHigh
        PROVE  (AtHead("deliver_rest") \/ (AtHead("pump_write") /\ Under("deliver_rest")))'
    BY <1>1, <2>3 DEF BufferInv, DownInv, SameBuffers, OtherCalls, AtHead, Under, Keepers
  <2>4. QED
    BY <2>1, <2>2, <2>3 DEF DownInv
<1>5. UpInv'
  BY <1>1 DEF BufferInv, UpInv, SameBuffers, OtherCalls, AtHead, Under, Keepers
<1>6. QED
  BY <1>2, <1>3, <1>4, <1>5 DEF BufferInv

\* The usual reason: a step touches none of the fields in question.
SameClient ==
  /\ c'.out = c.out /\ c'.replied = c.replied /\ c'.in = c.in
  /\ c'.state = c.state \/ c'.state = "Closing"
  /\ c'.backendPaused = c.backendPaused /\ c'.readPaused = c.readPaused
  /\ c'.backend => c.backend
SameBackend ==
  b'.out = b.out /\ (b'.client => b.client) /\ b'.readPaused = b.readPaused

LEMMA SameSame == ASSUME Core, SameClient, SameBackend PROVE SameBuffers
<1>1. c.out \in Nat /\ b.out \in Nat
  BY DEF Core, Types, ClientSet, BackendSet
<1>2. QED
  BY <1>1 DEF SameClient, SameBackend, SameBuffers

LEMMA BuffersClient ==
  ASSUME Core, BufferInv,
         \/ Drive \/ DriveWrite \/ RecomputeInterest \/ PumpReadStop \/ PumpReadBlock
         \/ PumpReadEof \/ PumpReadError \/ PumpWriteSome \/ PumpWriteEnd \/ OnErrorClient
         \/ TimeoutClient
  PROVE  SameBuffers /\ OtherCalls
<1>1. /\ c \in ClientSet /\ b \in BackendSet /\ Types /\ Discipline /\ c.out \in Nat /\ b.out \in Nat
  BY DEF Core, Types, ClientSet, BackendSet
<1>2. ASSUME NEW cc \in ClientSet, cc.out = c.out, cc.replied = c.replied, cc.state = c.state,
             cc.in = c.in, cc.backendPaused = c.backendPaused, cc.readPaused = c.readPaused,
             cc.backend = c.backend, CloseBoth(cc, b)
      PROVE  SameClient /\ SameBackend
  BY <1>1, <1>2, CloseFields DEF SameClient, SameBackend
<1>3. "resume_reads" \in HeadOnly /\ "on_backend_drained" \in HeadOnly
  BY DEF HeadOnly
<1>4. ASSUME todo # <<>>, Return, \A f \in Keepers : ~AtHead(f) PROVE OtherCalls
  BY <1>1, <1>3, <1>4, DReturn DEF OtherCalls
<1>5. ASSUME NEW g \in Functions \ Keepers, Doing(g) PROVE todo # <<>> /\ \A f \in Keepers : ~AtHead(f)
  BY <1>5 DEF Doing, AtHead
<1>6. \A g \in {"drive", "drive_write", "recompute_interest", "pump_read", "pump_write_end",
                "on_error_client", "timeout_client"} : g \in Functions \ Keepers
  BY DEF Functions, Keepers
<1>7. CASE Drive
  <2>1. SameBuffers
    <3>1. \/ CloseBoth(c, b)
          \/ /\ b' = b
             /\ \/ c' = c \/ c' = [c EXCEPT !.handshake = TRUE, !.idle = FALSE]
                \/ \E y : c' = [c EXCEPT !.interest = y]
      BY <1>7, Zenon DEF Drive, SetInterest
    <3>2. SameClient /\ SameBackend
      BY <1>1, <1>2, <3>1 DEF SameClient, SameBackend, ClientSet
    <3>3. QED
      BY <3>2, SameSame
  <2>2. OtherCalls
    BY <1>1, <1>4, <1>5, <1>6, <1>7, DThen2 DEF Drive, Functions, HeadOnly, OtherCalls
  <2>3. QED
    BY <2>1, <2>2
<1>8. CASE DriveWrite \/ RecomputeInterest
  <2>1. SameBuffers
    BY <1>1, <1>8 DEF DriveWrite, RecomputeInterest, SetInterest, SameBuffers, ClientSet
  <2>2. OtherCalls
    BY <1>1, <1>4, <1>5, <1>6, <1>8, DThen2
       DEF DriveWrite, RecomputeInterest, Functions, HeadOnly, OtherCalls
  <2>3. QED
    BY <2>1, <2>2
<1>9. CASE PumpReadStop \/ PumpReadBlock \/ PumpReadEof \/ PumpReadError \/ OnErrorClient \/ TimeoutClient
  <2>1. SameBuffers
    <3>1. \/ CloseBoth(c, b)
          \/ /\ b' = b
             /\ \/ c' = c \/ c' = [c EXCEPT !.eof = TRUE, !.readBlock = "r"]
                \/ \E y : c' = [c EXCEPT !.readBlock = y]
      BY <1>9, Zenon DEF PumpReadStop, PumpReadBlock, PumpReadEof, PumpReadError, OnErrorClient,
           TimeoutClient
    <3>2. SameClient /\ SameBackend
      BY <1>1, <1>2, <3>1 DEF SameClient, SameBackend, ClientSet
    <3>3. QED
      BY <3>2, SameSame
  <2>2. \E g \in {"pump_read", "on_error_client", "timeout_client"} : Doing(g) /\ Return
    BY <1>9 DEF PumpReadStop, PumpReadBlock, PumpReadEof, PumpReadError, OnErrorClient,
           TimeoutClient, Receiving
  <2>3. QED
    BY <1>4, <1>5, <1>6, <2>1, <2>2
<1>10. CASE PumpWriteSome
  <2>1. PICK m \in Nat : m <= c.out /\ c' = [c EXCEPT !.out = m, !.idle = FALSE]
    <3>1. net.client.space \in Nat
      BY Sizes DEF Core, Types, Fds, SocketSet
    <3>2. PICK n \in Nat : n <= c.out /\ c' = [c EXCEPT !.out = @ - n, !.idle = FALSE]
      BY <1>1, <1>10, <3>1, AtMostFacts DEF PumpWriteSome
    <3>3. c.out - n \in Nat /\ c.out - n <= c.out
      BY <1>1, <3>2
    <3>4. QED
      BY <3>2, <3>3, Zenon
  <2>2. /\ c'.out = m /\ c'.replied = c.replied /\ c'.in = c.in /\ c'.state = c.state
        /\ c'.backendPaused = c.backendPaused /\ c'.readPaused = c.readPaused /\ c'.backend = c.backend
        /\ b' = b /\ todo' = todo
    <3>1. b' = b /\ todo' = todo
      BY <1>10 DEF PumpWriteSome
    <3>2. c' = [c EXCEPT !.out = m, !.idle = FALSE] /\ c \in ClientSet
      BY <1>1, <2>1
    <3>3. c'.out = m
      BY <3>2 DEF ClientSet
    <3>4. /\ c'.replied = c.replied /\ c'.in = c.in /\ c'.state = c.state
          /\ c'.backendPaused = c.backendPaused /\ c'.readPaused = c.readPaused
          /\ c'.backend = c.backend
      BY <3>2 DEF ClientSet
    <3>5. QED
      BY <3>1, <3>3, <3>4
  <2>3. c'.out <= c.out /\ b'.out <= b.out
    BY <1>1, <2>1, <2>2
  <2>4. SameBuffers
    BY <2>2, <2>3 DEF SameBuffers
  <2>5. QED
    BY <2>2, <2>4 DEF OtherCalls
<1>11. CASE PumpWriteEnd
  <2> DEFINE cc == [c EXCEPT !.writeBlock = "ok"]
  <2>1. /\ cc \in ClientSet /\ cc.out = c.out /\ cc.replied = c.replied /\ cc.state = c.state
        /\ cc.in = c.in /\ cc.backendPaused = c.backendPaused /\ cc.readPaused = c.readPaused
        /\ cc.backend = c.backend
    BY <1>1 DEF ClientSet
  <2>2. CloseBoth(cc, b) \/ (c' = cc /\ b' = b)
    BY <1>11 DEF PumpWriteEnd
  <2> HIDE DEF cc
  <2>3. SameBuffers
    BY <1>1, <1>2, <2>1, <2>2, SameSame DEF SameClient, SameBackend
  <2>4. QED
    BY <1>4, <1>5, <1>6, <1>11, <2>3 DEF PumpWriteEnd
<1>12. QED
  BY <1>7, <1>8, <1>9, <1>10, <1>11

LEMMA BuffersBackend ==
  ASSUME Core, BufferInv,
         \/ BackendReadStop \/ BackendReadEof \/ BackendReadError \/ OnBackendClosed \/ RequestClose
         \/ OnWritable \/ FlushSome \/ TimeoutBackend
  PROVE  SameBuffers /\ OtherCalls
<1>1. /\ c \in ClientSet /\ b \in BackendSet /\ Types /\ Discipline /\ c.out \in Nat /\ b.out \in Nat
  BY DEF Core, Types, ClientSet, BackendSet
<1>2. CASE FlushSome
  <2>1. PICK m \in Nat : m <= b.out /\ b' = [b EXCEPT !.out = m, !.idle = FALSE]
    <3>1. net.backend.space \in Nat
      BY Sizes DEF Core, Types, Fds, SocketSet
    <3>2. PICK n \in Nat : n <= b.out /\ b' = [b EXCEPT !.out = @ - n, !.idle = FALSE]
      BY <1>1, <1>2, <3>1, AtMostFacts DEF FlushSome
    <3>3. b.out - n \in Nat /\ b.out - n <= b.out
      BY <1>1, <3>2
    <3>4. QED
      BY <3>2, <3>3, Zenon
  <2>2. b'.out = m /\ b'.client = b.client /\ b'.readPaused = b.readPaused /\ c' = c /\ todo' = todo
    BY <1>1, <1>2, <2>1 DEF FlushSome, BackendSet
  <2>3. QED
    BY <1>1, <2>1, <2>2 DEF SameBuffers, OtherCalls
<1>3. CASE \/ BackendReadStop \/ BackendReadEof \/ BackendReadError \/ OnBackendClosed \/ RequestClose
           \/ OnWritable \/ TimeoutBackend
  <2>1. SameBuffers
    <3>1. c' = c \/ c' = [c EXCEPT !.backend = FALSE, !.state = "Closing"]
      BY <1>3 DEF BackendReadStop, BackendReadEof, BackendReadError, OnBackendClosed, RequestClose,
             OnWritable, TimeoutBackend
    <3>2. \/ b' = b \/ b' = [b EXCEPT !.client = FALSE]
          \/ b' = [b EXCEPT !.connected = TRUE, !.idle = FALSE]
      BY <1>3 DEF BackendReadStop, BackendReadEof, BackendReadError, OnBackendClosed, RequestClose,
             OnWritable, TimeoutBackend
    <3>3. SameClient
      BY <1>1, <3>1 DEF SameClient, ClientSet
    <3>4. SameBackend
      BY <1>1, <3>2 DEF SameBackend, BackendSet
    <3>5. QED
      BY <3>3, <3>4, SameSame
  <2>2. PICK g \in {"on_readable", "on_backend_closed", "request_close", "on_writable", "timeout_backend"} :
          Doing(g)
    BY <1>3 DEF BackendReadStop, BackendReadEof, BackendReadError, OnBackendClosed, RequestClose,
           OnWritable, TimeoutBackend
  <2>3. todo # <<>> /\ \A f \in Keepers : ~AtHead(f)
    BY <2>2 DEF Doing, AtHead, Keepers
  <2>4. \/ Return \/ Then(<<"fail">>) \/ Then(<<"request_close">>) \/ Then(<<"flush">>)
        \/ Then(<<"on_backend_closed", "request_close">>) \/ Then(<<"pump_write", "recompute_interest">>)
    BY <1>3 DEF BackendReadStop, BackendReadEof, BackendReadError, OnBackendClosed, RequestClose,
           OnWritable, TimeoutBackend
  <2>5. /\ \A f \in {"request_close", "recompute_interest"} : f \notin HeadOnly
        /\ \A f \in {"fail", "request_close", "flush", "on_backend_closed", "pump_write",
                      "recompute_interest"} : f \in Functions
        /\ "resume_reads" \in HeadOnly /\ "on_backend_drained" \in HeadOnly
    BY DEF HeadOnly, Functions
  <2>6. todo' # <<>> => Head(todo') \notin {"resume_reads", "on_backend_drained"}
    <3>1. ASSUME NEW f \in {"fail", "request_close", "flush"}, Then(<<f>>)
          PROVE  Head(todo') = f
      BY <1>1, <2>3, <2>5, <3>1, DThen1
    <3>2. ASSUME NEW f \in {"on_backend_closed", "pump_write"},
                 NEW h \in {"request_close", "recompute_interest"}, Then(<<f, h>>)
          PROVE  Head(todo') = f
      BY <1>1, <2>3, <2>5, <3>2, DThen2
    <3>3. ASSUME Return PROVE todo' # <<>> => Head(todo') \notin {"resume_reads", "on_backend_drained"}
      BY <1>1, <2>3, <2>5, <3>3, DReturn
    <3>4. QED
      BY <2>4, <3>1, <3>2, <3>3
  <2>7. QED
    BY <2>1, <2>3, <2>6 DEF OtherCalls
<1>4. QED
  BY <1>2, <1>3

LEMMA BuffersLoop ==
  ASSUME Core, EpollWait \/ Dispatch \/ Env \/ TimePasses \/ ProcessPendingClose
  PROVE  SameBuffers /\ OtherCalls
<1>1. c \in ClientSet /\ b \in BackendSet /\ c.out \in Nat /\ b.out \in Nat
  BY DEF Core, Types, ClientSet, BackendSet
<1>2. CASE EpollWait \/ Env
  BY <1>1, <1>2 DEF EpollWait, Env, PeerSends, PeerCloses, PeerReads, PeerResets, BackendAccepts,
                    BackendRefuses, SameBuffers, OtherCalls
<1>3. CASE TimePasses
  <2>1. \E x, y : c' = [c EXCEPT !.idle = x] /\ b' = [b EXCEPT !.idle = y]
    BY <1>3, Zenon DEF TimePasses
  <2>2. QED
    BY <1>1, <1>3, <2>1 DEF TimePasses, SameBuffers, OtherCalls, ClientSet, BackendSet
<1>4. CASE Dispatch
  <2>1. c' = c /\ b' = b /\ todo = <<>>
    BY <1>4 DEF Dispatch
  <2>2. OtherCalls
    BY <1>4, <2>1, DispatchCalls DEF OtherCalls, AtHead
  <2>3. QED
    BY <1>1, <2>1, <2>2 DEF SameBuffers
<1>5. CASE ProcessPendingClose
  <2>1. PICK x \in BOOLEAN, y \in BOOLEAN :
          (y => c.backend) /\ c' = [c EXCEPT !.alive = x, !.backend = y]
    <3>1. /\ (c.alive /\ "client" \notin closing) \in BOOLEAN
          /\ (c.backend /\ ~("backend" \in closing /\ b.client)) \in BOOLEAN
      OBVIOUS
    <3>2. QED
      BY <1>5, <3>1, Zenon DEF ProcessPendingClose
  <2>2. PICK z \in BOOLEAN :
          /\ z => b.client
          /\ b' = IF "backend" \in closing THEN NoBackend ELSE [b EXCEPT !.client = z]
    <3>1. (b.client /\ ~("client" \in closing /\ c.backend)) \in BOOLEAN
      OBVIOUS
    <3>2. QED
      BY <1>5, <3>1, Zenon DEF ProcessPendingClose
  <2>3. /\ b'.out <= b.out /\ (b'.client => b.client)
        /\ b'.client \/ "backend" \notin closing => b'.readPaused = b.readPaused
    <3>1. CASE "backend" \in closing
      <4>1. NoBackend.out = 0 /\ ~NoBackend.client
        BY DEF NoBackend
      <4>2. QED
        BY <1>1, <2>2, <3>1, <4>1
    <3>2. CASE "backend" \notin closing
      <4>1. b'.out = b.out /\ b'.client = z /\ b'.readPaused = b.readPaused
        BY <1>1, <2>2, <3>2 DEF BackendSet
      <4>2. QED
        BY <1>1, <2>2, <4>1
    <3>3. QED
      BY <3>1, <3>2
  <2>4. todo' = todo /\ (c'.backend => c.backend)
    BY <1>1, <1>5, <2>1 DEF ProcessPendingClose, ClientSet
  <2>5. c'.backend => "backend" \notin closing
    <3>1. todo = <<>> /\ LifeInv /\ PointerInv
      BY <1>5 DEF ProcessPendingClose, Core
    <3>2. c.backend => b.client
      BY <3>1 DEF PointerInv, PointersLive
    <3>3. QED
      BY <2>4, <3>1, <3>2 DEF LifeInv
  <2>6. QED
    BY <1>1, <2>1, <2>3, <2>4, <2>5 DEF SameBuffers, OtherCalls, ClientSet
<1>6. QED
  BY <1>2, <1>3, <1>4, <1>5

\* The steps that fill a buffer, or end a pause, one by one.
LEMMA BufferHead ==
  ASSUME Core, Core', BufferInv, ResponseInv,
         \/ ProcessHeadIncomplete \/ ProcessHeadReject \/ HandleInternal \/ StartBackendFails
         \/ ProcessHeadForward
  PROVE  BufferInv'
<1>1. /\ Doing("process_head") /\ todo # <<>> /\ Types /\ Discipline /\ c \in ClientSet
      /\ PointerInv /\ LifeInv
  BY DEF ProcessHeadIncomplete, ProcessHeadReject, HandleInternal, StartBackendFails,
         ProcessHeadForward, Doing, Core, Types
<1>2. c.state = "ReadingHead" /\ ~c.closed /\ ~b.alive /\ ~b.client /\ ~c.backend
  BY <1>1 DEF PointerInv, PointersLive, Doing, AtHead
<1>3. /\ c.out \in Nat /\ b.out \in Nat /\ c.in \in Nat /\ HeadLen \in Nat /\ Chunk \in Nat
      /\ kBackpressureHigh \in Nat /\ kBackpressureHigh >= 1 /\ kBackpressureLow \in Nat
      /\ b'.out \in Nat /\ ReplyLen \in Nat
  BY Sizes, ConstantsAssumption DEF Core, Types, ClientSet, BackendSet
<1>4. /\ c.in <= HeadLen - 1 + Chunk /\ c.out = 0 /\ ~c.backendPaused /\ ~c.readPaused
  BY <1>2 DEF BufferInv, HeadInv
<1>5. CASE ProcessHeadIncomplete
  <2>1. c' = c /\ b' = b /\ c.in < HeadLen /\ Return
    BY <1>5 DEF ProcessHeadIncomplete
  <2>2. todo' # <<>> => Head(todo') \notin HeadOnly
    BY <1>1, <2>1, DReturn
  <2>3. HeadInv'
    BY <1>3, <1>4, <2>1 DEF HeadInv
  <2>4. DownInv' /\ UpInv'
    BY <1>2, <1>4, <2>1, <2>2 DEF DownInv, UpInv, AtHead, HeadOnly
  <2>5. QED
    BY <2>1, <2>3, <2>4 DEF BufferInv, BoundedBuffers
<1>6. CASE ProcessHeadReject \/ HandleInternal \/ StartBackendFails
  <2>1. b' = b /\ (Then(<<"send_response">>) \/ Then(<<"send_head">>))
    BY <1>6 DEF ProcessHeadReject, HandleInternal, StartBackendFails
  <2>2. todo' # <<>> /\ (Head(todo') = "send_response" \/ Head(todo') = "send_head")
    BY <1>1, <2>1, DThen1 DEF Functions
  <2>3. /\ c'.out = c.out /\ c'.in = c.in /\ c'.state = c.state /\ c'.backendPaused = c.backendPaused
        /\ c'.readPaused = c.readPaused /\ c'.backend = c.backend /\ c'.replied = c.replied
    BY <1>1, <1>6 DEF ProcessHeadReject, HandleInternal, StartBackendFails, ClientSet
  <2>4. HeadInv'
    BY <1>4, <2>2, <2>3 DEF HeadInv, AtHead
  <2>5. DownInv' /\ UpInv'
    BY <1>2, <1>4, <2>1, <2>2, <2>3 DEF DownInv, UpInv, AtHead
  <2>6. QED
    BY <2>1, <2>3, <2>4, <2>5 DEF BufferInv, BoundedBuffers
<1>7. CASE ProcessHeadForward
  <2>1. /\ c'.out = c.out /\ c'.state # "ReadingHead" /\ c'.backendPaused = c.backendPaused
        /\ c'.readPaused = c.readPaused /\ c'.replied = c.replied
        /\ b'.client = c'.backend /\ ~b'.readPaused
        /\ \/ Return /\ b'.out <= 1
           \/ Then(<<"forward_body_rest">>) /\ b'.out <= 1 + (c.in - HeadLen)
    BY <1>7, HeadForwarded
  <2>2. /\ todo' # <<>> => Head(todo') \notin {"resume_reads", "on_backend_drained"}
        /\ Then(<<"forward_body_rest">>) => todo' # <<>> /\ Head(todo') = "forward_body_rest"
    <3>1. /\ "forward_body_rest" \in Functions /\ "resume_reads" \in HeadOnly
          /\ "on_backend_drained" \in HeadOnly
      BY DEF Functions, HeadOnly
    <3>2. Return => (todo' # <<>> => Head(todo') \notin {"resume_reads", "on_backend_drained"})
      BY <1>1, <3>1, DReturn
    <3>3. Then(<<"forward_body_rest">>) => todo' # <<>> /\ Head(todo') = "forward_body_rest"
      BY <1>1, <3>1, DThen1
    <3>4. QED
      BY <2>1, <3>2, <3>3
  <2>3. b'.out <= kBackpressureHigh + Chunk
    BY <1>3, <1>4, <2>1, ConstantsAssumption
  <2>4. BoundedBuffers'
    BY <1>3, <2>1, <2>3 DEF BufferInv, BoundedBuffers
  <2>5. HeadInv'
    BY <2>1 DEF HeadInv
  <2>6. DownInv'
    BY <1>3, <1>4, <2>1, <2>2 DEF DownInv, AtHead
  <2>7. UpInv'
    BY <1>3, <2>1, <2>2 DEF UpInv, AtHead
  <2>8. QED
    BY <2>4, <2>5, <2>6, <2>7 DEF BufferInv
<1>8. QED
  BY <1>5, <1>6, <1>7

LEMMA ForwardTops ==
  ASSUME Types, todo # <<>>,
         \/ Then(<<"flush", "forward_body_rest", "pump_read">>)
         \/ Then(<<"forward_body_rest", "pump_read">>)
  PROVE  \/ /\ todo' # <<>> /\ Head(todo') = "flush"
            /\ Tail(todo') # <<>> /\ Head(Tail(todo')) = "forward_body_rest"
         \/ todo' # <<>> /\ Head(todo') = "forward_body_rest"
<1>1. /\ "flush" \in Functions /\ "forward_body_rest" \in Functions /\ "pump_read" \in Functions
      /\ todo \in Seq(Functions)
  BY DEF Functions, Types
<1>2. CASE Then(<<"forward_body_rest", "pump_read">>)
  BY <1>1, <1>2, Then2
<1>3. CASE Then(<<"flush", "forward_body_rest", "pump_read">>)
  <2>1. /\ todo' # <<>> /\ Head(todo') = "flush"
        /\ Tail(todo') = <<"forward_body_rest">> \o (<<"pump_read">> \o Tail(todo))
    BY <1>1, <1>3, Then3
  <2> DEFINE s == <<"pump_read">> \o Tail(todo)
  <2>2. s \in Seq(Functions)
    BY <1>1, Stack, Push
  <2> HIDE DEF s
  <2>3. Tail(todo') # <<>> /\ Head(Tail(todo')) = "forward_body_rest"
    <3>1. Tail(todo') = <<"forward_body_rest">> \o s
      BY <2>1 DEF s
    <3>2. QED
      BY <1>1, <2>2, <3>1, Push
  <2>4. QED
    BY <2>1, <2>3
<1>4. QED
  BY <1>2, <1>3

LEMMA BufferRead ==
  ASSUME Core, Core', BufferInv, PumpReadData
  PROVE  BufferInv'
<1>1. /\ Doing("pump_read") /\ todo # <<>> /\ Types /\ Discipline /\ c \in ClientSet /\ b \in BackendSet
      /\ ~c.closed /\ ~c.readPaused /\ AtHead("pump_read")
  BY DEF PumpReadData, Receiving, Doing, Core, Types, AtHead
<1>2. /\ c.out \in Nat /\ b.out \in Nat /\ c.in \in Nat /\ HeadLen \in Nat /\ Chunk \in Nat
      /\ kBackpressureHigh \in Nat /\ kBackpressureLow \in Nat /\ net.client.rcv \in Nat
  BY Sizes DEF Core, Types, ClientSet, BackendSet, Fds, SocketSet
<1> DEFINE n == AtMost(net.client.rcv, Chunk)
           cc == [c EXCEPT !.idle = FALSE]
<1>3. n \in Nat /\ n <= Chunk
  BY <1>2, AtMostFacts
<1>4. /\ cc \in ClientSet /\ cc.out = c.out /\ cc.replied = c.replied /\ cc.in = c.in
      /\ cc.state = c.state /\ cc.backendPaused = c.backendPaused
      /\ cc.readPaused = c.readPaused /\ cc.backend = c.backend
      /\ \A m : /\ [cc EXCEPT !.in = m].out = c.out /\ [cc EXCEPT !.in = m].replied = c.replied
                /\ [cc EXCEPT !.in = m].in = m /\ [cc EXCEPT !.in = m].state = c.state
                /\ [cc EXCEPT !.in = m].backendPaused = c.backendPaused
                /\ [cc EXCEPT !.in = m].readPaused = c.readPaused
                /\ [cc EXCEPT !.in = m].backend = c.backend
      /\ \A m : /\ [cc EXCEPT !.bodyLeft = m].out = c.out
                /\ [cc EXCEPT !.bodyLeft = m].replied = c.replied
                /\ [cc EXCEPT !.bodyLeft = m].state = c.state
                /\ [cc EXCEPT !.bodyLeft = m].backendPaused = c.backendPaused
                /\ [cc EXCEPT !.bodyLeft = m].readPaused = c.readPaused
                /\ [cc EXCEPT !.bodyLeft = m].backend = c.backend
  BY <1>1 DEF ClientSet
<1>5. \/ /\ c.state = "ReadingHead" /\ c' = [cc EXCEPT !.in = cc.in + n]
         /\ Then(<<"process_head", "pump_read">>) /\ b' = b
      \/ c.state = "StreamingUp" /\ ForwardBody(cc, b, n, <<"pump_read">>)
      \/ c.state \in {"Streaming", "Closing"} /\ c' = cc /\ b' = b /\ todo' = todo
  BY Zenon DEF PumpReadData
<1> HIDE DEF n, cc
<1>6. ~AtHead("process_head") /\ ~AtHead("send_response") /\ ~AtHead("send_head")
        /\ \A f \in Keepers : ~AtHead(f)
  BY <1>1 DEF AtHead, Keepers
<1>7. CASE c.state = "ReadingHead" /\ c' = [cc EXCEPT !.in = cc.in + n]
             /\ Then(<<"process_head", "pump_read">>) /\ b' = b
  <2>1. /\ c'.out = c.out /\ c'.replied = c.replied /\ c'.in = c.in + n /\ c'.state = c.state
        /\ c'.backendPaused = c.backendPaused /\ c'.readPaused = c.readPaused
        /\ c'.backend = c.backend
    BY <1>4, <1>7
  <2>2. todo' # <<>> /\ Head(todo') = "process_head"
    BY <1>1, <1>7, DThen2 DEF Functions, HeadOnly
  <2>3. c.in < HeadLen /\ ~b.client /\ ~c.backend
    BY <1>2, <1>6, <1>7 DEF BufferInv, HeadInv, Core, PointerInv, PointersLive
  <2>4. HeadInv'
    BY <1>2, <1>3, <1>7, <2>1, <2>2, <2>3 DEF BufferInv, HeadInv, AtHead
  <2>5. DownInv' /\ UpInv'
    BY <1>7, <2>1, <2>2, <2>3 DEF DownInv, UpInv, AtHead
  <2>6. QED
    BY <1>7, <2>1, <2>4, <2>5 DEF BufferInv, BoundedBuffers
<1>8. CASE c.state = "StreamingUp" /\ ForwardBody(cc, b, n, <<"pump_read">>) /\ ~c.backend
  <2>1. c' = cc /\ b' = b /\ Then(<<"pump_read">>)
    BY <1>4, <1>8 DEF ForwardBody
  <2>2. SameBuffers
    BY <1>4, <2>1, SameSame DEF SameClient, SameBackend
  <2>3. Head(todo') = "pump_read"
    BY <1>1, <2>1, DThen1 DEF Functions
  <2>4. OtherCalls
    BY <1>6, <2>3 DEF OtherCalls
  <2>5. QED
    BY <2>2, <2>4, BufferKept
<1>9. CASE c.state = "StreamingUp" /\ ForwardBody(cc, b, n, <<"pump_read">>) /\ c.backend
  <2> DEFINE take == Take(cc, n)
  <2>1. take \in Nat /\ take <= n
    <3>1. cc.bodyLeft \in Nat
      BY <1>4 DEF ClientSet
    <3>2. QED
      BY <1>3, <3>1, AtMostFacts DEF Take
  <2>2. (\E m : c' = [cc EXCEPT !.bodyLeft = m]) /\ b' = Queued(b, take)
    BY <1>4, <1>9, Zenon DEF ForwardBody
  <2> HIDE DEF take
  <2>3. /\ c'.out = c.out /\ c'.replied = c.replied /\ c'.state = c.state
        /\ c'.backendPaused = c.backendPaused /\ c'.readPaused = c.readPaused
        /\ c'.backend = c.backend
    BY <1>4, <2>2
  <2>4. b'.out = b.out + take /\ b'.client = b.client /\ b'.readPaused = b.readPaused
    BY <1>1, <2>1, <2>2, QueuedFields
  <2>5. b.out <= kBackpressureHigh
    BY <1>1, <1>2, <1>6, <1>9 DEF BufferInv, UpInv, Keepers
  <2>6. b'.out <= kBackpressureHigh + Chunk
    BY <1>2, <1>3, <2>1, <2>4, <2>5
  <2>7. \/ todo' # <<>> /\ Head(todo') = "flush" /\ Tail(todo') # <<>> /\ Head(Tail(todo')) = "forward_body_rest"
        \/ todo' # <<>> /\ Head(todo') = "forward_body_rest"
    <3>1. \/ Then(<<"flush", "forward_body_rest", "pump_read">>)
          \/ Then(<<"forward_body_rest", "pump_read">>)
      BY <1>4, <1>9, ForwardCalls
    <3>2. QED
      BY <1>1, <3>1, ForwardTops
  <2>8. BoundedBuffers'
    BY <2>3, <2>6 DEF BufferInv, BoundedBuffers
  <2>9. HeadInv'
    BY <1>9, <2>3 DEF HeadInv
  <2>10. DownInv'
    BY <1>6, <2>3, <2>4, <2>7 DEF BufferInv, DownInv, AtHead, Keepers
  <2>11. UpInv'
    BY <2>7 DEF UpInv, AtHead, Under
  <2>12. QED
    BY <2>8, <2>9, <2>10, <2>11 DEF BufferInv
<1>10. CASE c.state \in {"Streaming", "Closing"} /\ c' = cc /\ b' = b /\ todo' = todo
  <2>1. SameBuffers /\ OtherCalls
    BY <1>4, <1>10, SameSame DEF SameClient, SameBackend, OtherCalls
  <2>2. QED
    BY <2>1, BufferKept
<1>11. QED
  BY <1>5, <1>7, <1>8, <1>9, <1>10

LEMMA BufferAnswer ==
  ASSUME Core, Core', BufferInv, ResponseInv, ResponseInv',
         SendResponse("send_response", ReplyLen) \/ SendResponse("send_head", 1)
  PROVE  BufferInv'
<1>1. PICK f \in {"send_response", "send_head"}, n \in {ReplyLen, 1} : SendResponse(f, n)
  OBVIOUS
<1>2. n \in Nat /\ n <= ReplyLen /\ Types /\ Discipline /\ c \in ClientSet
  BY <1>1, Sizes, ConstantsAssumption DEF Core, Types
<1>3. /\ todo # <<>> /\ Then(<<"pump_write", "recompute_interest">>) /\ b' = b
      /\ c' = [c EXCEPT !.out = n, !.responded = TRUE, !.replied = TRUE, !.state = "Closing"]
  BY <1>1 DEF SendResponse, Doing
<1>4. c'.out = n /\ c'.replied /\ c'.state = "Closing"
  BY <1>2, <1>3 DEF ClientSet
<1>5. ~c'.backend /\ ~b'.client
  BY <1>4 DEF ResponseInv, Core, PointerInv, PointersLive
<1>6. Head(todo') = "pump_write"
  BY <1>2, <1>3, DThen2 DEF Functions, HeadOnly
<1>7. BoundedBuffers'
  BY <1>2, <1>3, <1>4 DEF BufferInv, BoundedBuffers
<1>8. HeadInv' /\ DownInv' /\ UpInv'
  BY <1>4, <1>5, <1>6 DEF HeadInv, DownInv, UpInv, AtHead
<1>9. QED
  BY <1>7, <1>8 DEF BufferInv

LEMMA BufferWrite ==
  ASSUME Core, Core', BufferInv, PumpWriteBlock \/ PumpWriteError \/ PumpWriteDrained
  PROVE  BufferInv'
<1>1. /\ Doing("pump_write") /\ todo # <<>> /\ AtHead("pump_write") /\ Types /\ Discipline
      /\ c \in ClientSet /\ b \in BackendSet /\ todo \in Seq(Functions)
  BY DEF PumpWriteBlock, PumpWriteError, PumpWriteDrained, Doing, Core, Types, AtHead
<1>2. c.out \in Nat /\ b.out \in Nat /\ kBackpressureHigh \in Nat /\ c.in \in Nat /\ HeadLen \in Nat
  BY Sizes DEF Core, Types, ClientSet, BackendSet
<1>3. /\ \A f \in {"process_head", "send_response", "send_head", "deliver_rest", "forward_body_rest",
                   "flush", "apply_interest", "fail"} : ~AtHead(f)
  BY <1>1 DEF AtHead
<1>4. c.state = "ReadingHead" => c.in < HeadLen
  BY <1>2, <1>3 DEF BufferInv, HeadInv
<1>5. /\ "resume_reads" \in HeadOnly /\ "on_backend_drained" \in HeadOnly
      /\ "pump_write_end" \in Functions /\ "resume_reads" \in Functions /\ "pump_write_end" \notin HeadOnly
  BY DEF HeadOnly, Functions
<1>6. CASE PumpWriteBlock
  <2>1. b' = b /\ Return /\ \E y : c' = [c EXCEPT !.writeBlock = y]
    BY <1>6, Zenon DEF PumpWriteBlock
  <2>2. /\ c'.out = c.out /\ c'.replied = c.replied /\ c'.in = c.in /\ c'.state = c.state
        /\ c'.backendPaused = c.backendPaused /\ c'.readPaused = c.readPaused
        /\ c'.backend = c.backend
    BY <1>1, <2>1 DEF ClientSet
  <2>3. todo' = Tail(todo) /\ (todo' # <<>> => Head(todo') \notin {"resume_reads", "on_backend_drained"})
    BY <1>1, <1>5, <2>1, DReturn DEF Return
  <2>4. HeadInv'
    BY <1>2, <1>4, <2>2 DEF BufferInv, HeadInv
  <2>5. DownInv'
    BY <1>3, <2>1, <2>2, <2>3 DEF BufferInv, DownInv, AtHead, Under
  <2>6. UpInv'
    BY <1>3, <2>1, <2>2, <2>3 DEF BufferInv, UpInv, AtHead
  <2>7. QED
    BY <2>1, <2>2, <2>4, <2>5, <2>6 DEF BufferInv, BoundedBuffers
<1>7. CASE PumpWriteError
  <2>1. CloseBoth(c, b) /\ Return
    BY <1>7 DEF PumpWriteError
  <2>2. /\ c'.out = c.out /\ c'.replied = c.replied /\ c'.in = c.in /\ c'.state = c.state
        /\ c'.backendPaused = c.backendPaused /\ c'.readPaused = c.readPaused /\ c'.closed
        /\ b'.out = b.out
    BY <1>1, <2>1, CloseFields
  <2>3. ~c'.backend /\ ~b'.client
    BY <2>2 DEF Core, PointerInv, PointersLive
  <2>4. todo' # <<>> => Head(todo') \notin {"resume_reads", "on_backend_drained"}
    BY <1>1, <1>5, <2>1, DReturn
  <2>5. HeadInv' /\ DownInv' /\ UpInv'
    BY <1>2, <1>4, <2>2, <2>3, <2>4 DEF BufferInv, HeadInv, DownInv, UpInv, AtHead
  <2>6. QED
    BY <2>2, <2>5 DEF BufferInv, BoundedBuffers
<1>8. CASE PumpWriteDrained
  <2>1. b' = b /\ c.out = 0 /\ (c' = c \/ c' = [c EXCEPT !.backendPaused = FALSE])
    BY <1>8 DEF PumpWriteDrained
  <2>2. /\ c'.out = 0 /\ c'.replied = c.replied /\ c'.in = c.in /\ c'.state = c.state
        /\ (c'.backendPaused => c.backendPaused) /\ c'.readPaused = c.readPaused
        /\ c'.backend = c.backend
    BY <1>1, <2>1 DEF ClientSet
  <2>3. \/ Then(<<"resume_reads", "pump_write_end">>) /\ c' = [c EXCEPT !.backendPaused = FALSE]
        \/ Then(<<"pump_write_end">>)
    BY <1>8 DEF PumpWriteDrained
  <2>4. /\ todo' # <<>> /\ Head(todo') \in {"resume_reads", "pump_write_end"}
        /\ Head(todo') = "resume_reads" => c' = [c EXCEPT !.backendPaused = FALSE]
    BY <1>1, <1>5, <2>3, DThen1, DThen2
  <2>5. Head(todo') = "resume_reads" => ~c'.backendPaused
    BY <1>1, <2>4 DEF ClientSet
  <2>6. ~(c'.out > kBackpressureHigh) /\ c'.out <= c.out
    BY <1>2, <2>1, <2>2
  <2>7. HeadInv'
    BY <1>2, <1>4, <2>2 DEF BufferInv, HeadInv
  <2>8. DownInv'
    BY <2>1, <2>2, <2>4, <2>5, <2>6 DEF BufferInv, DownInv, AtHead
  <2>9. UpInv'
    BY <1>3, <2>1, <2>2, <2>4 DEF BufferInv, UpInv, AtHead
  <2>10. BoundedBuffers'
    BY <2>1, <2>2 DEF BufferInv, BoundedBuffers
  <2>11. QED
    BY <2>7, <2>8, <2>9, <2>10 DEF BufferInv
<1>9. QED
  BY <1>6, <1>7, <1>8

LEMMA DeliverTops ==
  ASSUME Types, todo # <<>>, Then(<<"pump_write", "deliver_rest", "on_readable">>)
  PROVE  /\ todo' # <<>> /\ Head(todo') = "pump_write"
         /\ Tail(todo') # <<>> /\ Head(Tail(todo')) = "deliver_rest"
<1>1. /\ "pump_write" \in Functions /\ "deliver_rest" \in Functions /\ "on_readable" \in Functions
      /\ todo \in Seq(Functions)
  BY DEF Functions, Types
<1>2. /\ todo' # <<>> /\ Head(todo') = "pump_write"
      /\ Tail(todo') = <<"deliver_rest">> \o (<<"on_readable">> \o Tail(todo))
  BY <1>1, Then3
<1> DEFINE s == <<"on_readable">> \o Tail(todo)
<1>3. s \in Seq(Functions)
  BY <1>1, Stack, Push
<1> HIDE DEF s
<1>4. Tail(todo') = <<"deliver_rest">> \o s
  BY <1>2 DEF s
<1>5. QED
  BY <1>1, <1>2, <1>3, <1>4, Push

LEMMA BufferDeliver ==
  ASSUME Core, Core', BufferInv, ResponseInv, ResumeReads \/ BackendReadData \/ DeliverRest
  PROVE  BufferInv'
<1>1. /\ Types /\ Discipline /\ c \in ClientSet /\ b \in BackendSet /\ todo \in Seq(Functions)
  BY DEF Core, Types
<1>2. /\ c.out \in Nat /\ b.out \in Nat /\ kBackpressureHigh \in Nat /\ c.in \in Nat /\ HeadLen \in Nat
      /\ Chunk \in Nat
  BY Sizes DEF Core, Types, ClientSet, BackendSet
<1>3. CASE ResumeReads
  <2>1. /\ AtHead("resume_reads") /\ todo # <<>> /\ c' = c
        /\ b' = b \/ \E y : b' = [[b EXCEPT !.readPaused = FALSE] EXCEPT !.interest = y]
        /\ Then(<<"on_readable">>) \/ Return
    BY <1>3, Zenon DEF ResumeReads, Doing, AtHead, Applied
  <2>2. b'.out = b.out /\ b'.client = b.client
    BY <1>1, <2>1 DEF BackendSet
  <2>3. ~c.backendPaused /\ c.out = 0
    BY <2>1 DEF BufferInv, DownInv
  <2>4. todo' # <<>> => Head(todo') \notin {"resume_reads", "on_backend_drained"}
    <3>1. "resume_reads" \in HeadOnly /\ "on_backend_drained" \in HeadOnly /\ "on_readable" \in Functions
      BY DEF HeadOnly, Functions
    <3>2. QED
      BY <1>1, <2>1, <3>1, DReturn, DThen1
  <2>5. \A f \in Keepers : ~AtHead(f)
    BY <2>1 DEF AtHead, Keepers
  <2>6. HeadInv'
    BY <2>1, <2>5 DEF BufferInv, HeadInv, Keepers
  <2>7. DownInv'
    <3>1. ~c'.backendPaused /\ ~(c'.out > kBackpressureHigh)
      <4>1. c' = c
        BY <1>3 DEF ResumeReads
      <4>2. kBackpressureHigh \in Nat
        BY <1>2
      <4>3. QED
        BY <2>3, <4>1, <4>2
    <3>2. QED
      BY <2>4, <3>1 DEF DownInv, AtHead
  <2>8. UpInv'
    BY <2>1, <2>2, <2>4, <2>5 DEF BufferInv, UpInv, AtHead, Keepers
  <2>9. QED
    BY <2>1, <2>2, <2>6, <2>7, <2>8 DEF BufferInv, BoundedBuffers
<1>4. CASE BackendReadData
  <2>1. /\ AtHead("on_readable") /\ todo # <<>> /\ ~b.readPaused /\ b' = [b EXCEPT !.idle = FALSE]
    BY <1>4 DEF BackendReadData, Doing, AtHead
  <2>2. b.alive
    BY <1>4, Running DEF BackendReadData, BackendFns
  <2>3. b'.out = b.out /\ b'.client = b.client /\ b'.readPaused = b.readPaused
    BY <1>1, <2>1 DEF BackendSet
  <2>4. CASE c' = c /\ todo' = todo
    <3>1. SameBuffers /\ OtherCalls
      BY <2>3, <2>4, SameSame DEF SameClient, SameBackend, OtherCalls
    <3>2. QED
      BY <3>1, BufferKept
  <2>5. CASE b.client /\ ~c.closed
    <3>1. net.backend.rcv \in Nat
      BY Sizes DEF Core, Types, Fds, SocketSet
    <3>2. PICK n \in Nat : n <= Chunk /\ c' = Deliver(c, n)
      BY <1>2, <1>4, <2>5, <3>1, AtMostFacts DEF BackendReadData
    <3>3. PICK m \in Nat : m = c.out + n /\ c' = [c EXCEPT !.out = m, !.responded = TRUE, !.relayed = TRUE]
      <4>1. c.out + n \in Nat
        BY <1>2, <3>2
      <4>2. QED
        BY <3>2, <4>1, Zenon DEF Deliver
    <3>4. /\ c'.out = m /\ c'.replied = c.replied /\ c'.state = c.state
          /\ c'.backendPaused = c.backendPaused /\ c'.readPaused = c.readPaused
          /\ c'.backend = c.backend
      BY <1>1, <3>3 DEF ClientSet
    <3>5. Then(<<"pump_write", "deliver_rest", "on_readable">>)
      BY <1>4, <2>5 DEF BackendReadData, DeliverLoop
    <3>6. todo' # <<>> /\ Head(todo') = "pump_write"
            /\ Tail(todo') # <<>> /\ Head(Tail(todo')) = "deliver_rest"
      BY <1>1, <2>1, <3>5, DeliverTops
    <3>7. c.backend /\ ~c.replied /\ c.state # "ReadingHead"
      BY <2>2, <2>5, Links DEF ResponseInv, Core, PointerInv
    <3>8. c.out <= kBackpressureHigh
      BY <1>2, <2>1, <2>5 DEF BufferInv, DownInv, AtHead
    <3>9. BoundedBuffers'
      BY <1>2, <2>3, <3>2, <3>3, <3>4, <3>7, <3>8 DEF BufferInv, BoundedBuffers
    <3>10. DownInv'
      BY <2>3, <3>4, <3>6 DEF BufferInv, DownInv, AtHead, Under
    <3>11. UpInv'
      BY <2>1, <2>3, <3>4, <3>6 DEF BufferInv, UpInv, AtHead
    <3>12. QED
      BY <3>4, <3>7, <3>9, <3>10, <3>11 DEF BufferInv, HeadInv
  <2>6. QED
    BY <1>4, <2>4, <2>5 DEF BackendReadData
<1>5. CASE DeliverRest
  <2>1. AtHead("deliver_rest") /\ todo # <<>> /\ Return
    BY <1>5 DEF DeliverRest, Doing, AtHead
  <2>2. \A f \in Keepers : f # "deliver_rest" => ~AtHead(f)
    BY <2>1 DEF AtHead
  <2>3. todo' # <<>> => Head(todo') \notin {"resume_reads", "on_backend_drained"}
    <3>1. "resume_reads" \in HeadOnly /\ "on_backend_drained" \in HeadOnly
      BY DEF HeadOnly
    <3>2. QED
      BY <1>1, <2>1, <3>1, DReturn
  <2>4. c.state = "ReadingHead" => c.in < HeadLen
    BY <1>2, <2>2 DEF BufferInv, HeadInv, Keepers
  <2>5. CASE c.closed
    <3>1. c' = c /\ b' = b /\ ~b.client /\ ~c.backend
      BY <1>5, <2>5, Links DEF DeliverRest
    <3>2. HeadInv' /\ DownInv' /\ UpInv'
      BY <1>2, <2>3, <2>4, <3>1 DEF BufferInv, HeadInv, DownInv, UpInv, AtHead
    <3>3. QED
      BY <3>1, <3>2 DEF BufferInv, BoundedBuffers
  <2>6. CASE ~c.closed
    <3> DEFINE pause == c.backend /\ ~c.backendPaused /\ c.out > kBackpressureHigh
    <3>1. /\ b' = IF pause /\ ~b.readPaused THEN Applied(PauseReads(b)) ELSE b
          /\ \E y : c' = [[c EXCEPT !.backendPaused = @ \/ pause] EXCEPT !.interest = y]
      BY <1>5, <2>6, Zenon DEF DeliverRest, SetInterest
    <3>2. PICK p \in BOOLEAN : /\ p = (c.backendPaused \/ pause)
                               /\ \E y : c' = [[c EXCEPT !.backendPaused = p] EXCEPT !.interest = y]
      <4>1. (c.backendPaused \/ pause) \in BOOLEAN
        OBVIOUS
      <4>2. QED
        BY <3>1, <4>1, Zenon
    <3>3. /\ c'.out = c.out /\ c'.replied = c.replied /\ c'.in = c.in /\ c'.state = c.state
          /\ c'.backendPaused = p /\ c'.readPaused = c.readPaused /\ c'.backend = c.backend
      BY <1>1, <3>2 DEF ClientSet
    <3>4. /\ b'.out = b.out /\ b'.client = b.client
          /\ b'.readPaused <=> (b.readPaused \/ pause)
      <4>1. /\ Applied(PauseReads(b)).out = b.out /\ Applied(PauseReads(b)).client = b.client
            /\ Applied(PauseReads(b)).readPaused = TRUE
        BY <1>1 DEF Applied, PauseReads, BackendSet
      <4>2. QED
        BY <3>1, <4>1
    <3>5. p <=> (c.backendPaused \/ pause)
      BY <3>2
    <3>6. pause => c.backend /\ c.out > kBackpressureHigh
      OBVIOUS
    <3>7. c.backend /\ ~c.backendPaused /\ c.out > kBackpressureHigh => pause
      OBVIOUS
    <3>8. b.client => c.backend
      BY Links
    <3> HIDE DEF pause
    <3>9. HeadInv'
      BY <1>2, <2>4, <3>3, <3>5, <3>6 DEF BufferInv, HeadInv, Core, PointerInv
    <3>10. DownInv'
      BY <2>3, <3>3, <3>4, <3>5, <3>7, <3>8 DEF BufferInv, DownInv, AtHead
    <3>11. UpInv'
      BY <2>2, <2>3, <3>3, <3>4 DEF BufferInv, UpInv, AtHead, Keepers
    <3>12. QED
      BY <3>3, <3>4, <3>9, <3>10, <3>11 DEF BufferInv, BoundedBuffers
  <2>7. QED
    BY <2>5, <2>6
<1>6. QED
  BY <1>3, <1>4, <1>5

LEMMA BufferFlush ==
  ASSUME Core, Core', BufferInv, ResponseInv,
         \/ ForwardBodyRest \/ FlushError \/ FlushDone \/ FlushApplyInterest \/ Fail \/ OnBackendDrained
  PROVE  BufferInv'
<1>1. /\ Types /\ Discipline /\ c \in ClientSet /\ b \in BackendSet /\ todo \in Seq(Functions)
  BY DEF Core, Types
<1>2. /\ c.out \in Nat /\ b.out \in Nat /\ kBackpressureHigh \in Nat /\ c.in \in Nat /\ HeadLen \in Nat
      /\ kBackpressureLow \in Nat /\ kBackpressureLow <= kBackpressureHigh
  BY Sizes, ConstantsAssumption DEF Core, Types, ClientSet, BackendSet
<1>3. PICK g \in {"forward_body_rest", "flush", "apply_interest", "fail", "on_backend_drained"} :
        Doing(g)
  BY DEF ForwardBodyRest, FlushError, FlushDone, FlushApplyInterest, Fail, OnBackendDrained
<1>4. /\ todo # <<>> /\ AtHead(g)
      /\ \A f \in {"process_head", "send_response", "send_head", "pump_write", "deliver_rest"} : ~AtHead(f)
  BY <1>3 DEF Doing, AtHead
<1>5. c.state = "ReadingHead" => c.in < HeadLen
  BY <1>2, <1>4 DEF BufferInv, HeadInv
<1>6. b.client /\ ~b.readPaused => ~(c.out > kBackpressureHigh)
  BY <1>4 DEF BufferInv, DownInv
<1>7. /\ "resume_reads" \in HeadOnly /\ "on_backend_drained" \in HeadOnly
      /\ \A f \in {"fail", "apply_interest", "on_backend_drained", "drive", "request_close",
                   "send_response"} : f \in Functions
      /\ "apply_interest" \notin HeadOnly /\ "request_close" \notin HeadOnly
  BY DEF HeadOnly, Functions
<1>8. ASSUME Return PROVE todo' = Tail(todo) /\ (todo' # <<>> => Head(todo') \notin {"resume_reads", "on_backend_drained"})
  BY <1>1, <1>4, <1>7, <1>8, DReturn DEF Return
<1>9. ASSUME NEW f \in Functions, Then(<<f>>)
      PROVE  todo' # <<>> /\ Head(todo') = f /\ Tail(todo') = Tail(todo)
  BY <1>1, <1>4, <1>9, Then1
<1>10. CASE ForwardBodyRest
  <2>1. /\ b' = b
        /\ \/ c' = [c EXCEPT !.state = "Streaming"] /\ Return
           \/ c.backend /\ c' = [c EXCEPT !.readPaused = @ \/ BackedUp(b)] /\ Return
           \/ ~c.backend /\ c' = c /\ todo' = todo
    BY <1>10 DEF ForwardBodyRest
  <2>2. CASE ~c.backend /\ c' = c /\ todo' = todo
    BY <2>1, <2>2 DEF BufferInv, BoundedBuffers, HeadInv, DownInv, UpInv, AtHead, Under
  <2>3. CASE c' = [c EXCEPT !.state = "Streaming"] /\ Return
    <3>1. /\ c'.out = c.out /\ c'.replied = c.replied /\ c'.state = "Streaming"
          /\ c'.backendPaused = c.backendPaused /\ c'.backend = c.backend
      BY <1>1, <2>3 DEF ClientSet
    <3>2. HeadInv' /\ DownInv' /\ UpInv'
      BY <1>6, <1>8, <2>1, <2>3, <3>1 DEF BufferInv, HeadInv, DownInv, UpInv, AtHead
    <3>3. QED
      BY <2>1, <3>1, <3>2 DEF BufferInv, BoundedBuffers
  <2>4. CASE c.backend /\ c' = [c EXCEPT !.readPaused = @ \/ BackedUp(b)] /\ Return
    <3>1. PICK p \in BOOLEAN : p = (c.readPaused \/ BackedUp(b)) /\ c' = [c EXCEPT !.readPaused = p]
      <4>1. (c.readPaused \/ BackedUp(b)) \in BOOLEAN
        OBVIOUS
      <4>2. QED
        BY <2>4, <4>1, Zenon
    <3>2. /\ c'.out = c.out /\ c'.replied = c.replied /\ c'.state = c.state /\ c'.readPaused = p
          /\ c'.backendPaused = c.backendPaused /\ c'.backend = c.backend
      BY <1>1, <3>1 DEF ClientSet
    <3>3. p <=> (c.readPaused \/ b.out > kBackpressureHigh)
      BY <3>1 DEF BackedUp
    <3>4. c.state # "ReadingHead"
      BY <2>4 DEF Core, PointerInv
    <3>5. HeadInv' /\ DownInv' /\ UpInv'
      BY <1>6, <1>8, <2>1, <2>4, <3>2, <3>3, <3>4 DEF BufferInv, HeadInv, DownInv, UpInv, AtHead
    <3>6. QED
      BY <2>1, <3>2, <3>5 DEF BufferInv, BoundedBuffers
  <2>5. QED
    BY <2>1, <2>2, <2>3, <2>4
<1>11. CASE FlushError
  <2>1. c' = c /\ b' = b /\ Then(<<"fail">>) /\ AtHead("flush")
    BY <1>11 DEF FlushError, Doing, AtHead
  <2>2. todo' # <<>> /\ Head(todo') = "fail" /\ Tail(todo') = Tail(todo)
    BY <1>7, <1>9, <2>1
  <2>3. HeadInv' /\ DownInv' /\ UpInv'
    BY <1>2, <1>5, <1>6, <2>1, <2>2 DEF BufferInv, HeadInv, DownInv, UpInv, AtHead, Under
  <2>4. QED
    BY <2>1, <2>3 DEF BufferInv, BoundedBuffers
<1>12. CASE FlushDone
  <2>1. c' = c /\ AtHead("flush") /\ \E h : b' = [b EXCEPT !.highWater = h]
    BY <1>12, Zenon DEF FlushDone, Doing, AtHead
  <2>2. b'.out = b.out /\ b'.client = b.client /\ b'.readPaused = b.readPaused
    BY <1>1, <2>1 DEF BackendSet
  <2>3. CASE Drained(b) /\ b.client /\ Then(<<"on_backend_drained", "apply_interest">>)
    <3>1. todo' # <<>> /\ Head(todo') = "on_backend_drained"
      BY <1>1, <1>4, <1>7, <2>3, DThen2
    <3>2. b.out < kBackpressureLow
      BY <2>3 DEF Drained
    <3>3. ~(b.out > kBackpressureHigh)
      BY <1>2, <3>2
    <3>4. HeadInv' /\ DownInv' /\ UpInv'
      BY <1>2, <1>5, <1>6, <2>1, <2>2, <3>1, <3>2, <3>3 DEF BufferInv, HeadInv, DownInv, UpInv, AtHead
    <3>5. QED
      BY <2>1, <2>2, <3>4 DEF BufferInv, BoundedBuffers
  <2>4. CASE Then(<<"apply_interest">>)
    <3>1. todo' # <<>> /\ Head(todo') = "apply_interest" /\ Tail(todo') = Tail(todo)
      BY <1>7, <1>9, <2>4
    <3>2. HeadInv' /\ DownInv' /\ UpInv'
      BY <1>2, <1>5, <1>6, <2>1, <2>2, <3>1 DEF BufferInv, HeadInv, DownInv, UpInv, AtHead, Under
    <3>3. QED
      BY <2>1, <2>2, <3>2 DEF BufferInv, BoundedBuffers
  <2>5. QED
    BY <1>12, <2>3, <2>4, FlushCalls
<1>13. CASE FlushApplyInterest
  <2>1. c' = c /\ AtHead("apply_interest") /\ Return /\ \E y : b' = [b EXCEPT !.interest = y]
    BY <1>13, Zenon DEF FlushApplyInterest, Doing, AtHead, Applied
  <2>2. b'.out = b.out /\ b'.client = b.client /\ b'.readPaused = b.readPaused
    BY <1>1, <2>1 DEF BackendSet
  <2>3. HeadInv' /\ DownInv' /\ UpInv'
    BY <1>2, <1>5, <1>6, <1>8, <2>1, <2>2 DEF BufferInv, HeadInv, DownInv, UpInv, AtHead, Under
  <2>4. QED
    BY <2>1, <2>2, <2>3 DEF BufferInv, BoundedBuffers
<1>14. CASE Fail
  <2> DEFINE cc == [c EXCEPT !.backend = FALSE]
  <2>1. /\ cc \in ClientSet /\ DetachClient(b) \in BackendSet /\ cc.out = c.out /\ cc.replied = c.replied
        /\ cc.in = c.in /\ cc.state = c.state /\ cc.backendPaused = c.backendPaused
        /\ cc.readPaused = c.readPaused /\ ~cc.backend /\ DetachClient(b).out = b.out
        /\ ~DetachClient(b).client
    BY <1>1 DEF ClientSet, DetachClient, BackendSet
  <2>2. \/ ~b.client /\ c' = c /\ b' = b /\ Then(<<"request_close">>)
        \/ CloseBoth(cc, DetachClient(b)) /\ Then(<<"request_close">>)
        \/ c' = cc /\ b' = DetachClient(b) /\ Then(<<"send_response", "request_close">>)
    BY <1>14 DEF Fail, OnBackendError
  <2>3. ~b.client => ~c.backend
    <3>1. AtHead("fail")
      BY <1>14 DEF Fail, Doing, AtHead
    <3>2. QED
      BY <3>1 DEF Core, PointerInv, PointersLive, AtHead
  <2> HIDE DEF cc
  <2>4. /\ c'.out = c.out /\ c'.replied = c.replied /\ c'.in = c.in /\ c'.state = c.state
        /\ c'.backendPaused = c.backendPaused /\ c'.readPaused = c.readPaused
        /\ ~c'.backend /\ ~b'.client /\ b'.out = b.out
    BY <2>1, <2>2, <2>3, CloseFields
  <2>5. todo' # <<>> => Head(todo') \notin {"resume_reads", "on_backend_drained"}
    BY <1>1, <1>4, <1>7, <2>2, DThen1, DThen2
  <2>6. HeadInv' /\ DownInv' /\ UpInv'
    BY <1>2, <1>5, <2>4, <2>5 DEF BufferInv, HeadInv, DownInv, UpInv, AtHead
  <2>7. QED
    BY <2>4, <2>6 DEF BufferInv, BoundedBuffers
<1>15. CASE OnBackendDrained
  <2>1. /\ b' = b /\ AtHead("on_backend_drained") /\ (c' = c \/ c' = [c EXCEPT !.readPaused = FALSE])
        /\ Return \/ Then(<<"drive">>)
    BY <1>15 DEF OnBackendDrained, Doing, AtHead
  <2>2. /\ c'.out = c.out /\ c'.replied = c.replied /\ c'.in = c.in /\ c'.state = c.state
        /\ c'.backendPaused = c.backendPaused /\ (c'.readPaused => c.readPaused)
        /\ c'.backend = c.backend
    BY <1>1, <2>1 DEF ClientSet
  <2>3. ~(b.out > kBackpressureHigh)
    BY <1>2, <2>1 DEF BufferInv, UpInv
  <2>4. todo' # <<>> => Head(todo') \notin {"resume_reads", "on_backend_drained"}
    BY <1>7, <1>8, <1>9, <2>1
  <2>5. HeadInv' /\ DownInv' /\ UpInv'
    BY <1>2, <1>5, <1>6, <2>1, <2>2, <2>3, <2>4 DEF BufferInv, HeadInv, DownInv, UpInv, AtHead
  <2>6. QED
    BY <2>1, <2>2, <2>5 DEF BufferInv, BoundedBuffers
<1>16. QED
  BY <1>10, <1>11, <1>12, <1>13, <1>14, <1>15

LEMMA BufferNext == ASSUME Core, ResponseInv, BufferInv, [Next]_vars PROVE BufferInv'
<1>1. Core' /\ ResponseInv'
  BY CoreNext, ResponseNext
<1>2. CASE \/ Drive \/ DriveWrite \/ RecomputeInterest \/ PumpReadStop \/ PumpReadBlock
           \/ PumpReadEof \/ PumpReadError \/ PumpWriteSome \/ PumpWriteEnd \/ OnErrorClient
           \/ TimeoutClient
  BY <1>1, <1>2, BuffersClient, BufferKept
<1>3. CASE \/ BackendReadStop \/ BackendReadEof \/ BackendReadError \/ OnBackendClosed \/ RequestClose
           \/ OnWritable \/ FlushSome \/ TimeoutBackend
  BY <1>1, <1>3, BuffersBackend, BufferKept
<1>4. CASE EpollWait \/ Dispatch \/ Env \/ TimePasses \/ ProcessPendingClose
  BY <1>1, <1>4, BuffersLoop, BufferKept
<1>5. CASE \/ ProcessHeadIncomplete \/ ProcessHeadReject \/ HandleInternal \/ StartBackendFails
           \/ ProcessHeadForward \/ PumpReadData
           \/ SendResponse("send_response", ReplyLen) \/ SendResponse("send_head", 1)
  BY <1>1, <1>5, BufferHead, BufferRead, BufferAnswer
<1>6. CASE \/ PumpWriteBlock \/ PumpWriteError \/ PumpWriteDrained \/ ResumeReads \/ BackendReadData
           \/ DeliverRest
  BY <1>1, <1>6, BufferWrite, BufferDeliver
<1>7. CASE \/ ForwardBodyRest \/ FlushError \/ FlushDone \/ FlushApplyInterest \/ Fail \/ OnBackendDrained
  BY <1>1, <1>7, BufferFlush
<1>8. CASE Finished \/ UNCHANGED vars
  <2>1. c' = c /\ b' = b /\ todo' = todo
    BY <1>8 DEF Finished, vars
  <2>2. QED
    BY <2>1 DEF BufferInv, BoundedBuffers, HeadInv, DownInv, UpInv, AtHead, Under
<1>9. QED
  BY <1>2, <1>3, <1>4, <1>5, <1>6, <1>7, <1>8 DEF Next, LoopStep

LEMMA BufferInvariant == Spec => [](Core /\ ResponseInv /\ BufferInv)
<1>1. Init => Core /\ ResponseInv /\ BufferInv
  BY CoreInit, ResponseInit, BufferInit
<1>2. (Core /\ ResponseInv /\ BufferInv) /\ [Next]_vars => (Core /\ ResponseInv /\ BufferInv)'
  BY CoreNext, ResponseNext, BufferNext
<1>3. QED
  BY <1>1, <1>2, PTL DEF Spec

(* Neither buffer grows beyond the high-water mark by more than one read,  *)
(* for any marks, chunk and socket sizes and however slow the peers are.   *)
THEOREM BuffersStayBounded == Spec => []BoundedBuffers
<1>1. BufferInv => BoundedBuffers
  BY DEF BufferInv
<1>2. QED
  BY <1>1, BufferInvariant, PTL
=============================================================================
