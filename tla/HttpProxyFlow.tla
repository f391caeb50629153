---------------------------- MODULE HttpProxyFlow ---------------------------
(***************************************************************************)
(* More theorems about HttpProxy: what lets the two sides of a request go  *)
(* on.  Every pause has someone who will end it, and no readiness is lost. *)
(***************************************************************************)
EXTENDS HttpProxyProofs

-----------------------------------------------------------------------------
(* The functions above a call of q on the stack: those it waits for.       *)

Above(t, q) == {t[i] : i \in {k \in 1 .. Len(t) : \E j \in k + 1 .. Len(t) : t[j] = q}}

LEMMA AboveTail ==
  ASSUME NEW t \in Seq(Functions), t # <<>>, NEW q
  PROVE  /\ Above(Tail(t), q) \subseteq Above(t, q)
         /\ q \in Deeper(t) => Head(t) \in Above(t, q)
         /\ q \notin Deeper(t) => Above(t, q) = {}
<1>1. /\ Len(t) \in Nat /\ Len(t) > 0 /\ Tail(t) \in Seq(Functions)
      /\ Len(Tail(t)) = Len(t) - 1
      /\ \A i \in 1 .. Len(t) - 1 : Tail(t)[i] = t[i + 1]
      /\ Head(t) = t[1]
  OBVIOUS
<1>2. ASSUME NEW f \in Above(Tail(t), q) PROVE f \in Above(t, q)
  <2>1. PICK i \in 1 .. Len(Tail(t)) :
          /\ f = Tail(t)[i] /\ \E j \in i + 1 .. Len(Tail(t)) : Tail(t)[j] = q
    BY DEF Above
  <2>2. PICK j \in i + 1 .. Len(Tail(t)) : Tail(t)[j] = q
    BY <2>1
  <2>3. /\ i + 1 \in 1 .. Len(t) /\ f = t[i + 1]
        /\ j + 1 \in (i + 1) + 1 .. Len(t) /\ t[j + 1] = q
    BY <1>1, <2>1, <2>2
  <2>4. QED
    BY <2>3 DEF Above
<1>3. ASSUME q \in Deeper(t) PROVE Head(t) \in Above(t, q)
  <2>1. PICK j \in 2 .. Len(t) : t[j] = q
    BY <1>3 DEF Deeper
  <2>2. 1 \in 1 .. Len(t) /\ j \in 1 + 1 .. Len(t)
    BY <1>1, <2>1
  <2>3. QED
    BY <1>1, <2>1, <2>2 DEF Above
<1>4. ASSUME q \notin Deeper(t), NEW f \in Above(t, q) PROVE FALSE
  <2>1. PICK i \in 1 .. Len(t) : \E j \in i + 1 .. Len(t) : t[j] = q
    BY <1>4 DEF Above
  <2>2. PICK j \in i + 1 .. Len(t) : t[j] = q
    BY <2>1
  <2>3. j \in 2 .. Len(t)
    BY <1>1, <2>1, <2>2
  <2>4. QED
    BY <1>4, <2>2, <2>3 DEF Deeper
<1>5. QED
  BY <1>2, <1>3, <1>4

LEMMA AbovePush ==
  ASSUME NEW s \in Seq(Functions), NEW f \in Functions, NEW q
  PROVE  Above(<<f>> \o s, q) \subseteq {f} \cup Above(s, q)
<1> DEFINE t == <<f>> \o s
<1>1. /\ t \in Seq(Functions) /\ Len(t) = Len(s) + 1 /\ Len(s) \in Nat
      /\ t[1] = f /\ \A i \in 1 .. Len(s) : t[i + 1] = s[i]
  OBVIOUS
<1> HIDE DEF t
<1>2. ASSUME NEW g \in Above(t, q), g # f PROVE g \in Above(s, q)
  <2>1. PICK i \in 1 .. Len(t) :
          g = t[i] /\ \E j \in i + 1 .. Len(t) : t[j] = q
    BY DEF Above
  <2>2. PICK j \in i + 1 .. Len(t) : t[j] = q
    BY <2>1
  <2>3. i # 1
    BY <1>1, <1>2, <2>1
  <2>4. i - 1 \in 1 .. Len(s) /\ j - 1 \in (i - 1) + 1 .. Len(s) /\ j - 1 \in 1 .. Len(s)
    BY <1>1, <2>1, <2>2, <2>3
  <2>5. (i - 1) + 1 = i /\ (j - 1) + 1 = j
    BY <2>1, <2>2
  <2>6. g = s[i - 1] /\ s[j - 1] = q
    BY <1>1, <2>1, <2>2, <2>4, <2>5
  <2>7. QED
    BY <2>4, <2>6 DEF Above
<1>3. QED
  BY <1>2 DEF t

\* The running function returns, or is replaced by the calls in the set new.
Pushed(new) ==
  /\ \A q : Above(todo', q) \subseteq Above(todo, q) \cup new
  /\ Calls(todo') = Deeper(todo) \cup new

LEMMA PReturn == ASSUME Types, todo # <<>>, Return PROVE Pushed({})
<1>1. todo \in Seq(Functions) /\ todo' = Tail(todo)
  BY DEF Types, Return
<1>2. QED
  BY <1>1, Stack, AboveTail DEF Pushed

LEMMA PThen1 ==
  ASSUME Types, todo # <<>>, NEW f \in Functions, Then(<<f>>)
  PROVE  Pushed({f})
<1>1. todo \in Seq(Functions) /\ todo' = <<f>> \o Tail(todo) /\ Tail(todo) \in Seq(Functions)
  BY Stack DEF Types, Then
<1>2. ASSUME NEW q PROVE Above(todo', q) \subseteq Above(todo, q) \cup {f}
  <2>1. Above(todo', q) \subseteq {f} \cup Above(Tail(todo), q)
    BY <1>1, AbovePush
  <2>2. Above(Tail(todo), q) \subseteq Above(todo, q)
    BY <1>1, AboveTail
  <2>3. QED
    BY <2>1, <2>2
<1>3. Calls(todo') = {f} \cup Deeper(todo)
  BY <1>1, Then1
<1>4. QED
  BY <1>2, <1>3 DEF Pushed

LEMMA PThen2 ==
  ASSUME Types, todo # <<>>, NEW f \in Functions, NEW g \in Functions, Then(<<f, g>>)
  PROVE  Pushed({f, g})
<1>1. todo \in Seq(Functions) /\ Tail(todo) \in Seq(Functions)
  BY Stack DEF Types
<1> DEFINE s == <<g>> \o Tail(todo)
<1>2. todo' = <<f>> \o s
  BY <1>1, PushTwo DEF Then
<1>3. s \in Seq(Functions) /\ \A q : Above(s, q) \subseteq {g} \cup Above(Tail(todo), q)
  BY <1>1, Push, AbovePush
<1> HIDE DEF s
<1>4. ASSUME NEW q PROVE Above(todo', q) \subseteq Above(todo, q) \cup {f, g}
  <2>1. Above(todo', q) \subseteq {f} \cup Above(s, q)
    BY <1>2, <1>3, AbovePush
  <2>2. Above(Tail(todo), q) \subseteq Above(todo, q)
    BY <1>1, AboveTail
  <2>3. QED
    BY <1>3, <2>1, <2>2
<1>5. Calls(todo') = {f, g} \cup Deeper(todo)
  BY <1>1, Then2
<1>6. QED
  BY <1>4, <1>5 DEF Pushed

LEMMA PThen3 ==
  ASSUME Types, todo # <<>>, NEW f \in Functions, NEW g \in Functions, NEW h \in Functions,
         Then(<<f, g, h>>)
  PROVE  Pushed({f, g, h})
<1>1. todo \in Seq(Functions) /\ Tail(todo) \in Seq(Functions)
  BY Stack DEF Types
<1> DEFINE s == <<h>> \o Tail(todo)
           u == <<g>> \o s
<1>2. todo' = <<f>> \o u
  <2>1. todo' = <<f>> \o (<<g, h>> \o Tail(todo))
    BY <1>1, PushThree DEF Then
  <2>2. <<g, h>> \o Tail(todo) = u
    BY <1>1, PushTwo
  <2>3. QED
    BY <2>1, <2>2
<1>3. s \in Seq(Functions) /\ \A q : Above(s, q) \subseteq {h} \cup Above(Tail(todo), q)
  BY <1>1, Push, AbovePush
<1> HIDE DEF s
<1>4. u \in Seq(Functions) /\ \A q : Above(u, q) \subseteq {g} \cup Above(s, q)
  BY <1>3, Push, AbovePush
<1> HIDE DEF u
<1>5. ASSUME NEW q PROVE Above(todo', q) \subseteq Above(todo, q) \cup {f, g, h}
  <2>1. Above(todo', q) \subseteq {f} \cup Above(u, q)
    BY <1>2, <1>4, AbovePush
  <2>2. Above(Tail(todo), q) \subseteq Above(todo, q)
    BY <1>1, AboveTail
  <2>3. Above(u, q) \subseteq {g, h} \cup Above(Tail(todo), q)
    BY <1>3, <1>4
  <2>4. QED
    BY <2>1, <2>2, <2>3
<1>6. Calls(todo') = {f, g, h} \cup Deeper(todo)
  BY <1>1, Then3
<1>7. QED
  BY <1>5, <1>6 DEF Pushed

-----------------------------------------------------------------------------
(* What runs inside forward_body: the functions its send has called.       *)

\* What send can call: flush, its notice, and a failure with its answer.
AboveForward ==
  {"flush", "apply_interest", "on_backend_drained", "fail", "send_response",
   "pump_write", "pump_write_end", "recompute_interest", "request_close"}

\* The part of it that runs when the backend is lost.
Answering ==
  {"send_response", "pump_write", "pump_write_end", "recompute_interest", "request_close"}

(* forward_body never runs inside itself, and its client is not paused:    *)
(* only its last lines pause it.                                           *)
ForwardInv ==
  /\ Above(todo, "forward_body_rest") \subseteq AboveForward
  /\ c.backend => Above(todo, "forward_body_rest") \cap Answering = {}
  /\ "forward_body_rest" \in Calls(todo) => ~c.readPaused

LEMMA ForwardInit == Init => ForwardInv
<1>1. ASSUME Init PROVE Above(todo, "forward_body_rest") = {} /\ Calls(todo) = {}
  BY <1>1 DEF Init, Above, Calls
<1>2. QED
  BY <1>1 DEF ForwardInv

\* What is known of the function that runs.
LEMMA Inside ==
  ASSUME Types, ForwardInv, todo # <<>>, "forward_body_rest" \in Deeper(todo)
  PROVE  /\ Head(todo) \in AboveForward /\ ~c.readPaused
         /\ c.backend => Head(todo) \notin Answering
<1>1. todo \in Seq(Functions)
  BY DEF Types
<1>2. Head(todo) \in Above(todo, "forward_body_rest") /\ "forward_body_rest" \in Calls(todo)
  BY <1>1, AboveTail, Stack
<1>3. QED
  BY <1>2 DEF ForwardInv

\* A step inside or outside a forward_body.
LEMMA ForwardStep ==
  ASSUME Core, Types', ForwardInv, todo # <<>>, NEW new, Pushed(new), "forward_body_rest" \notin new,
         "forward_body_rest" \in Deeper(todo) =>
           /\ new \subseteq AboveForward
           /\ c'.backend => c.backend /\ new \cap Answering = {}
           /\ c'.readPaused => c.readPaused
  PROVE  ForwardInv'
<1>1. todo \in Seq(Functions) /\ todo' \in Seq(Functions) /\ Types
  BY DEF Core, Types
<1>2. CASE "forward_body_rest" \in Deeper(todo)
  <2>1. Above(todo', "forward_body_rest") \subseteq AboveForward
    BY <1>2 DEF ForwardInv, Pushed
  <2>2. c'.backend => Above(todo', "forward_body_rest") \cap Answering = {}
    BY <1>2 DEF ForwardInv, Pushed
  <2>3. ~c'.readPaused
    BY <1>1, <1>2, Inside
  <2>4. QED
    BY <2>1, <2>2, <2>3 DEF ForwardInv
<1>3. CASE "forward_body_rest" \notin Deeper(todo)
  <2>1. "forward_body_rest" \notin Calls(todo')
    BY <1>3 DEF Pushed
  <2>2. Above(todo', "forward_body_rest") = {}
    <3>1. CASE todo' = <<>>
      BY <3>1 DEF Above
    <3>2. CASE todo' # <<>>
      <4> DEFINE t == todo'
      <4>1. t \in Seq(Functions) /\ t # <<>> /\ "forward_body_rest" \notin Calls(t)
        BY <1>1, <2>1, <3>2
      <4> HIDE DEF t
      <4>2. "forward_body_rest" \notin Deeper(t)
        BY <4>1, Stack
      <4>3. Above(t, "forward_body_rest") = {}
        BY <4>1, <4>2, AboveTail
      <4>4. QED
        BY <4>3 DEF t
    <3>3. QED
      BY <3>1, <3>2
  <2>3. QED
    BY <2>1, <2>2 DEF ForwardInv
<1>4. QED
  BY <1>2, <1>3

\* A step that leaves the stack alone.
LEMMA ForwardKept ==
  ASSUME ForwardInv, todo' = todo, c'.backend => c.backend, c'.readPaused => c.readPaused
  PROVE  ForwardInv'
  BY DEF ForwardInv

\* A function that send never calls replaces itself by anything but a forward.
LEMMA ForwardOutside ==
  ASSUME Core, Types', ForwardInv, NEW f, Doing(f), f \notin AboveForward,
         NEW new, Pushed(new), "forward_body_rest" \notin new
  PROVE  ForwardInv'
<1>1. todo # <<>> /\ Head(todo) = f /\ Types
  BY DEF Doing, Core
<1>2. "forward_body_rest" \notin Deeper(todo)
  BY <1>1, Inside
<1>3. QED
  BY <1>1, <1>2, ForwardStep

\* Functions that do not run inside a forward_body.
LEMMA ForwardOther ==
  ASSUME Core, Types', ForwardInv,
         \/ Drive \/ DriveWrite \/ PumpReadStop \/ PumpReadBlock \/ PumpReadEof \/ PumpReadError
         \/ ProcessHeadIncomplete \/ ProcessHeadReject \/ HandleInternal \/ StartBackendFails
         \/ SendResponse("send_head", 1) \/ OnErrorClient \/ TimeoutClient \/ TimeoutBackend
         \/ ResumeReads \/ DeliverRest \/ BackendReadStop \/ BackendReadEof \/ BackendReadError
         \/ OnBackendClosed \/ OnWritable
  PROVE  ForwardInv'
<1>1. Types
  BY DEF Core
<1>2. ASSUME NEW f, Doing(f), f \notin AboveForward, Return PROVE ForwardInv'
  <2>1. todo # <<>>
    BY <1>2 DEF Doing
  <2>2. Pushed({})
    BY <1>1, <1>2, <2>1, PReturn
  <2>3. QED
    BY <1>2, <2>2, ForwardOutside
<1>3. ASSUME NEW f, Doing(f), f \notin AboveForward,
             NEW g \in Functions, g # "forward_body_rest", Then(<<g>>)
      PROVE  ForwardInv'
  <2>1. todo # <<>>
    BY <1>3 DEF Doing
  <2>2. Pushed({g})
    BY <1>1, <1>3, <2>1, PThen1
  <2>3. QED
    BY <1>3, <2>2, ForwardOutside
<1>4. ASSUME NEW f, Doing(f), f \notin AboveForward,
             NEW g \in Functions, NEW h \in Functions, g # "forward_body_rest",
             h # "forward_body_rest", Then(<<g, h>>)
      PROVE  ForwardInv'
  <2>1. todo # <<>>
    BY <1>4 DEF Doing
  <2>2. Pushed({g, h}) /\ "forward_body_rest" \notin {g, h}
    BY <1>1, <1>4, <2>1, PThen2
  <2>3. QED
    BY <1>4, <2>2, ForwardOutside
<1>5. \A f \in {"drive", "drive_write", "pump_read", "process_head", "send_head", "on_error_client",
                "timeout_client", "timeout_backend", "resume_reads", "deliver_rest", "on_readable",
                "on_backend_closed", "on_writable"} : f \notin AboveForward
  BY DEF AboveForward
<1>6. \A g \in {"pump_read", "drive_write", "pump_write", "recompute_interest", "send_response",
                "send_head", "fail", "on_readable", "request_close", "on_backend_closed", "flush"} :
        g \in Functions /\ g # "forward_body_rest"
  BY DEF Functions
<1>7. CASE \/ Drive \/ DriveWrite \/ PumpReadStop \/ PumpReadBlock \/ PumpReadEof \/ PumpReadError
  BY <1>2, <1>4, <1>5, <1>6, <1>7
     DEF Drive, DriveWrite, PumpReadStop, PumpReadBlock, PumpReadEof, PumpReadError, Receiving
<1>8. CASE \/ ProcessHeadIncomplete \/ ProcessHeadReject \/ HandleInternal \/ StartBackendFails
           \/ SendResponse("send_head", 1) \/ OnErrorClient \/ TimeoutClient \/ TimeoutBackend
  BY <1>2, <1>3, <1>4, <1>5, <1>6, <1>8
     DEF ProcessHeadIncomplete, ProcessHeadReject, HandleInternal, StartBackendFails,
         SendResponse, OnErrorClient, TimeoutClient, TimeoutBackend
<1>9. CASE \/ ResumeReads \/ DeliverRest \/ BackendReadStop \/ BackendReadEof \/ BackendReadError
           \/ OnBackendClosed \/ OnWritable
  BY <1>2, <1>3, <1>4, <1>5, <1>6, <1>9
     DEF ResumeReads, DeliverRest, BackendReadStop, BackendReadEof, BackendReadError,
         OnBackendClosed, OnWritable
<1>10. QED
  BY <1>7, <1>8, <1>9

\* forward_body begins, and ends.
LEMMA ForwardBegins ==
  ASSUME Core, Types', ForwardInv, BufferInv, PumpReadData \/ ProcessHeadForward \/ ForwardBodyRest
         \/ BackendReadData
  PROVE  ForwardInv'
<1>1. Types /\ todo \in Seq(Functions) /\ todo' \in Seq(Functions) /\ c \in ClientSet
  BY DEF Core, Types
<1>2. "forward_body_rest" \in Functions /\ "flush" \in Functions /\ "pump_read" \in Functions
       /\ "process_head" \in Functions /\ "pump_write" \in Functions /\ "deliver_rest" \in Functions
       /\ "on_readable" \in Functions /\ "pump_read" \notin AboveForward
       /\ "process_head" \notin AboveForward /\ "forward_body_rest" \notin AboveForward
       /\ "on_readable" \notin AboveForward /\ "flush" \in AboveForward /\ "flush" \notin Answering
  BY DEF Functions, AboveForward, Answering
<1>3. ASSUME NEW f, Doing(f), f \notin AboveForward
      PROVE  /\ todo # <<>> /\ "forward_body_rest" \notin Deeper(todo)
             /\ Tail(todo) \in Seq(Functions) /\ Above(Tail(todo), "forward_body_rest") = {}
  <2>1. todo # <<>> /\ Head(todo) = f
    BY <1>3 DEF Doing
  <2>2. "forward_body_rest" \notin Deeper(todo)
    BY <1>1, <1>3, <2>1, Inside
  <2>3. QED
    BY <1>1, <2>1, <2>2, Stack, AboveTail
<1>4. CASE PumpReadData
  <2>1. Doing("pump_read") /\ ~c.readPaused
    BY <1>4 DEF PumpReadData, Receiving
  <2>2. todo # <<>> /\ "forward_body_rest" \notin Deeper(todo) /\ Tail(todo) \in Seq(Functions)
         /\ Above(Tail(todo), "forward_body_rest") = {}
    BY <1>2, <1>3, <2>1
  <2> DEFINE n == AtMost(net.client.rcv, Chunk)
             cc == [c EXCEPT !.idle = FALSE]
  <2>3. \/ Then(<<"process_head", "pump_read">>)
        \/ c.state = "StreamingUp" /\ ForwardBody(cc, b, n, <<"pump_read">>)
        \/ c' = cc /\ todo' = todo
    BY <1>4, Zenon DEF PumpReadData
  <2>4. /\ cc.readPaused = c.readPaused /\ cc.backend = c.backend
        /\ \A m : [cc EXCEPT !.bodyLeft = m].readPaused = c.readPaused
    BY <1>1 DEF ClientSet
  <2> HIDE DEF n, cc
  <2>5. CASE Then(<<"process_head", "pump_read">>)
    <3>1. Pushed({"process_head", "pump_read"})
      BY <1>1, <1>2, <2>2, <2>5, PThen2
    <3>2. QED
      BY <1>2, <2>1, <3>1, ForwardOutside
  <2>6. CASE c' = cc /\ todo' = todo
    BY <2>4, <2>6, ForwardKept
  <2>7. CASE ForwardBody(cc, b, n, <<"pump_read">>) /\ ~cc.backend
    <3>1. Then(<<"pump_read">>)
      BY <2>7 DEF ForwardBody
    <3>2. Pushed({"pump_read"})
      BY <1>1, <1>2, <2>2, <3>1, PThen1
    <3>3. QED
      BY <1>2, <2>1, <3>2, ForwardOutside
  <2>8. CASE ForwardBody(cc, b, n, <<"pump_read">>) /\ cc.backend
    <3>1. \E m : c' = [cc EXCEPT !.bodyLeft = m]
      BY <2>8, Zenon DEF ForwardBody
    <3>2. ~c'.readPaused
      BY <2>1, <2>4, <3>1
    <3> DEFINE s == <<"pump_read">> \o Tail(todo)
               u == <<"forward_body_rest">> \o s
    <3>3. todo' = u \/ todo' = <<"flush">> \o u
      <4>1. \/ Then(<<"flush", "forward_body_rest", "pump_read">>)
            \/ Then(<<"forward_body_rest", "pump_read">>)
        BY <2>8, ForwardCalls
      <4>2. <<"forward_body_rest", "pump_read">> \o Tail(todo) = u
        BY <1>2, <2>2, PushTwo
      <4>3. <<"flush", "forward_body_rest", "pump_read">> \o Tail(todo)
              = <<"flush">> \o (<<"forward_body_rest", "pump_read">> \o Tail(todo))
        <5>1. /\ "flush" \in Functions /\ "forward_body_rest" \in Functions
              /\ "pump_read" \in Functions /\ Tail(todo) \in Seq(Functions)
          BY <1>2, <2>2
        <5>2. QED
          BY <5>1, PushThree, Zenon
      <4>4. QED
        BY <4>1, <4>2, <4>3, Zenon DEF Then
    <3>4. /\ s \in Seq(Functions) /\ Deeper(s) = Calls(Tail(todo)) /\ s # <<>>
          /\ Calls(s) = {"pump_read"} \cup Calls(Tail(todo)) /\ Calls(Tail(todo)) = Deeper(todo)
      BY <1>1, <1>2, <2>2, Push, Stack
    <3> HIDE DEF s
    <3>5. u \in Seq(Functions) /\ u # <<>> /\ Deeper(u) = Calls(s)
      BY <1>2, <3>4, Push
    <3> HIDE DEF u
    <3>6. "forward_body_rest" \notin Deeper(u)
      BY <2>2, <3>4, <3>5
    <3>7. Above(u, "forward_body_rest") = {}
      BY <3>5, <3>6, AboveTail
    <3>8. Above(todo', "forward_body_rest") \subseteq {"flush"}
      BY <1>2, <3>3, <3>5, <3>7, AbovePush
    <3>9. QED
      BY <1>2, <3>2, <3>8 DEF ForwardInv
  <2>9. QED
    BY <2>3, <2>5, <2>6, <2>7, <2>8
<1>5. CASE ProcessHeadForward
  <2>1. Doing("process_head") /\ AtHead("process_head")
    BY <1>5 DEF ProcessHeadForward, Doing, AtHead
  <2>2. todo # <<>> /\ "forward_body_rest" \notin Deeper(todo) /\ Tail(todo) \in Seq(Functions)
    BY <1>2, <1>3, <2>1
  <2>3. c.state = "ReadingHead"
    BY <2>1 DEF Core, PointerInv
  <2>4. ~c.readPaused /\ c'.readPaused = c.readPaused
    BY <1>5, <2>3, HeadForwarded DEF BufferInv, HeadInv
  <2>5. Return \/ Then(<<"forward_body_rest">>)
    BY <1>5, HeadForwarded
  <2>6. Above(todo', "forward_body_rest") = {}
    <3>1. CASE Return
      BY <1>2, <1>3, <2>1, <3>1 DEF Return
    <3>2. CASE Then(<<"forward_body_rest">>)
      <4> DEFINE t == todo'
      <4>1. t \in Seq(Functions) /\ t # <<>> /\ Deeper(t) = Deeper(todo)
        BY <1>1, <1>2, <2>2, <3>2, Then1
      <4> HIDE DEF t
      <4>2. Above(t, "forward_body_rest") = {}
        BY <2>2, <4>1, AboveTail
      <4>3. QED
        BY <4>2 DEF t
    <3>3. QED
      BY <2>5, <3>1, <3>2
  <2>7. QED
    BY <2>4, <2>6 DEF ForwardInv
<1>6. CASE ForwardBodyRest
  <2>1. Doing("forward_body_rest") /\ (Return \/ (c' = c /\ todo' = todo))
    BY <1>6 DEF ForwardBodyRest
  <2>2. CASE Return
    <3>1. Pushed({})
      BY <1>1, <1>2, <1>3, <2>1, <2>2, PReturn
    <3>2. QED
      BY <1>2, <2>1, <3>1, ForwardOutside
  <2>3. CASE c' = c /\ todo' = todo
    BY <2>3, ForwardKept
  <2>4. QED
    BY <2>1, <2>2, <2>3
<1>7. CASE BackendReadData
  <2>1. /\ Doing("on_readable")
        /\ \/ Then(<<"pump_write", "deliver_rest", "on_readable">>)
           \/ c' = c /\ todo' = todo
    BY <1>7 DEF BackendReadData, DeliverLoop
  <2>2. CASE Then(<<"pump_write", "deliver_rest", "on_readable">>)
    <3>1. Pushed({"pump_write", "deliver_rest", "on_readable"})
      BY <1>1, <1>2, <1>3, <2>1, <2>2, PThen3
    <3>2. QED
      BY <1>2, <2>1, <3>1, ForwardOutside
  <2>3. CASE c' = c /\ todo' = todo
    BY <2>3, ForwardKept
  <2>4. QED
    BY <2>1, <2>2, <2>3
<1>8. QED
  BY <1>4, <1>5, <1>6, <1>7

\* The functions that may run inside a forward_body.
LEMMA ForwardInside ==
  ASSUME Core, Types', ForwardInv, ResponseInv, ResponseInv',
         \/ FlushError \/ FlushDone \/ FlushApplyInterest \/ OnBackendDrained \/ Fail
         \/ SendResponse("send_response", ReplyLen) \/ PumpWriteBlock \/ PumpWriteError
         \/ PumpWriteDrained
  PROVE  ForwardInv'
<1>1. Types /\ todo \in Seq(Functions) /\ c \in ClientSet /\ b \in BackendSet
  BY DEF Core, Types
<1>2. PICK g \in {"flush", "apply_interest", "on_backend_drained", "fail", "send_response", "pump_write"} :
        Doing(g)
  BY DEF FlushError, FlushDone, FlushApplyInterest, OnBackendDrained, Fail, SendResponse,
         PumpWriteBlock, PumpWriteError, PumpWriteDrained
<1>3. todo # <<>> /\ Head(todo) = g /\ AtHead(g)
  BY <1>2 DEF Doing, AtHead
<1>4. /\ \A f \in {"fail", "on_backend_drained", "apply_interest", "drive", "send_response",
                   "request_close", "pump_write", "recompute_interest", "resume_reads",
                   "pump_write_end"} : f \in Functions /\ f # "forward_body_rest"
      /\ \A f \in {"fail", "on_backend_drained", "apply_interest", "send_response", "request_close",
                   "pump_write", "recompute_interest", "pump_write_end"} : f \in AboveForward
      /\ \A f \in {"fail", "on_backend_drained", "apply_interest"} : f \notin Answering
      /\ "pump_write" \in Answering
  BY DEF Functions, AboveForward, Answering
<1>5. ASSUME Return, c'.backend => c.backend, c'.readPaused => c.readPaused PROVE ForwardInv'
  <2>1. Pushed({})
    BY <1>1, <1>3, <1>5, PReturn
  <2>2. QED
    BY <1>3, <1>5, <2>1, ForwardStep
<1>6. CASE FlushError
  <2>1. c' = c /\ Then(<<"fail">>)
    BY <1>6 DEF FlushError
  <2>2. Pushed({"fail"})
    BY <1>1, <1>3, <1>4, <2>1, PThen1
  <2>3. QED
    BY <1>3, <1>4, <2>1, <2>2, ForwardStep
<1>7. CASE FlushDone
  <2>1. c' = c /\ (Then(<<"on_backend_drained", "apply_interest">>) \/ Then(<<"apply_interest">>))
    BY <1>7, FlushCalls DEF FlushDone
  <2>2. Pushed({"on_backend_drained", "apply_interest"}) \/ Pushed({"apply_interest"})
    BY <1>1, <1>3, <1>4, <2>1, PThen1, PThen2
  <2>3. /\ "forward_body_rest" \notin {"on_backend_drained", "apply_interest"}
        /\ {"on_backend_drained", "apply_interest"} \subseteq AboveForward
        /\ {"on_backend_drained", "apply_interest"} \cap Answering = {}
    BY <1>4
  <2>4. QED
    BY <1>3, <2>1, <2>2, <2>3, ForwardStep
<1>8. CASE FlushApplyInterest
  BY <1>5, <1>8 DEF FlushApplyInterest
<1>9. CASE OnBackendDrained
  <2>1. \/ Return /\ c' = c
        \/ c.readPaused /\ Then(<<"drive">>)
    BY <1>9 DEF OnBackendDrained
  <2>2. CASE c.readPaused /\ Then(<<"drive">>)
    <3>1. Pushed({"drive"})
      BY <1>1, <1>3, <1>4, <2>2, PThen1
    <3>2. "forward_body_rest" \notin Deeper(todo)
      BY <1>1, <1>3, <2>2, Inside
    <3>3. QED
      BY <1>3, <1>4, <3>1, <3>2, ForwardStep
  <2>3. QED
    BY <1>5, <2>1, <2>2
<1>10. CASE Fail
  <2>1. ~c'.backend /\ c'.readPaused = c.readPaused
    <3> DEFINE cc == [c EXCEPT !.backend = FALSE]
    <3>1. /\ cc \in ClientSet /\ DetachClient(b) \in BackendSet /\ ~cc.backend
          /\ cc.readPaused = c.readPaused
      BY <1>1 DEF ClientSet, DetachClient, BackendSet
    <3>2. ~b.client => ~c.backend
      <4>1. AtHead("fail")
        BY <1>10 DEF Fail, Doing, AtHead
      <4>2. QED
        BY <4>1 DEF Core, PointerInv, PointersLive, AtHead
    <3>3. (~b.client /\ c' = c) \/ CloseBoth(cc, DetachClient(b)) \/ c' = cc
      BY <1>10 DEF Fail, OnBackendError
    <3> HIDE DEF cc
    <3>4. QED
      BY <3>1, <3>2, <3>3, CloseFields
  <2>2. Then(<<"request_close">>) \/ Then(<<"send_response", "request_close">>)
    BY <1>10 DEF Fail, OnBackendError
  <2>3. Pushed({"request_close"}) \/ Pushed({"send_response", "request_close"})
    BY <1>1, <1>3, <1>4, <2>2, PThen1, PThen2
  <2>4. /\ "forward_body_rest" \notin {"send_response", "request_close"}
        /\ {"send_response", "request_close"} \subseteq AboveForward
    BY <1>4
  <2>5. QED
    BY <1>3, <2>1, <2>3, <2>4, ForwardStep
<1>11. CASE SendResponse("send_response", ReplyLen)
  <2>1. /\ Then(<<"pump_write", "recompute_interest">>)
        /\ c' = [c EXCEPT !.out = ReplyLen, !.responded = TRUE, !.replied = TRUE, !.state = "Closing"]
    BY <1>11 DEF SendResponse
  <2>2. c'.readPaused = c.readPaused /\ c'.replied
    BY <1>1, <2>1 DEF ClientSet
  <2>3. ~c'.backend
    BY <2>2 DEF ResponseInv
  <2>4. Pushed({"pump_write", "recompute_interest"})
    BY <1>1, <1>3, <1>4, <2>1, PThen2
  <2>5. /\ "forward_body_rest" \notin {"pump_write", "recompute_interest"}
        /\ {"pump_write", "recompute_interest"} \subseteq AboveForward
    BY <1>4
  <2>6. QED
    BY <1>3, <2>2, <2>3, <2>4, <2>5, ForwardStep
<1>12. CASE PumpWriteBlock \/ PumpWriteError
  <2>1. Return /\ (CloseBoth(c, b) \/ \E y : c' = [c EXCEPT !.writeBlock = y])
    BY <1>12, Zenon DEF PumpWriteBlock, PumpWriteError
  <2>2. (c'.backend => c.backend) /\ c'.readPaused = c.readPaused
    BY <1>1, <2>1, CloseFields DEF ClientSet
  <2>3. QED
    BY <1>5, <2>1, <2>2
<1>13. CASE PumpWriteDrained
  <2>1. \/ Resumes /\ Then(<<"resume_reads", "pump_write_end">>)
        \/ c' = c /\ Then(<<"pump_write_end">>)
    BY <1>13 DEF PumpWriteDrained
  <2>2. AtHead("pump_write") /\ Head(todo) = "pump_write"
    BY <1>13 DEF PumpWriteDrained, Doing, AtHead
  <2>3. "forward_body_rest" \in Deeper(todo) => ~c.backend
    BY <1>1, <1>3, <1>4, <2>2, Inside
  <2>4. CASE Resumes /\ Then(<<"resume_reads", "pump_write_end">>)
    <3>1. Pushed({"resume_reads", "pump_write_end"})
      BY <1>1, <1>3, <1>4, <2>4, PThen2
    <3>2. "forward_body_rest" \notin Deeper(todo)
      BY <2>3, <2>4 DEF Resumes
    <3>3. "forward_body_rest" \notin {"resume_reads", "pump_write_end"}
      BY <1>4
    <3>4. QED
      BY <1>3, <3>1, <3>2, <3>3, ForwardStep
  <2>5. CASE c' = c /\ Then(<<"pump_write_end">>)
    <3>1. Pushed({"pump_write_end"})
      BY <1>1, <1>3, <1>4, <2>5, PThen1
    <3>2. QED
      BY <1>3, <1>4, <2>3, <2>5, <3>1, ForwardStep
  <2>6. QED
    BY <2>1, <2>4, <2>5
<1>14. QED
  BY <1>6, <1>7, <1>8, <1>9, <1>10, <1>11, <1>12, <1>13

LEMMA ForwardNext ==
  ASSUME Core, ResponseInv, BufferInv, ForwardInv, [Next]_vars PROVE ForwardInv'
<1>1. Core' /\ ResponseInv' /\ Types' /\ Types
  BY CoreNext, ResponseNext DEF Core
<1>2. CASE \/ Drive \/ DriveWrite \/ PumpReadStop \/ PumpReadBlock \/ PumpReadEof \/ PumpReadError
           \/ ProcessHeadIncomplete \/ ProcessHeadReject \/ HandleInternal \/ StartBackendFails
           \/ SendResponse("send_head", 1) \/ OnErrorClient \/ TimeoutClient \/ TimeoutBackend
           \/ ResumeReads \/ DeliverRest \/ BackendReadStop \/ BackendReadEof \/ BackendReadError
           \/ OnBackendClosed \/ OnWritable
  BY <1>1, <1>2, ForwardOther
<1>3. CASE PumpReadData \/ ProcessHeadForward \/ ForwardBodyRest \/ BackendReadData
  BY <1>1, <1>3, ForwardBegins
<1>4. CASE \/ FlushError \/ FlushDone \/ FlushApplyInterest \/ OnBackendDrained \/ Fail
           \/ SendResponse("send_response", ReplyLen) \/ PumpWriteBlock \/ PumpWriteError
           \/ PumpWriteDrained
  BY <1>1, <1>4, ForwardInside
<1>5. CASE RecomputeInterest \/ PumpWriteEnd \/ RequestClose
  <2>1. SameBuffers
    BY <1>5, BuffersClient, BuffersBackend
  <2>2. todo # <<>> /\ Return
    BY <1>5 DEF RecomputeInterest, PumpWriteEnd, RequestClose, Doing
  <2>3. Pushed({})
    BY <1>1, <2>2, PReturn
  <2>4. QED
    BY <1>1, <2>1, <2>2, <2>3, ForwardStep DEF SameBuffers
<1>6. CASE PumpWriteSome \/ FlushSome \/ EpollWait \/ Env \/ TimePasses \/ ProcessPendingClose
  <2>1. SameBuffers
    BY <1>6, BuffersClient, BuffersBackend, BuffersLoop
  <2>2. todo' = todo
    BY <1>6 DEF PumpWriteSome, FlushSome, EpollWait, Env, PeerSends, PeerCloses, PeerReads, PeerResets,
                BackendAccepts, BackendRefuses, TimePasses, ProcessPendingClose
  <2>3. QED
    BY <2>1, <2>2, ForwardKept DEF SameBuffers
<1>7. CASE Dispatch
  <2>1. "forward_body_rest" \notin Calls(todo')
    BY <1>7, DispatchCalls
  <2>2. Above(todo', "forward_body_rest") = {}
    <3>1. CASE todo' = <<>>
      BY <3>1 DEF Above
    <3>2. CASE todo' # <<>>
      <4> DEFINE t == todo'
      <4>1. t \in Seq(Functions) /\ t # <<>> /\ "forward_body_rest" \notin Calls(t)
        BY <1>1, <2>1, <3>2 DEF Types
      <4> HIDE DEF t
      <4>2. Above(t, "forward_body_rest") = {}
        BY <4>1, Stack, AboveTail
      <4>3. QED
        BY <4>2 DEF t
    <3>3. QED
      BY <3>1, <3>2
  <2>3. QED
    BY <2>1, <2>2 DEF ForwardInv
<1>8. CASE Finished \/ UNCHANGED vars
  <2>1. c' = c /\ todo' = todo
    BY <1>8 DEF Finished, vars
  <2>2. QED
    BY <2>1, ForwardKept
<1>9. QED
  BY <1>2, <1>3, <1>4, <1>5, <1>6, <1>7, <1>8 DEF Next, LoopStep

-----------------------------------------------------------------------------
(* Every pause ends.                                                       *)

(* The backend's reads are paused exactly when the client knows that it    *)
(* has to resume them, and there are bytes whose writing will remind it.   *)
DownPause ==
  /\ c.backend /\ ~AtHead("resume_reads") => (b.readPaused <=> c.backendPaused)
  /\ c.backend /\ c.backendPaused => c.out > 0 \/ AtHead("pump_write")

(* A paused client waits for a buffer whose draining will be noticed, or   *)
(* is being told of it; without a backend it is being answered or closed.  *)
UpPause ==
  /\ b.out > kBackpressureHigh => b.highWater
  /\ c.readPaused /\ c.backend =>
       \/ b.highWater /\ (b.out >= kBackpressureLow \/ AtHead("flush") \/ AtHead("fail"))
       \/ AtHead("on_backend_drained")
  /\ c.readPaused /\ ~c.backend => c.state = "Closing" \/ c.closed \/ AtHead("send_response")

PauseInv == DownPause /\ UpPause

LEMMA PauseInit == Init => PauseInv
<1>1. ASSUME Init PROVE ~c.backend /\ ~c.readPaused /\ b.out = 0
  BY <1>1 DEF Init, HttpConnection, NoBackend
<1>2. QED
  BY <1>1, ConstantsAssumption DEF PauseInv, DownPause, UpPause

\* The functions that hold a pause's end.
Owing == {"resume_reads", "pump_write", "flush", "fail", "on_backend_drained", "send_response"}
NotOwing == todo' = todo \/ \A f \in Owing : ~AtHead(f)

KeptClient ==
  /\ c'.backend = c.backend /\ c'.backendPaused = c.backendPaused /\ c'.out = c.out
  /\ c'.readPaused = c.readPaused
  /\ c'.state = c.state \/ c'.state = "Closing"
  /\ c.closed => c'.closed
KeptBackend ==
  b'.readPaused = b.readPaused /\ b'.out = b.out /\ b'.highWater = b.highWater

LEMMA PauseKept ==
  ASSUME PauseInv, KeptClient, KeptBackend, NotOwing PROVE PauseInv'
<1>1. DownPause'
  BY DEF PauseInv, DownPause, KeptClient, KeptBackend, NotOwing, Owing, AtHead
<1>2. UpPause'
  BY DEF PauseInv, UpPause, KeptClient, KeptBackend, NotOwing, Owing, AtHead
<1>3. QED
  BY <1>1, <1>2 DEF PauseInv

\* A client that is closed waits for nothing.
LEMMA PauseClosed ==
  ASSUME Core', PauseInv, c'.closed, b'.out = b.out, b'.highWater = b.highWater PROVE PauseInv'
<1>1. ~c'.backend
  BY DEF Core, PointerInv
<1>2. QED
  BY <1>1 DEF PauseInv, DownPause, UpPause

LEMMA PauseClient ==
  ASSUME Core, Core', PauseInv,
         \/ Drive \/ DriveWrite \/ RecomputeInterest \/ PumpReadStop \/ PumpReadBlock
         \/ PumpReadEof \/ PumpReadError \/ PumpWriteEnd \/ PumpWriteError \/ OnErrorClient
         \/ TimeoutClient
  PROVE  PauseInv'
<1>1. c \in ClientSet /\ b \in BackendSet
  BY DEF Core, Types
<1>2. ASSUME NEW cc \in ClientSet, CloseBoth(cc, b) PROVE PauseInv'
  BY <1>1, <1>2, CloseFields, PauseClosed
<1>3. ASSUME NEW f, f \notin Owing, Doing(f) PROVE NotOwing
  BY <1>3 DEF Doing, AtHead, NotOwing
<1>4. CASE Drive
  <2>1. \/ CloseBoth(c, b)
        \/ /\ b' = b
           /\ \/ c' = c \/ c' = [c EXCEPT !.handshake = TRUE, !.idle = FALSE]
              \/ \E y : c' = [c EXCEPT !.interest = y]
    BY <1>4, Zenon DEF Drive, SetInterest
  <2>2. NotOwing
    BY <1>3, <1>4 DEF Drive, Owing
  <2>3. CASE ~CloseBoth(c, b)
    <3>1. KeptClient /\ KeptBackend
      BY <1>1, <2>1, <2>3 DEF KeptClient, KeptBackend, ClientSet
    <3>2. QED
      BY <2>2, <3>1, PauseKept
  <2>4. QED
    BY <1>1, <1>2, <2>3
<1>5. CASE DriveWrite \/ RecomputeInterest
  <2>1. b' = b /\ (c' = c \/ \E y : c' = [c EXCEPT !.interest = y])
    BY <1>5, Zenon DEF DriveWrite, RecomputeInterest, SetInterest
  <2>2. NotOwing
    BY <1>3, <1>5 DEF DriveWrite, RecomputeInterest, Owing
  <2>3. KeptClient /\ KeptBackend
    BY <1>1, <2>1 DEF KeptClient, KeptBackend, ClientSet
  <2>4. QED
    BY <2>2, <2>3, PauseKept
<1>6. CASE PumpReadStop \/ PumpReadBlock \/ PumpReadEof \/ PumpReadError \/ OnErrorClient \/ TimeoutClient
  <2>1. \/ CloseBoth(c, b)
        \/ /\ b' = b
           /\ \/ c' = c \/ c' = [c EXCEPT !.eof = TRUE, !.readBlock = "r"]
              \/ \E y : c' = [c EXCEPT !.readBlock = y]
    BY <1>6, Zenon DEF PumpReadStop, PumpReadBlock, PumpReadEof, PumpReadError, OnErrorClient,
         TimeoutClient
  <2>2. NotOwing
    BY <1>3, <1>6 DEF PumpReadStop, PumpReadBlock, PumpReadEof, PumpReadError, OnErrorClient,
         TimeoutClient, Receiving, Owing
  <2>3. CASE ~CloseBoth(c, b)
    <3>1. KeptClient /\ KeptBackend
      BY <1>1, <2>1, <2>3 DEF KeptClient, KeptBackend, ClientSet
    <3>2. QED
      BY <2>2, <3>1, PauseKept
  <2>4. QED
    BY <1>1, <1>2, <2>3
<1>7. CASE PumpWriteEnd
  <2> DEFINE cc == [c EXCEPT !.writeBlock = "ok"]
  <2>1. /\ cc \in ClientSet /\ cc.out = c.out /\ cc.state = c.state /\ cc.closed = c.closed
        /\ cc.backendPaused = c.backendPaused /\ cc.readPaused = c.readPaused
        /\ cc.backend = c.backend
    BY <1>1 DEF ClientSet
  <2>2. CloseBoth(cc, b) \/ (c' = cc /\ b' = b)
    BY <1>7 DEF PumpWriteEnd
  <2> HIDE DEF cc
  <2>3. NotOwing
    BY <1>3, <1>7 DEF PumpWriteEnd, Owing
  <2>4. CASE c' = cc /\ b' = b
    <3>1. KeptClient /\ KeptBackend
      BY <2>1, <2>4 DEF KeptClient, KeptBackend
    <3>2. QED
      BY <2>3, <3>1, PauseKept
  <2>5. QED
    BY <1>2, <2>1, <2>2, <2>4
<1>8. CASE PumpWriteError
  BY <1>1, <1>2, <1>8 DEF PumpWriteError
<1>9. QED
  BY <1>4, <1>5, <1>6, <1>7, <1>8

LEMMA PauseBackend ==
  ASSUME Core, Core', PauseInv,
         \/ BackendReadStop \/ BackendReadEof \/ BackendReadError \/ OnBackendClosed \/ RequestClose
         \/ OnWritable \/ TimeoutBackend \/ FlushApplyInterest
  PROVE  PauseInv'
<1>1. c \in ClientSet /\ b \in BackendSet
  BY DEF Core, Types
<1>2. ASSUME NEW f, f \notin Owing, Doing(f) PROVE NotOwing
  BY <1>2 DEF Doing, AtHead, NotOwing
<1>3. CASE OnBackendClosed
  <2>1. b' = b /\ c' = [c EXCEPT !.backend = FALSE, !.state = "Closing"]
    BY <1>3 DEF OnBackendClosed
  <2>2. ~c'.backend /\ c'.state = "Closing"
    BY <1>1, <2>1 DEF ClientSet
  <2>3. QED
    BY <2>1, <2>2 DEF PauseInv, DownPause, UpPause
<1>4. CASE \/ BackendReadStop \/ BackendReadEof \/ BackendReadError \/ RequestClose
           \/ OnWritable \/ TimeoutBackend \/ FlushApplyInterest
  <2>1. /\ c' = c
        /\ \/ b' = b \/ b' = [b EXCEPT !.client = FALSE]
           \/ b' = [b EXCEPT !.connected = TRUE, !.idle = FALSE]
           \/ \E y : b' = [b EXCEPT !.interest = y]
    BY <1>4, Zenon DEF BackendReadStop, BackendReadEof, BackendReadError, RequestClose,
         OnWritable, TimeoutBackend, FlushApplyInterest, Applied
  <2>2. KeptClient /\ KeptBackend
    BY <1>1, <2>1 DEF KeptClient, KeptBackend, BackendSet
  <2>3. NotOwing
    BY <1>2, <1>4 DEF BackendReadStop, BackendReadEof, BackendReadError, RequestClose,
         OnWritable, TimeoutBackend, FlushApplyInterest, Owing
  <2>4. QED
    BY <2>2, <2>3, PauseKept
<1>5. QED
  BY <1>3, <1>4

LEMMA PauseLoop ==
  ASSUME Core, PauseInv, EpollWait \/ Dispatch \/ Env \/ TimePasses \/ ProcessPendingClose
  PROVE  PauseInv'
<1>1. c \in ClientSet /\ b \in BackendSet /\ LifeInv /\ PointerInv
  BY DEF Core, Types
<1>2. CASE EpollWait \/ Env
  <2>1. c' = c /\ b' = b /\ todo' = todo
    BY <1>2 DEF EpollWait, Env, PeerSends, PeerCloses, PeerReads, PeerResets, BackendAccepts,
                BackendRefuses
  <2>2. QED
    BY <2>1, PauseKept DEF KeptClient, KeptBackend, NotOwing
<1>3. CASE TimePasses
  <2>1. \E x, y : c' = [c EXCEPT !.idle = x] /\ b' = [b EXCEPT !.idle = y]
    BY <1>3, Zenon DEF TimePasses
  <2>2. KeptClient /\ KeptBackend
    BY <1>1, <2>1 DEF KeptClient, KeptBackend, ClientSet, BackendSet
  <2>3. QED
    BY <1>3, <2>2, PauseKept DEF TimePasses, NotOwing
<1>4. CASE Dispatch
  <2>1. c' = c /\ b' = b /\ todo = <<>>
    BY <1>4 DEF Dispatch
  <2>2. QED
    BY <2>1, PauseKept DEF KeptClient, KeptBackend, NotOwing, AtHead
<1>5. CASE ProcessPendingClose
  <2>1. todo = <<>> /\ todo' = todo
    BY <1>5 DEF ProcessPendingClose
  <2>2. c.backend => b.client /\ "backend" \notin closing /\ "client" \notin closing
    BY <1>1, <2>1 DEF PointerInv, PointersLive, LifeInv
  <2>3. PICK x \in BOOLEAN, y \in BOOLEAN :
          (y <=> c.backend) /\ c' = [c EXCEPT !.alive = x, !.backend = y]
    <3>1. /\ (c.alive /\ "client" \notin closing) \in BOOLEAN
          /\ (c.backend /\ ~("backend" \in closing /\ b.client)) \in BOOLEAN
      OBVIOUS
    <3>2. (c.backend /\ ~("backend" \in closing /\ b.client)) <=> c.backend
      BY <2>2
    <3>3. QED
      BY <1>5, <3>1, <3>2, Zenon DEF ProcessPendingClose
  <2>4. /\ c'.backend <=> c.backend
        /\ c'.backendPaused = c.backendPaused /\ c'.out = c.out /\ c'.readPaused = c.readPaused
        /\ c'.state = c.state /\ c'.closed = c.closed
    BY <1>1, <2>3 DEF ClientSet
  <2>5. \/ "backend" \in closing /\ b' = NoBackend
        \/ \E z : b' = [b EXCEPT !.client = z]
    BY <1>5, Zenon DEF ProcessPendingClose
  <2>6. \/ "backend" \in closing /\ b'.out = 0
        \/ b'.readPaused = b.readPaused /\ b'.out = b.out /\ b'.highWater = b.highWater
    <3>1. NoBackend.out = 0
      BY DEF NoBackend
    <3>2. QED
      BY <1>1, <2>5, <3>1 DEF BackendSet
  <2>7. ~(0 > kBackpressureHigh)
    BY ConstantsAssumption
  <2>8. QED
    BY <2>1, <2>2, <2>4, <2>6, <2>7 DEF PauseInv, DownPause, UpPause, AtHead
<1>6. QED
  BY <1>2, <1>3, <1>4, <1>5

\* The request's side.
LEMMA PauseRequest ==
  ASSUME Core, Core', ResponseInv, ResponseInv', BufferInv, ForwardInv, PauseInv,
         \/ ProcessHeadIncomplete \/ ProcessHeadReject \/ HandleInternal \/ StartBackendFails
         \/ ProcessHeadForward \/ PumpReadData \/ ForwardBodyRest
         \/ SendResponse("send_response", ReplyLen) \/ SendResponse("send_head", 1)
  PROVE  PauseInv'
<1>1. Types /\ Discipline /\ c \in ClientSet /\ b \in BackendSet /\ todo \in Seq(Functions)
  BY DEF Core, Types
<1>2. /\ c.out \in Nat /\ b.out \in Nat /\ kBackpressureHigh \in Nat /\ kBackpressureLow \in Nat
      /\ kBackpressureLow <= kBackpressureHigh /\ Chunk \in Nat /\ net.client.rcv \in Nat
  BY Sizes, ConstantsAssumption DEF Core, Types, ClientSet, BackendSet, Fds, SocketSet
<1>3. ASSUME NEW f, f \notin Owing, Doing(f) PROVE NotOwing
  BY <1>3 DEF Doing, AtHead, NotOwing
<1>4. CASE ProcessHeadIncomplete \/ ProcessHeadReject \/ HandleInternal \/ StartBackendFails
  <2>1. b' = b /\ (c' = c \/ \E y : c' = [c EXCEPT !.bodyLeft = y])
    BY <1>4, Zenon DEF ProcessHeadIncomplete, ProcessHeadReject, HandleInternal, StartBackendFails
  <2>2. KeptClient /\ KeptBackend
    BY <1>1, <2>1 DEF KeptClient, KeptBackend, ClientSet
  <2>3. NotOwing
    BY <1>3, <1>4 DEF ProcessHeadIncomplete, ProcessHeadReject, HandleInternal, StartBackendFails, Owing
  <2>4. QED
    BY <2>2, <2>3, PauseKept
<1>5. CASE ProcessHeadForward
  <2>1. AtHead("process_head")
    BY <1>5 DEF ProcessHeadForward, Doing, AtHead
  <2>2. c.state = "ReadingHead"
    BY <2>1 DEF Core, PointerInv
  <2>3. /\ ~c'.readPaused /\ ~c'.backendPaused /\ ~b'.readPaused
        /\ b'.out > kBackpressureHigh => b'.highWater
    BY <1>5, <2>2, HeadForwarded DEF BufferInv, HeadInv
  <2>4. QED
    BY <2>3 DEF PauseInv, DownPause, UpPause
<1>6. CASE PumpReadData
  <2>1. Doing("pump_read") /\ ~c.readPaused
    BY <1>6 DEF PumpReadData, Receiving
  <2>2. NotOwing
    BY <1>3, <2>1 DEF Owing
  <2> DEFINE n == AtMost(net.client.rcv, Chunk)
             cc == [c EXCEPT !.idle = FALSE]
  <2>3. n \in Nat
    BY <1>2, AtMostFacts
  <2>4. \/ (\E y : c' = [cc EXCEPT !.in = y]) /\ b' = b
        \/ c.state = "StreamingUp" /\ ForwardBody(cc, b, n, <<"pump_read">>)
        \/ c' = cc /\ b' = b
    BY <1>6, Zenon DEF PumpReadData
  <2>5. /\ cc \in ClientSet /\ cc.backend = c.backend /\ cc.backendPaused = c.backendPaused
        /\ cc.out = c.out /\ cc.readPaused = c.readPaused /\ cc.state = c.state /\ cc.closed = c.closed
    BY <1>1 DEF ClientSet
  <2> HIDE DEF n, cc
  <2>6. CASE b' = b /\ (c' = cc \/ \E y : c' = [cc EXCEPT !.in = y])
    <3>1. KeptClient /\ KeptBackend
      BY <2>5, <2>6 DEF KeptClient, KeptBackend, ClientSet
    <3>2. QED
      BY <2>2, <3>1, PauseKept
  <2>7. CASE ForwardBody(cc, b, n, <<"pump_read">>) /\ cc.backend
    <3> DEFINE take == Take(cc, n)
    <3>1. take \in Nat
      <4>1. cc.bodyLeft \in Nat
        BY <2>5 DEF ClientSet
      <4>2. QED
        BY <2>3, <4>1, AtMostFacts DEF Take
    <3>2. (\E m : c' = [cc EXCEPT !.bodyLeft = m]) /\ b' = Queued(b, take)
      BY <2>7, Zenon DEF ForwardBody
    <3> HIDE DEF take
    <3>3. /\ b'.readPaused = b.readPaused /\ b'.out = b.out + take
          /\ b'.highWater <=> (b.highWater \/ b.out + take > kBackpressureHigh)
      BY <1>1, <3>1, <3>2, QueuedFields
    <3>4. /\ c'.backend = c.backend /\ c'.backendPaused = c.backendPaused /\ c'.out = c.out
          /\ c'.readPaused = c.readPaused
      BY <2>5, <3>2 DEF ClientSet
    <3>5. DownPause'
      <4>1. ~AtHead("resume_reads") /\ ~AtHead("pump_write")
        BY <2>1 DEF Doing, AtHead
      <4>2. QED
        BY <3>3, <3>4, <4>1 DEF PauseInv, DownPause
    <3>6. UpPause'
      BY <2>1, <3>3, <3>4 DEF UpPause
    <3>7. QED
      BY <3>5, <3>6 DEF PauseInv
  <2>8. CASE ForwardBody(cc, b, n, <<"pump_read">>) /\ ~cc.backend
    <3>1. c' = cc /\ b' = b
      BY <2>8 DEF ForwardBody
    <3>2. QED
      BY <2>6, <3>1
  <2>9. QED
    BY <2>4, <2>6, <2>7, <2>8
<1>7. CASE ForwardBodyRest
  <2>1. /\ b' = b /\ Doing("forward_body_rest")
        /\ \/ c' = [c EXCEPT !.state = "Streaming"]
           \/ c.backend /\ c' = [c EXCEPT !.readPaused = @ \/ BackedUp(b)]
           \/ c' = c /\ todo' = todo
    BY <1>7 DEF ForwardBodyRest
  <2>2. /\ ~c.readPaused /\ \A f \in Owing : ~AtHead(f)
    <3>1. todo # <<>> /\ Head(todo) = "forward_body_rest"
      BY <2>1 DEF Doing
    <3>2. "forward_body_rest" \in Calls(todo)
      BY <1>1, <3>1, Stack
    <3>3. QED
      BY <3>1, <3>2 DEF ForwardInv, AtHead, Owing
  <2>3. PICK p \in BOOLEAN :
          /\ p => c.backend /\ b.out > kBackpressureHigh
          /\ \/ c' = [c EXCEPT !.state = "Streaming"] /\ ~p
             \/ c' = [c EXCEPT !.readPaused = p]
             \/ c' = c /\ ~p
    <3>1. (c.readPaused \/ BackedUp(b)) \in BOOLEAN
      OBVIOUS
    <3>2. (c.readPaused \/ BackedUp(b)) <=> b.out > kBackpressureHigh
      BY <2>2 DEF BackedUp
    <3>3. QED
      BY <2>1, <3>1, <3>2, Zenon
  <2>4. /\ c'.backend = c.backend /\ c'.backendPaused = c.backendPaused /\ c'.out = c.out
        /\ c'.readPaused => p
    <3>1. CASE c' = [c EXCEPT !.readPaused = p]
      BY <1>1, <3>1 DEF ClientSet
    <3>2. CASE c' = [c EXCEPT !.state = "Streaming"] \/ c' = c
      <4>1. /\ c'.backend = c.backend /\ c'.backendPaused = c.backendPaused /\ c'.out = c.out
            /\ c'.readPaused = c.readPaused
        BY <1>1, <3>2 DEF ClientSet
      <4>2. QED
        BY <2>2, <4>1
    <3>3. QED
      BY <2>3, <3>1, <3>2
  <2>5. DownPause'
    BY <2>1, <2>2, <2>4 DEF PauseInv, DownPause, Owing
  <2>6. UpPause'
    <3>1. p => b.highWater /\ b.out >= kBackpressureLow
      BY <1>2, <2>3 DEF PauseInv, UpPause
    <3>2. QED
      BY <2>1, <2>3, <2>4, <3>1 DEF PauseInv, UpPause
  <2>7. QED
    BY <2>5, <2>6 DEF PauseInv
<1>8. CASE SendResponse("send_response", ReplyLen) \/ SendResponse("send_head", 1)
  <2>1. b' = b /\ \E n : c' = [c EXCEPT !.out = n, !.responded = TRUE, !.replied = TRUE, !.state = "Closing"]
    BY <1>8, Zenon DEF SendResponse
  <2>2. c'.replied /\ c'.state = "Closing"
    BY <1>1, <2>1 DEF ClientSet
  <2>3. ~c'.backend
    BY <2>2 DEF ResponseInv
  <2>4. QED
    BY <2>1, <2>2, <2>3 DEF PauseInv, DownPause, UpPause
<1>9. QED
  BY <1>4, <1>5, <1>6, <1>7, <1>8

\* The response's side.
LEMMA PauseResponse ==
  ASSUME Core, Core', BufferInv, PauseInv,
         \/ PumpWriteSome \/ PumpWriteBlock \/ PumpWriteDrained \/ ResumeReads \/ BackendReadData
         \/ DeliverRest
  PROVE  PauseInv'
<1>1. Types /\ Discipline /\ c \in ClientSet /\ b \in BackendSet /\ todo \in Seq(Functions)
  BY DEF Core, Types
<1>2. /\ c.out \in Nat /\ b.out \in Nat /\ kBackpressureHigh \in Nat
  BY Sizes DEF Core, Types, ClientSet, BackendSet
<1>3. ASSUME NEW f \in {"pump_write", "resume_reads", "on_readable", "deliver_rest"}, Doing(f)
      PROVE  /\ AtHead(f) /\ ~AtHead("flush") /\ ~AtHead("fail") /\ ~AtHead("on_backend_drained")
             /\ ~AtHead("send_response") /\ (f # "pump_write" => ~AtHead("pump_write"))
             /\ f # "resume_reads" => ~AtHead("resume_reads")
             /\ todo # <<>>
  BY <1>3 DEF Doing, AtHead
<1>4. ASSUME NEW f \in {"pump_write", "resume_reads", "on_readable", "deliver_rest"}, Doing(f),
             c'.readPaused = c.readPaused, c'.backend = c.backend, c'.state = c.state,
             c'.closed = c.closed, b'.out = b.out, b'.highWater = b.highWater
      PROVE  UpPause'
  BY <1>3, <1>4 DEF PauseInv, UpPause
<1>5. CASE PumpWriteSome
  <2>1. b' = b /\ todo' = todo /\ AtHead("pump_write") /\ Doing("pump_write")
    BY <1>5 DEF PumpWriteSome, Doing, AtHead
  <2>2. \E m : c' = [c EXCEPT !.out = m, !.idle = FALSE]
    BY <1>5, Zenon DEF PumpWriteSome
  <2>3. /\ c'.readPaused = c.readPaused /\ c'.backend = c.backend /\ c'.state = c.state
        /\ c'.closed = c.closed /\ c'.backendPaused = c.backendPaused
    BY <1>1, <2>2 DEF ClientSet
  <2>4. UpPause'
    BY <1>4, <2>1, <2>3
  <2>5. DownPause'
    BY <2>1, <2>3 DEF PauseInv, DownPause, AtHead
  <2>6. QED
    BY <2>4, <2>5 DEF PauseInv
<1>6. CASE PumpWriteBlock
  <2>1. b' = b /\ Doing("pump_write") /\ c.out > 0 /\ \E y : c' = [c EXCEPT !.writeBlock = y]
    BY <1>6, Zenon DEF PumpWriteBlock
  <2>2. /\ c'.readPaused = c.readPaused /\ c'.backend = c.backend /\ c'.state = c.state
        /\ c'.closed = c.closed /\ c'.backendPaused = c.backendPaused /\ c'.out = c.out
    BY <1>1, <2>1 DEF ClientSet
  <2>3. UpPause'
    BY <1>4, <2>1, <2>2
  <2>4. DownPause'
    BY <1>3, <2>1, <2>2 DEF PauseInv, DownPause
  <2>5. QED
    BY <2>3, <2>4 DEF PauseInv
<1>7. CASE PumpWriteDrained
  <2>1. /\ b' = b /\ Doing("pump_write")
        /\ \/ Then(<<"resume_reads", "pump_write_end">>) /\ c' = [c EXCEPT !.backendPaused = FALSE]
           \/ c' = c /\ ~(c.backend /\ c.backendPaused)
    BY <1>7 DEF PumpWriteDrained, Resumes
  <2>2. /\ c'.readPaused = c.readPaused /\ c'.backend = c.backend /\ c'.state = c.state
        /\ c'.closed = c.closed
    BY <1>1, <2>1 DEF ClientSet
  <2>3. UpPause'
    BY <1>4, <2>1, <2>2
  <2>4. CASE c' = c /\ ~(c.backend /\ c.backendPaused)
    <3>1. DownPause'
      BY <1>3, <2>1, <2>4 DEF PauseInv, DownPause
    <3>2. QED
      BY <2>3, <3>1 DEF PauseInv
  <2>5. CASE Then(<<"resume_reads", "pump_write_end">>) /\ c' = [c EXCEPT !.backendPaused = FALSE]
    <3>1. ~c'.backendPaused
      BY <1>1, <2>5 DEF ClientSet
    <3>2. todo' # <<>> /\ Head(todo') = "resume_reads"
      BY <1>1, <1>3, <2>1, <2>5, DThen2 DEF Functions, HeadOnly
    <3>3. DownPause'
      BY <3>1, <3>2 DEF DownPause, AtHead
    <3>4. QED
      BY <2>3, <3>3 DEF PauseInv
  <2>6. QED
    BY <2>1, <2>4, <2>5
<1>8. CASE ResumeReads
  <2>1. /\ Doing("resume_reads") /\ c' = c
        /\ \/ b' = b /\ ~b.readPaused
           \/ \E y : b' = [[b EXCEPT !.readPaused = FALSE] EXCEPT !.interest = y]
    BY <1>8, Zenon DEF ResumeReads, Applied
  <2>2. b'.out = b.out /\ b'.highWater = b.highWater /\ ~b'.readPaused
    BY <1>1, <2>1 DEF BackendSet
  <2>3. ~c.backendPaused
    BY <1>3, <2>1 DEF BufferInv, DownInv
  <2>4. UpPause'
    BY <1>4, <2>1, <2>2
  <2>5. QED
    BY <2>1, <2>2, <2>3, <2>4 DEF PauseInv, DownPause
<1>9. CASE BackendReadData
  <2>1. /\ Doing("on_readable") /\ b' = [b EXCEPT !.idle = FALSE]
        /\ \/ c' = c /\ todo' = todo
           \/ /\ \E n : c' = Deliver(c, n)
              /\ Then(<<"pump_write", "deliver_rest", "on_readable">>)
    BY <1>9, Zenon DEF BackendReadData, DeliverLoop
  <2>2. b'.readPaused = b.readPaused /\ b'.out = b.out /\ b'.highWater = b.highWater
    BY <1>1, <2>1 DEF BackendSet
  <2>3. CASE c' = c /\ todo' = todo
    BY <2>2, <2>3, PauseKept DEF KeptClient, KeptBackend, NotOwing
  <2>4. CASE (\E n : c' = Deliver(c, n)) /\ Then(<<"pump_write", "deliver_rest", "on_readable">>)
    <3>1. \E m : c' = [c EXCEPT !.out = m, !.responded = TRUE, !.relayed = TRUE]
      BY <2>4, Zenon DEF Deliver
    <3>2. /\ c'.readPaused = c.readPaused /\ c'.backend = c.backend /\ c'.state = c.state
          /\ c'.closed = c.closed /\ c'.backendPaused = c.backendPaused
      BY <1>1, <3>1 DEF ClientSet
    <3>3. todo' # <<>> /\ Head(todo') = "pump_write"
      BY <1>1, <1>3, <2>1, <2>4, DeliverTops
    <3>4. UpPause'
      BY <1>4, <2>1, <2>2, <3>2
    <3>5. DownPause'
      BY <1>3, <2>1, <2>2, <3>2, <3>3 DEF PauseInv, DownPause, AtHead
    <3>6. QED
      BY <3>4, <3>5 DEF PauseInv
  <2>5. QED
    BY <2>1, <2>3, <2>4
<1>10. CASE DeliverRest
  <2>1. Doing("deliver_rest")
    BY <1>10 DEF DeliverRest
  <2>2. CASE c.closed
    <3>1. c' = c /\ b' = b
      BY <1>10, <2>2 DEF DeliverRest
    <3>2. QED
      BY <2>2, <3>1, PauseClosed
  <2>3. CASE ~c.closed
    <3> DEFINE pause == c.backend /\ ~c.backendPaused /\ c.out > kBackpressureHigh
    <3>1. /\ b' = IF pause /\ ~b.readPaused THEN Applied(PauseReads(b)) ELSE b
          /\ \E y : c' = [[c EXCEPT !.backendPaused = @ \/ pause] EXCEPT !.interest = y]
      BY <1>10, <2>3, Zenon DEF DeliverRest, SetInterest
    <3>2. PICK p \in BOOLEAN : /\ p = (c.backendPaused \/ pause)
                               /\ \E y : c' = [[c EXCEPT !.backendPaused = p] EXCEPT !.interest = y]
      <4>1. (c.backendPaused \/ pause) \in BOOLEAN
        OBVIOUS
      <4>2. QED
        BY <3>1, <4>1, Zenon
    <3>3. /\ c'.out = c.out /\ c'.state = c.state /\ c'.closed = c.closed
          /\ c'.backendPaused = p /\ c'.readPaused = c.readPaused /\ c'.backend = c.backend
      BY <1>1, <3>2 DEF ClientSet
    <3>4. /\ b'.out = b.out /\ b'.highWater = b.highWater
          /\ b'.readPaused <=> (b.readPaused \/ pause)
      <4>1. /\ Applied(PauseReads(b)).out = b.out /\ Applied(PauseReads(b)).highWater = b.highWater
            /\ Applied(PauseReads(b)).readPaused = TRUE
        BY <1>1 DEF Applied, PauseReads, BackendSet
      <4>2. QED
        BY <3>1, <4>1
    <3>5. p <=> (c.backendPaused \/ pause)
      BY <3>2
    <3>6. pause => c.out > 0
      BY <1>2
    <3> HIDE DEF pause
    <3>7. UpPause'
      BY <1>4, <2>1, <3>3, <3>4
    <3>8. DownPause'
      BY <1>3, <2>1, <3>3, <3>4, <3>5, <3>6 DEF PauseInv, DownPause
    <3>9. QED
      BY <3>7, <3>8 DEF PauseInv
  <2>4. QED
    BY <2>2, <2>3
<1>11. QED
  BY <1>5, <1>6, <1>7, <1>8, <1>9, <1>10

\* The backend's writes, and its failure.
LEMMA PauseFlush ==
  ASSUME Core, Core', PauseInv,
         FlushSome \/ FlushError \/ FlushDone \/ Fail \/ OnBackendDrained
  PROVE  PauseInv'
<1>1. /\ Types /\ Discipline /\ c \in ClientSet /\ b \in BackendSet /\ todo \in Seq(Functions)
      /\ net \in [Fds -> SocketSet]
  BY DEF Core, Types
<1>2. /\ b.out \in Nat /\ kBackpressureHigh \in Nat /\ kBackpressureLow \in Nat
      /\ kBackpressureLow <= kBackpressureHigh
  BY Sizes, ConstantsAssumption DEF Core, Types, BackendSet
<1>3. PICK g \in {"flush", "fail", "on_backend_drained"} : Doing(g)
  BY DEF FlushSome, FlushError, FlushDone, Fail, OnBackendDrained
<1>4. /\ todo # <<>> /\ AtHead(g)
      /\ \A f \in {"resume_reads", "pump_write", "send_response"} : ~AtHead(f)
  BY <1>3 DEF Doing, AtHead
<1>5. c.readPaused /\ ~c.backend => c.state = "Closing" \/ c.closed
  BY <1>4 DEF PauseInv, UpPause
<1>6. ~b.client => ~c.backend
  BY <1>4 DEF Core, PointerInv, PointersLive, AtHead
<1>7. \A f \in {"fail", "apply_interest", "on_backend_drained", "drive", "request_close",
                "send_response"} : f \in Functions
  BY DEF Functions
<1>8. "apply_interest" \notin HeadOnly /\ "request_close" \notin HeadOnly
  BY DEF HeadOnly
<1>9. ASSUME c'.backend = c.backend, c'.backendPaused = c.backendPaused, c'.out = c.out,
             b'.readPaused = b.readPaused
      PROVE  DownPause'
  BY <1>4, <1>9 DEF PauseInv, DownPause
<1>10. CASE FlushSome
  <2> DEFINE n == AtMost(b.out, net.backend.space)
             m == b.out - n
  <2>1. AtHead("flush") /\ ~AtHead("on_backend_drained") /\ c' = c /\ todo' = todo
        /\ b' = [b EXCEPT !.out = m, !.idle = FALSE]
    BY <1>10 DEF FlushSome, Doing, AtHead
  <2>2. net.backend.space \in Nat
    BY <1>1, Sizes DEF Fds, SocketSet
  <2>3. m \in Nat /\ m <= b.out
    <3>1. n \in Nat /\ n <= b.out
      BY <1>2, <2>2, AtMostFacts
    <3> HIDE DEF n
    <3>2. QED
      BY <1>2, <3>1
  <2> HIDE DEF m
  <2>4. b'.out = m /\ b'.highWater = b.highWater /\ b'.readPaused = b.readPaused
    BY <1>1, <2>1 DEF BackendSet
  <2>5. b'.out > kBackpressureHigh => b'.highWater
    <3>1. m > kBackpressureHigh => b.out > kBackpressureHigh
      BY <1>2, <2>3
    <3>2. QED
      BY <2>4, <3>1 DEF PauseInv, UpPause
  <2>6. UpPause'
    BY <1>5, <2>1, <2>4, <2>5 DEF PauseInv, UpPause, AtHead
  <2>7. DownPause'
    BY <1>9, <2>1, <2>4
  <2>8. QED
    BY <2>6, <2>7 DEF PauseInv
<1>11. CASE FlushError
  <2>1. c' = c /\ b' = b /\ Then(<<"fail">>) /\ AtHead("flush") /\ ~AtHead("on_backend_drained")
    BY <1>11 DEF FlushError, Doing, AtHead
  <2>2. todo' # <<>> /\ Head(todo') = "fail"
    BY <1>1, <1>4, <1>7, <2>1, Then1
  <2>3. UpPause'
    BY <1>5, <2>1, <2>2 DEF PauseInv, UpPause, AtHead
  <2>4. QED
    BY <1>9, <2>1, <2>3 DEF PauseInv
<1>12. CASE FlushDone
  <2>1. c' = c /\ AtHead("flush") /\ ~AtHead("on_backend_drained")
    BY <1>12 DEF FlushDone, Doing, AtHead
  <2>2. PICK h \in BOOLEAN : h = (b.highWater /\ ~Drained(b)) /\ b' = [b EXCEPT !.highWater = h]
    <3>1. (b.highWater /\ ~Drained(b)) \in BOOLEAN
      OBVIOUS
    <3>2. QED
      BY <1>12, <3>1, Zenon DEF FlushDone
  <2>3. b'.out = b.out /\ b'.readPaused = b.readPaused /\ b'.highWater = h
    BY <1>1, <2>2 DEF BackendSet
  <2>4. h <=> b.highWater /\ ~(b.out < kBackpressureLow)
    BY <2>2 DEF Drained
  <2>5. b.out > kBackpressureHigh => h
    BY <1>2, <2>4 DEF PauseInv, UpPause
  <2>6. CASE Drained(b) /\ b.client /\ Then(<<"on_backend_drained", "apply_interest">>)
    <3>1. todo' # <<>> /\ Head(todo') = "on_backend_drained"
      BY <1>1, <1>4, <1>7, <1>8, <2>6, DThen2
    <3>2. UpPause'
      BY <1>5, <2>1, <2>3, <2>5, <3>1 DEF UpPause, AtHead
    <3>3. QED
      BY <1>9, <2>1, <2>3, <3>2 DEF PauseInv
  <2>7. CASE ~(Drained(b) /\ b.client) /\ Then(<<"apply_interest">>)
    <3>1. c.backend /\ c.readPaused => h /\ b.out >= kBackpressureLow
      <4>1. c.backend => ~Drained(b)
        BY <1>6, <2>7
      <4>2. c.backend /\ c.readPaused => b.highWater
        BY <2>1 DEF PauseInv, UpPause
      <4>3. QED
        BY <1>2, <2>4, <4>1, <4>2 DEF Drained
    <3>2. UpPause'
      BY <1>5, <2>1, <2>3, <2>5, <3>1 DEF UpPause
    <3>3. QED
      BY <1>9, <2>1, <2>3, <3>2 DEF PauseInv
  <2>8. QED
    BY <1>12, <2>6, <2>7, FlushCalls
<1>13. CASE Fail
  <2> DEFINE cc == [c EXCEPT !.backend = FALSE]
  <2>1. /\ cc \in ClientSet /\ DetachClient(b) \in BackendSet /\ ~cc.backend
        /\ DetachClient(b).out = b.out /\ DetachClient(b).highWater = b.highWater
    BY <1>1 DEF ClientSet, DetachClient, BackendSet
  <2>2. \/ ~b.client /\ c' = c /\ b' = b /\ Then(<<"request_close">>)
        \/ CloseBoth(cc, DetachClient(b)) /\ Then(<<"request_close">>)
        \/ c' = cc /\ b' = DetachClient(b) /\ Then(<<"send_response", "request_close">>)
    BY <1>13 DEF Fail, OnBackendError
  <2> HIDE DEF cc
  <2>3. CASE ~b.client /\ c' = c /\ b' = b
    BY <1>5, <1>6, <2>3 DEF PauseInv, DownPause, UpPause
  <2>4. CASE CloseBoth(cc, DetachClient(b))
    BY <2>1, <2>4, CloseFields, PauseClosed
  <2>5. CASE c' = cc /\ b' = DetachClient(b) /\ Then(<<"send_response", "request_close">>)
    <3>1. todo' # <<>> /\ Head(todo') = "send_response"
      BY <1>1, <1>4, <1>7, <1>8, <2>5, DThen2
    <3>2. QED
      BY <2>1, <2>5, <3>1 DEF PauseInv, DownPause, UpPause, AtHead
  <2>6. QED
    BY <2>2, <2>3, <2>4, <2>5
<1>14. CASE OnBackendDrained
  <2>1. /\ b' = b
        /\ \/ c' = c /\ (c.closed \/ ~c.readPaused)
           \/ c' = [c EXCEPT !.readPaused = FALSE]
    BY <1>14 DEF OnBackendDrained
  <2>2. CASE c' = c /\ (c.closed \/ ~c.readPaused)
    <3>1. c.readPaused => ~c.backend
      BY <2>2 DEF Core, PointerInv
    <3>2. UpPause'
      BY <1>5, <2>1, <2>2, <3>1 DEF PauseInv, UpPause
    <3>3. QED
      BY <1>9, <2>1, <2>2, <3>2 DEF PauseInv
  <2>3. CASE c' = [c EXCEPT !.readPaused = FALSE]
    <3>1. /\ ~c'.readPaused /\ c'.backend = c.backend /\ c'.backendPaused = c.backendPaused
          /\ c'.out = c.out
      BY <1>1, <2>3 DEF ClientSet
    <3>2. UpPause'
      BY <2>1, <3>1 DEF PauseInv, UpPause
    <3>3. QED
      BY <1>9, <2>1, <3>1, <3>2 DEF PauseInv
  <2>4. QED
    BY <2>1, <2>2, <2>3
<1>15. QED
  BY <1>10, <1>11, <1>12, <1>13, <1>14

LEMMA PauseNext ==
  ASSUME Core, ResponseInv, BufferInv, ForwardInv, PauseInv, [Next]_vars PROVE PauseInv'
<1>1. Core' /\ ResponseInv'
  BY CoreNext, ResponseNext
<1>2. CASE \/ Drive \/ DriveWrite \/ RecomputeInterest \/ PumpReadStop \/ PumpReadBlock
           \/ PumpReadEof \/ PumpReadError \/ PumpWriteEnd \/ PumpWriteError \/ OnErrorClient
           \/ TimeoutClient
  BY <1>1, <1>2, PauseClient
<1>3. CASE \/ BackendReadStop \/ BackendReadEof \/ BackendReadError \/ OnBackendClosed \/ RequestClose
           \/ OnWritable \/ TimeoutBackend \/ FlushApplyInterest
  BY <1>1, <1>3, PauseBackend
<1>4. CASE EpollWait \/ Dispatch \/ Env \/ TimePasses \/ ProcessPendingClose
  BY <1>4, PauseLoop
<1>5. CASE \/ ProcessHeadIncomplete \/ ProcessHeadReject \/ HandleInternal \/ StartBackendFails
           \/ ProcessHeadForward \/ PumpReadData \/ ForwardBodyRest
           \/ SendResponse("send_response", ReplyLen) \/ SendResponse("send_head", 1)
  BY <1>1, <1>5, PauseRequest
<1>6. CASE \/ PumpWriteSome \/ PumpWriteBlock \/ PumpWriteDrained \/ ResumeReads \/ BackendReadData
           \/ DeliverRest
  BY <1>1, <1>6, PauseResponse
<1>7. CASE FlushSome \/ FlushError \/ FlushDone \/ Fail \/ OnBackendDrained
  BY <1>1, <1>7, PauseFlush
<1>8. CASE Finished \/ UNCHANGED vars
  <2>1. c' = c /\ b' = b /\ todo' = todo
    BY <1>8 DEF Finished, vars
  <2>2. QED
    BY <2>1, PauseKept DEF KeptClient, KeptBackend, NotOwing
<1>9. QED
  BY <1>2, <1>3, <1>4, <1>5, <1>6, <1>7, <1>8 DEF Next, LoopStep

LEMMA PauseInvariant == Spec => [](Core /\ ResponseInv /\ BufferInv /\ ForwardInv /\ PauseInv)
<1>1. Init => Core /\ ResponseInv /\ BufferInv /\ ForwardInv /\ PauseInv
  BY CoreInit, ResponseInit, BufferInit, ForwardInit, PauseInit
<1>2. (Core /\ ResponseInv /\ BufferInv /\ ForwardInv /\ PauseInv) /\ [Next]_vars
        => (Core /\ ResponseInv /\ BufferInv /\ ForwardInv /\ PauseInv)'
  BY CoreNext, ResponseNext, BufferNext, ForwardNext, PauseNext
<1>3. QED
  BY <1>1, <1>2, PTL DEF Spec

(* Whenever the loop goes to sleep, a client whose reads are paused has a  *)
(* backend buffer at or above the low-water mark whose draining flush will *)
(* report, and a backend whose reads are paused has a client with bytes    *)
(* whose writing will resume it: no pause outlives the call that ends it,  *)
(* for any marks, chunk and socket sizes.                                  *)
THEOREM PausesAlwaysEnd == Spec => []PausesEnd
<1>1. Core /\ PauseInv => PausesEnd
  <2> SUFFICES ASSUME Core, PauseInv, Idle, c.alive
               PROVE  /\ c.readPaused /\ c.state # "Closing"
                           => c.backend /\ b.highWater /\ b.out >= kBackpressureLow
                      /\ c.backend => (b.readPaused <=> c.backendPaused)
                      /\ c.backend /\ c.backendPaused => c.out > 0
    BY DEF PausesEnd
  <2>1. \A f : ~AtHead(f)
    BY DEF Idle, AtHead
  <2>2. ~c.closed
    BY DEF Core, LifeInv, Idle
  <2>3. QED
    BY <2>1, <2>2 DEF PauseInv, DownPause, UpPause
<1>2. QED
  BY <1>1, PauseInvariant, PTL

-----------------------------------------------------------------------------
(* The order of calls on the stack, as far as the wake-ups depend on it.   *)

\* A pump goes on with these, whatever it calls before.
Leads == {"pump_read", "pump_write", "pump_write_end"}
Updaters == {"recompute_interest", "deliver_rest"}
Follows(f, g) ==
  /\ f = "pump_read" => g = "drive_write"
  /\ f \in {"pump_write", "pump_write_end"} => g \in Updaters
Followed(t) == \A i \in 1 .. Len(t) : t[i] \in Leads => i < Len(t) /\ Follows(t[i], t[i + 1])

\* What the resumed backend may run inside pump_write: it delivers, or ends.
AboveEnd ==
  {"resume_reads", "on_readable", "pump_write", "pump_write_end", "deliver_rest",
   "on_backend_closed", "request_close", "fail", "send_response", "recompute_interest"}

OrderInv ==
  /\ Followed(todo) /\ Above(todo, "pump_write_end") \subseteq AboveEnd
  /\ AtHead("flush") => b.connected

\* Only the running function leaves the stack.
Kept == \A f \in Calls(todo) : f \in Calls(todo') \/ AtHead(f)

LEMMA FollowedTail ==
  ASSUME NEW t \in Seq(Functions), t # <<>>, Followed(t)
  PROVE  /\ Followed(Tail(t))
         /\ Head(t) \in Leads => Tail(t) # <<>> /\ Follows(Head(t), Head(Tail(t)))
<1>1. /\ Len(t) \in Nat /\ Len(t) > 0 /\ Tail(t) \in Seq(Functions)
      /\ Len(Tail(t)) = Len(t) - 1
      /\ \A i \in 1 .. Len(t) - 1 : Tail(t)[i] = t[i + 1]
      /\ Head(t) = t[1]
  OBVIOUS
<1>2. ASSUME NEW i \in 1 .. Len(Tail(t)), Tail(t)[i] \in Leads
      PROVE  i < Len(Tail(t)) /\ Follows(Tail(t)[i], Tail(t)[i + 1])
  <2>1. i + 1 \in 1 .. Len(t) /\ Tail(t)[i] = t[i + 1]
    BY <1>1
  <2>2. i + 1 < Len(t) /\ Follows(t[i + 1], t[(i + 1) + 1])
    BY <1>2, <2>1 DEF Followed
  <2>3. i + 1 \in 1 .. Len(t) - 1
    BY <1>1, <2>1, <2>2
  <2>4. Tail(t)[i + 1] = t[(i + 1) + 1]
    BY <1>1, <2>3
  <2>5. i < Len(Tail(t))
    BY <1>1, <2>2
  <2>6. QED
    BY <2>1, <2>2, <2>4, <2>5
<1>3. ASSUME Head(t) \in Leads PROVE Tail(t) # <<>> /\ Follows(Head(t), Head(Tail(t)))
  <2>1. 1 < Len(t) /\ Follows(t[1], t[1 + 1])
    BY <1>1, <1>3 DEF Followed
  <2>2. Tail(t) # <<>> /\ Head(Tail(t)) = t[2]
    BY <1>1, <2>1
  <2>3. QED
    BY <1>1, <2>1, <2>2
<1>4. QED
  BY <1>2, <1>3 DEF Followed

LEMMA FollowedPush ==
  ASSUME NEW s \in Seq(Functions), NEW f \in Functions, Followed(s),
         f \in Leads => s # <<>> /\ Follows(f, Head(s))
  PROVE  Followed(<<f>> \o s)
<1> DEFINE t == <<f>> \o s
<1>1. /\ t \in Seq(Functions) /\ Len(t) = Len(s) + 1 /\ Len(s) \in Nat
      /\ t[1] = f /\ \A i \in 1 .. Len(s) : t[i + 1] = s[i]
      /\ s # <<>> => Len(s) > 0 /\ Head(s) = s[1]
  OBVIOUS
<1> HIDE DEF t
<1>2. ASSUME NEW i \in 1 .. Len(t), t[i] \in Leads PROVE i < Len(t) /\ Follows(t[i], t[i + 1])
  <2>1. CASE i = 1
    <3>1. s # <<>> /\ Follows(f, Head(s))
      BY <1>1, <1>2, <2>1
    <3>2. t[1 + 1] = s[1]
      BY <1>1, <3>1
    <3>3. QED
      BY <1>1, <2>1, <3>1, <3>2
  <2>2. CASE i # 1
    <3>1. i - 1 \in 1 .. Len(s) /\ (i - 1) + 1 = i
      BY <1>1, <2>2
    <3>2. t[i] = s[i - 1]
      BY <1>1, <3>1
    <3>3. i - 1 < Len(s) /\ Follows(s[i - 1], s[(i - 1) + 1])
      BY <1>2, <3>1, <3>2 DEF Followed
    <3>4. i \in 1 .. Len(s)
      BY <3>1, <3>3
    <3>5. t[i + 1] = s[i]
      BY <1>1, <3>4
    <3>6. QED
      BY <1>1, <3>1, <3>2, <3>3, <3>5
  <2>3. QED
    BY <2>1, <2>2
<1>3. Followed(t)
  BY <1>2 DEF Followed
<1>4. QED
  BY <1>3 DEF t

LEMMA OrderInit == Init => OrderInv
<1>1. ASSUME Init PROVE todo = <<>> /\ Len(todo) = 0 /\ Above(todo, "pump_write_end") = {}
  BY <1>1 DEF Init, Above
<1>2. QED
  BY <1>1 DEF OrderInv, Followed, AtHead

\* Calls that may take the place of the running function: none but those of a
\* resumed backend inside a pump_write.
Fits(new) == new \subseteq AboveEnd \/ (Head(todo) \notin AboveEnd /\ "pump_write_end" \notin new)
\* A pump in the place of another goes on as that one would have.
Takes(g) ==
  g \in Leads => Head(todo) \in Leads /\ \A x : Follows(Head(todo), x) => Follows(g, x)

LEMMA EndAbove ==
  ASSUME Types, Types', OrderInv, todo # <<>>, NEW new, Pushed(new), Fits(new)
  PROVE  Above(todo', "pump_write_end") \subseteq AboveEnd /\ Kept
<1>1. todo \in Seq(Functions) /\ todo' \in Seq(Functions)
  BY DEF Types
<1>2. Kept
  <2>1. Calls(todo) = {Head(todo)} \cup Deeper(todo)
    BY <1>1, Stack
  <2>2. QED
    BY <2>1 DEF Pushed, Kept, AtHead
<1>3. CASE new \subseteq AboveEnd
  BY <1>2, <1>3 DEF Pushed, OrderInv
<1>4. CASE Head(todo) \notin AboveEnd /\ "pump_write_end" \notin new
  <2>1. "pump_write_end" \notin Deeper(todo)
    BY <1>1, <1>4, AboveTail DEF OrderInv
  <2>2. "pump_write_end" \notin Calls(todo')
    BY <1>4, <2>1 DEF Pushed
  <2> DEFINE t == todo'
  <2>3. t \in Seq(Functions) /\ "pump_write_end" \notin Calls(t)
    BY <1>1, <2>2
  <2> HIDE DEF t
  <2>4. CASE t = <<>>
    BY <1>2, <2>4 DEF t, Above
  <2>5. CASE t # <<>>
    <3>1. "pump_write_end" \notin Deeper(t)
      BY <2>3, <2>5, Stack
    <3>2. Above(t, "pump_write_end") = {}
      BY <2>3, <2>5, <3>1, AboveTail
    <3>3. QED
      BY <1>2, <3>2 DEF t
  <2>6. QED
    BY <2>4, <2>5
<1>5. QED
  BY <1>3, <1>4, <1>2 DEF Fits

LEMMA OReturn ==
  ASSUME Core, Types', OrderInv, todo # <<>>, Return PROVE OrderInv' /\ Kept
<1>1. Types /\ Discipline /\ todo \in Seq(Functions) /\ todo' = Tail(todo)
  BY DEF Core, Types, Return
<1>2. Pushed({}) /\ Fits({})
  BY <1>1, PReturn DEF Fits
<1>3. Followed(todo')
  BY <1>1, FollowedTail DEF OrderInv
<1>4. ~(todo' # <<>> /\ Head(todo') = "flush")
  BY <1>1, DReturn DEF HeadOnly
<1>5. QED
  BY <1>1, <1>2, <1>3, <1>4, EndAbove DEF OrderInv, AtHead

LEMMA OThen1 ==
  ASSUME Types, Types', OrderInv, todo # <<>>, NEW f \in Functions, Then(<<f>>),
         Takes(f), Fits({f}), f = "flush" => b'.connected
  PROVE  OrderInv' /\ Kept
<1>1. todo \in Seq(Functions) /\ Tail(todo) \in Seq(Functions) /\ todo' = <<f>> \o Tail(todo)
  BY Stack DEF Types, Then
<1>2. Followed(Tail(todo)) /\ (Head(todo) \in Leads => Tail(todo) # <<>> /\ Follows(Head(todo), Head(Tail(todo))))
  BY <1>1, FollowedTail DEF OrderInv
<1>3. f \in Leads => Tail(todo) # <<>> /\ Follows(f, Head(Tail(todo)))
  BY <1>2 DEF Takes
<1>4. Followed(todo')
  BY <1>1, <1>2, <1>3, FollowedPush
<1>5. todo' # <<>> /\ Head(todo') = f
  BY <1>1, Then1
<1>6. QED
  BY <1>4, <1>5, PThen1, EndAbove DEF OrderInv, AtHead

LEMMA OThen2 ==
  ASSUME Types, Types', OrderInv, todo # <<>>, NEW f \in Functions, NEW g \in Functions,
         Then(<<f, g>>), f \in Leads => Follows(f, g), Takes(g), Fits({f, g}),
         f = "flush" => b'.connected
  PROVE  OrderInv' /\ Kept
<1>1. todo \in Seq(Functions) /\ Tail(todo) \in Seq(Functions)
  BY Stack DEF Types
<1>2. Followed(Tail(todo)) /\ (Head(todo) \in Leads => Tail(todo) # <<>> /\ Follows(Head(todo), Head(Tail(todo))))
  BY <1>1, FollowedTail DEF OrderInv
<1>3. g \in Leads => Tail(todo) # <<>> /\ Follows(g, Head(Tail(todo)))
  BY <1>2 DEF Takes
<1> DEFINE s == <<g>> \o Tail(todo)
<1>4. todo' = <<f>> \o s
  BY <1>1, PushTwo DEF Then
<1>5. s \in Seq(Functions) /\ s # <<>> /\ Head(s) = g /\ Followed(s)
  BY <1>1, <1>2, <1>3, Push, FollowedPush
<1> HIDE DEF s
<1>6. Followed(todo')
  BY <1>4, <1>5, FollowedPush
<1>7. todo' # <<>> /\ Head(todo') = f
  BY <1>1, Then2
<1>8. QED
  BY <1>6, <1>7, PThen2, EndAbove DEF OrderInv, AtHead

LEMMA OThen3 ==
  ASSUME Types, Types', OrderInv, todo # <<>>, NEW f \in Functions, NEW g \in Functions,
         NEW h \in Functions, Then(<<f, g, h>>), f \in Leads => Follows(f, g),
         g \in Leads => Follows(g, h), Takes(h), Fits({f, g, h}),
         f = "flush" => b'.connected
  PROVE  OrderInv' /\ Kept
<1>1. todo \in Seq(Functions) /\ Tail(todo) \in Seq(Functions)
  BY Stack DEF Types
<1>2. Followed(Tail(todo)) /\ (Head(todo) \in Leads => Tail(todo) # <<>> /\ Follows(Head(todo), Head(Tail(todo))))
  BY <1>1, FollowedTail DEF OrderInv
<1>3. h \in Leads => Tail(todo) # <<>> /\ Follows(h, Head(Tail(todo)))
  BY <1>2 DEF Takes
<1> DEFINE s == <<h>> \o Tail(todo)
           u == <<g>> \o s
<1>4. todo' = <<f>> \o u
  <2>1. todo' = <<f>> \o (<<g, h>> \o Tail(todo))
    BY <1>1, PushThree DEF Then
  <2>2. <<g, h>> \o Tail(todo) = u
    BY <1>1, PushTwo
  <2>3. QED
    BY <2>1, <2>2
<1>5. s \in Seq(Functions) /\ s # <<>> /\ Head(s) = h /\ Followed(s)
  BY <1>1, <1>2, <1>3, Push, FollowedPush
<1> HIDE DEF s
<1>6. u \in Seq(Functions) /\ u # <<>> /\ Head(u) = g /\ Followed(u)
  BY <1>5, Push, FollowedPush
<1> HIDE DEF u
<1>7. Followed(todo')
  BY <1>4, <1>6, FollowedPush
<1>8. todo' # <<>> /\ Head(todo') = f
  BY <1>1, Then3
<1>9. QED
  BY <1>7, <1>8, PThen3, EndAbove DEF OrderInv, AtHead

LEMMA OrderNext ==
  ASSUME Core, OrderInv, [Next]_vars PROVE OrderInv' /\ Kept
<1>1. Types /\ Types' /\ todo' \in Seq(Functions)
  BY CoreNext DEF Core, Types
<1>2. ASSUME NEW h, Doing(h), Return PROVE OrderInv' /\ Kept
  BY <1>1, <1>2, OReturn DEF Doing
<1>3. ASSUME NEW h, Doing(h), NEW f \in Functions, f \notin Leads, Then(<<f>>),
             f \in AboveEnd \/ h \notin AboveEnd, f # "flush" \/ b'.connected
      PROVE  OrderInv' /\ Kept
  <2>1. todo # <<>> /\ Takes(f) /\ Fits({f})
    BY <1>3 DEF Doing, Takes, Fits, Leads
  <2>2. QED
    BY <1>1, <1>3, <2>1, OThen1
<1>4. ASSUME NEW h, Doing(h), NEW f \in Functions, NEW g \in Functions, g \notin Leads,
             Then(<<f, g>>), f \in Leads => Follows(f, g),
             (f \in AboveEnd /\ g \in AboveEnd) \/ (h \notin AboveEnd /\ f # "pump_write_end"),
             f # "flush"
      PROVE  OrderInv' /\ Kept
  <2>1. todo # <<>> /\ Takes(g) /\ Fits({f, g})
    BY <1>4 DEF Doing, Takes, Fits, Leads
  <2>2. QED
    BY <1>1, <1>4, <2>1, OThen2
<1>5. /\ \A f \in {"on_readable", "fail", "drive", "flush", "send_response", "send_head", "request_close",
                   "on_backend_closed", "on_backend_drained", "apply_interest", "drive_write",
                   "recompute_interest", "forward_body_rest", "process_head", "deliver_rest",
                   "resume_reads"} : f \in Functions /\ f \notin Leads
      /\ \A f \in Leads : f \in Functions
      /\ \A f \in {"on_readable", "fail", "send_response", "request_close", "on_backend_closed",
                   "pump_write", "recompute_interest", "deliver_rest", "resume_reads",
                   "pump_write_end"} : f \in AboveEnd
      /\ \A f \in {"drive", "pump_read", "process_head", "flush", "on_writable", "on_backend_drained",
                   "timeout_backend"} : f \notin AboveEnd
      /\ Follows("pump_read", "drive_write") /\ Follows("pump_write", "recompute_interest")
      /\ Follows("pump_write", "deliver_rest")
  BY DEF Functions, Leads, AboveEnd, Follows, Updaters
<1>6. CASE \/ RecomputeInterest \/ PumpReadStop \/ PumpReadBlock \/ PumpReadEof \/ PumpReadError
           \/ ProcessHeadIncomplete \/ PumpWriteBlock \/ PumpWriteError \/ PumpWriteEnd \/ DeliverRest
           \/ BackendReadStop \/ RequestClose \/ FlushApplyInterest \/ OnErrorClient \/ TimeoutClient
  BY <1>2, <1>6
     DEF RecomputeInterest, PumpReadStop, PumpReadBlock, PumpReadEof, PumpReadError, Receiving,
         ProcessHeadIncomplete, PumpWriteBlock, PumpWriteError, PumpWriteEnd, DeliverRest,
         BackendReadStop, RequestClose, FlushApplyInterest, OnErrorClient, TimeoutClient
<1>7. CASE \/ ResumeReads \/ TimeoutBackend \/ OnBackendDrained \/ StartBackendFails
           \/ ProcessHeadReject \/ HandleInternal \/ BackendReadError \/ FlushError
  BY <1>2, <1>3, <1>5, <1>7
     DEF ResumeReads, TimeoutBackend, OnBackendDrained, StartBackendFails,
         ProcessHeadReject, HandleInternal, BackendReadError, FlushError
<1>8. CASE \/ Drive \/ DriveWrite \/ OnBackendClosed
           \/ SendResponse("send_response", ReplyLen) \/ SendResponse("send_head", 1)
  <2>1. "pump_write" \in Functions /\ "pump_read" \in Functions
    BY <1>5 DEF Leads
  <2>2. CASE Drive
    <3>1. Doing("drive") /\ (Return \/ Then(<<"pump_read", "drive_write">>))
      BY <2>2 DEF Drive
    <3>2. QED
      BY <1>2, <1>4, <1>5, <2>1, <3>1
  <2>3. CASE \/ DriveWrite \/ OnBackendClosed
             \/ SendResponse("send_response", ReplyLen) \/ SendResponse("send_head", 1)
    <3>1. PICK h : Doing(h)
      BY <2>3 DEF DriveWrite, OnBackendClosed, SendResponse
    <3>2. Return \/ Then(<<"pump_write", "recompute_interest">>)
      BY <2>3 DEF DriveWrite, OnBackendClosed, SendResponse
    <3>3. QED
      BY <1>2, <1>4, <1>5, <2>1, <3>1, <3>2
  <2>4. QED
    BY <1>8, <2>2, <2>3
<1>9. CASE BackendReadEof \/ Fail
  <2>1. CASE BackendReadEof
    <3>1. /\ Doing("on_readable")
          /\ Then(<<"on_backend_closed", "request_close">>) \/ Then(<<"request_close">>)
      BY <2>1 DEF BackendReadEof
    <3>2. QED
      BY <1>3, <1>4, <1>5, <3>1
  <2>2. CASE Fail
    <3>1. /\ Doing("fail")
          /\ Then(<<"send_response", "request_close">>) \/ Then(<<"request_close">>)
      BY <2>2 DEF Fail, OnBackendError
    <3>2. QED
      BY <1>3, <1>4, <1>5, <3>1
  <2>3. QED
    BY <1>9, <2>1, <2>2
<1>10. CASE FlushDone
  <2>1. Doing("flush")
    BY <1>10 DEF FlushDone
  <2>2. QED
    BY <1>3, <1>4, <1>5, <1>10, <2>1, FlushCalls
<1>11. CASE ProcessHeadForward
  <2>1. Doing("process_head")
    BY <1>11 DEF ProcessHeadForward
  <2>2. QED
    BY <1>2, <1>3, <1>5, <1>11, <2>1, HeadForwarded
<1>12. ASSUME todo' = todo, AtHead("flush") => b'.connected PROVE OrderInv' /\ Kept
  BY <1>12 DEF OrderInv, Kept, AtHead
<1>13. CASE PumpWriteDrained
  <2>1. todo # <<>> /\ Head(todo) = "pump_write"
    BY <1>13 DEF PumpWriteDrained, Doing
  <2>2. Takes("pump_write_end")
    BY <2>1 DEF Takes, Leads, Follows
  <2>3. Fits({"pump_write_end"}) /\ Fits({"resume_reads", "pump_write_end"})
    BY <1>5 DEF Fits
  <2>4. Then(<<"resume_reads", "pump_write_end">>) \/ Then(<<"pump_write_end">>)
    BY <1>13 DEF PumpWriteDrained
  <2>5. QED
    BY <1>1, <1>5, <2>1, <2>2, <2>3, <2>4, OThen1, OThen2 DEF Leads
<1>14. CASE OnWritable
  <2>1. CASE /\ Then(<<"flush">>) /\ Doing("on_writable")
             /\ \/ b.connected /\ b' = b
                \/ b' = [b EXCEPT !.connected = TRUE, !.idle = FALSE]
    <3>1. b'.connected
      BY <1>1, <2>1 DEF Types, BackendSet
    <3>2. QED
      BY <1>3, <1>5, <2>1, <3>1
  <2>2. CASE Doing("on_writable") /\ (Return \/ Then(<<"fail">>))
    BY <1>2, <1>3, <1>5, <2>2
  <2>3. QED
    BY <1>14, <2>1, <2>2 DEF OnWritable
<1>15. CASE BackendReadData
  <2>1. todo # <<>> /\ Takes("on_readable") /\ Fits({"pump_write", "deliver_rest", "on_readable"})
    BY <1>5, <1>15 DEF BackendReadData, Doing, Takes, Fits
  <2>2. Then(<<"pump_write", "deliver_rest", "on_readable">>) \/ todo' = todo
    BY <1>15 DEF BackendReadData, DeliverLoop
  <2>3. "pump_write" \in Functions /\ ~AtHead("flush")
    BY <1>5, <1>15 DEF Leads, BackendReadData, Doing, AtHead
  <2>4. QED
    BY <1>1, <1>5, <1>12, <2>1, <2>2, <2>3, OThen3
<1>16. CASE PumpReadData
  <2>1. todo # <<>> /\ Head(todo) = "pump_read"
    BY <1>16 DEF PumpReadData, Receiving, Doing
  <2> DEFINE n == AtMost(net.client.rcv, Chunk)
             cc == [c EXCEPT !.idle = FALSE]
  <2>2. \/ Then(<<"process_head", "pump_read">>)
        \/ ForwardBody(cc, b, n, <<"pump_read">>)
        \/ todo' = todo
    BY <1>16, Zenon DEF PumpReadData
  <2> HIDE DEF n, cc
  <2>3. \/ todo' = todo \/ Then(<<"pump_read">>) \/ Then(<<"process_head", "pump_read">>)
        \/ Then(<<"forward_body_rest", "pump_read">>)
        \/ Then(<<"flush", "forward_body_rest", "pump_read">>) /\ b'.connected
    <3>1. CASE ForwardBody(cc, b, n, <<"pump_read">>) /\ ~cc.backend
      BY <3>1 DEF ForwardBody
    <3>2. CASE ForwardBody(cc, b, n, <<"pump_read">>) /\ cc.backend
      <4>1. b' = Queued(b, Take(cc, n))
        BY <3>2, Zenon DEF ForwardBody
      <4>2. \A m : Queued(b, m).connected = b.connected
        BY <1>1 DEF Types, BackendSet, Queued
      <4>3. QED
        BY <3>2, <4>1, <4>2, ForwardCalls
    <3>3. QED
      BY <2>2, <3>1, <3>2
  <2>4. Takes("pump_read")
    BY <2>1 DEF Takes, Leads
  <2>5. \A new : "pump_write_end" \notin new => Fits(new)
    BY <1>5, <2>1 DEF Fits
  <2>6. /\ Fits({"pump_read"}) /\ Fits({"process_head", "pump_read"})
        /\ Fits({"forward_body_rest", "pump_read"}) /\ Fits({"flush", "forward_body_rest", "pump_read"})
    BY <2>5
  <2>7. "pump_read" \in Functions
    BY <1>5 DEF Leads
  <2>8. ~AtHead("flush")
    BY <2>1 DEF AtHead
  <2>9. QED
    BY <1>1, <1>5, <1>12, <2>1, <2>3, <2>4, <2>6, <2>7, <2>8, OThen1, OThen2, OThen3
<1>17. CASE ForwardBodyRest
  <2>1. Doing("forward_body_rest") /\ (Return \/ todo' = todo)
    BY <1>17 DEF ForwardBodyRest
  <2>2. ~AtHead("flush")
    BY <2>1 DEF Doing, AtHead
  <2>3. QED
    BY <1>2, <1>12, <2>1, <2>2
<1>18. CASE \/ PumpWriteSome \/ FlushSome \/ EpollWait \/ Env \/ TimePasses \/ ProcessPendingClose
            \/ Finished \/ UNCHANGED vars
  <2>1. todo' = todo
    BY <1>18 DEF PumpWriteSome, FlushSome, EpollWait, Env, PeerSends, PeerCloses, PeerReads, PeerResets,
                 BackendAccepts, BackendRefuses, TimePasses, ProcessPendingClose, Finished, vars
  <2>2. AtHead("flush") => b' = b \/ \E x, y : b' = [b EXCEPT !.out = x, !.idle = y] \/ b' = [b EXCEPT !.idle = y]
    BY <1>18, Zenon DEF PumpWriteSome, FlushSome, EpollWait, Env, PeerSends, PeerCloses, PeerReads,
         PeerResets, BackendAccepts, BackendRefuses, TimePasses, ProcessPendingClose, Finished, vars,
         Idle, AtHead
  <2>3. AtHead("flush") => b'.connected
    BY <1>1, <2>2 DEF Types, BackendSet, OrderInv
  <2>4. QED
    BY <1>12, <2>1, <2>3
<1>19. CASE Dispatch
  <2> DEFINE t == todo'
  <2>1. t \in Seq(Functions) /\ \A x \in Calls(t) : x \notin Leads
    <3>1. \A x \in Calls(todo') : x \in {"timeout_client", "timeout_backend", "on_error_client", "drive",
                                        "fail", "on_readable", "on_writable"}
      BY <1>19, DispatchCalls
    <3>2. QED
      BY <1>1, <3>1 DEF Leads
  <2> HIDE DEF t
  <2>2. Followed(t)
    BY <2>1 DEF Followed, Calls
  <2>3. Above(t, "pump_write_end") = {}
    <3>1. CASE t = <<>>
      BY <3>1 DEF Above
    <3>2. CASE t # <<>>
      BY <2>1, <3>2, Stack, AboveTail DEF Leads
    <3>3. QED
      BY <3>1, <3>2
  <2>4. todo = <<>> /\ ~(todo' # <<>> /\ Head(todo') = "flush")
    BY <1>19, DispatchCalls DEF Dispatch
  <2>5. Kept
    BY <2>4 DEF Kept, Calls
  <2>6. QED
    BY <2>2, <2>3, <2>4, <2>5 DEF OrderInv, AtHead, t
<1>20. QED
  BY <1>6, <1>7, <1>8, <1>9, <1>10, <1>11, <1>13, <1>15, <1>16, <1>17, <1>18, <1>19, <1>14
     DEF Next, LoopStep

-----------------------------------------------------------------------------
(* Edges: what a handler still wants and its socket has is in epoll's      *)
(* ready list, in the batch, or the business of a function on the stack.   *)

Owes(S) == \E f \in S : f \in Calls(todo)
Seen(fd, e) == fd \in queued \/ \E x \in batch : x.fd = fd /\ e \in x.ev
HasIn(fd) == net[fd].rcv > 0 \/ net[fd].eof \/ net[fd].err
HasOut(fd) == (net[fd].up /\ net[fd].space > 0) \/ net[fd].err

\* Nothing happens to fd, registered for ev, that epoll does not hear of.
Heard(fd, ev) ==
  /\ HasIn(fd)' => HasIn(fd) \/ fd \in queued' \/ "in" \notin ev
  /\ HasOut(fd)' => HasOut(fd) \/ fd \in queued' \/ "out" \notin ev

LEMMA ReadyEvents ==
  ASSUME NEW fd
  PROVE  ("in" \in Ready(fd) <=> HasIn(fd)) /\ ("out" \in Ready(fd) <=> HasOut(fd))
  BY DEF Ready, HasIn, HasOut

LEMMA UpdateKeeps ==
  ASSUME NEW q, NEW fd, NEW old, NEW new
  PROVE  /\ \A x \in q : x \in Update(q, fd, old, new)
         /\ new # old /\ "in" \in new /\ HasIn(fd) => fd \in Update(q, fd, old, new)
         /\ new # old /\ "out" \in new /\ HasOut(fd) => fd \in Update(q, fd, old, new)
<1>1. "in" \in new /\ HasIn(fd) => Ready(fd) \cap (new \cup {"err"}) # {}
  BY ReadyEvents
<1>2. "out" \in new /\ HasOut(fd) => Ready(fd) \cap (new \cup {"err"}) # {}
  BY ReadyEvents
<1>3. QED
  BY <1>1, <1>2 DEF Update

\* The peers and the kernel.
LEMMA EnvEdges ==
  ASSUME Types, Env
  PROVE  /\ c' = c /\ b' = b /\ todo' = todo /\ batch' = batch /\ \A x \in queued : x \in queued'
         /\ Heard("client", c.interest) /\ Heard("backend", b.interest)
         /\ ~b.alive => net'.backend = net.backend
<1>1. net \in [Fds -> SocketSet] /\ net.client \in SocketSet /\ net.backend \in SocketSet
  BY DEF Types, Fds
<1>2. SockBuf \in Nat /\ \A fd \in Fds : net[fd] \in SocketSet /\ net[fd].rcv \in Nat /\ net[fd].space \in Nat
  BY <1>1, Sizes DEF Fds, SocketSet
<1>3. c' = c /\ b' = b /\ todo' = todo /\ batch' = batch
  BY DEF Env, PeerSends, PeerCloses, PeerReads, PeerResets, BackendAccepts, BackendRefuses
<1>4. ASSUME NEW fd \in Fds, NEW s, net' = [net EXCEPT ![fd] = s]
      PROVE  net'[fd] = s /\ \A x \in Fds : x # fd => net'[x] = net[x]
  BY <1>1, <1>4 DEF Fds
<1>5. ASSUME NEW fd \in Fds, NEW s, net' = [net EXCEPT ![fd] = s], NEW e, Wake(fd, e),
             (s.rcv > 0 \/ s.eof \/ s.err) => HasIn(fd) \/ e \in {"in", "err"},
             ((s.up /\ s.space > 0) \/ s.err) => HasOut(fd) \/ e \in {"out", "err"}
      PROVE  Heard("client", c.interest) /\ Heard("backend", b.interest)
  <2>1. net'[fd] = s /\ \A x \in Fds : x # fd => net'[x] = net[x]
    BY <1>4, <1>5
  <2>2. e \in Interest(fd) => fd \in queued'
    BY <1>5 DEF Wake
  <2>3. Heard(fd, Interest(fd))
    BY <1>5, <2>1, <2>2 DEF Heard, HasIn, HasOut, Interest
  <2>4. \A x \in Fds : x # fd => Heard(x, Interest(x))
    BY <2>1 DEF Heard, HasIn, HasOut
  <2>5. Heard("client", Interest("client")) /\ Heard("backend", Interest("backend"))
    BY <2>3, <2>4 DEF Fds
  <2>6. QED
    BY <2>5 DEF Heard, Interest
<1>6. \A x \in queued : x \in queued'
  BY DEF Env, PeerSends, PeerCloses, PeerReads, PeerResets, BackendAccepts, BackendRefuses, Wake
<1>7. ASSUME NEW fd \in Fds, PeerSends(fd) \/ PeerCloses(fd) \/ PeerReads(fd) \/ PeerResets(fd)
      PROVE  Heard("client", c.interest) /\ Heard("backend", b.interest)
  <2>1. CASE PeerSends(fd)
    <3> DEFINE s == [net[fd] EXCEPT !.rcv = @ + 1]
    <3>1. net' = [net EXCEPT ![fd] = s] /\ Wake(fd, "in")
      BY <2>1 DEF PeerSends
    <3>2. s.eof = net[fd].eof /\ s.err = net[fd].err /\ s.up = net[fd].up /\ s.space = net[fd].space
      BY <1>2 DEF SocketSet
    <3> HIDE DEF s
    <3>3. QED
      BY <1>5, <3>1, <3>2 DEF HasOut
  <2>2. CASE PeerCloses(fd)
    <3> DEFINE s == [net[fd] EXCEPT !.eof = TRUE]
    <3>1. net' = [net EXCEPT ![fd] = s] /\ Wake(fd, "in")
      BY <2>2 DEF PeerCloses
    <3>2. s.rcv = net[fd].rcv /\ s.err = net[fd].err /\ s.up = net[fd].up /\ s.space = net[fd].space
      BY <1>2 DEF SocketSet
    <3> HIDE DEF s
    <3>3. QED
      BY <1>5, <3>1, <3>2 DEF HasOut
  <2>3. CASE PeerReads(fd)
    <3> DEFINE s == [net[fd] EXCEPT !.space = @ + 1]
    <3>1. net' = [net EXCEPT ![fd] = s] /\ net[fd].up
      BY <2>3 DEF PeerReads, Open
    <3>2. s.rcv = net[fd].rcv /\ s.err = net[fd].err /\ s.up = net[fd].up /\ s.eof = net[fd].eof
      BY <1>2 DEF SocketSet
    <3> HIDE DEF s
    <3>3. CASE net[fd].space = 0
      <4>1. Wake(fd, "out")
        BY <2>3, <3>3 DEF PeerReads
      <4>2. QED
        BY <1>5, <3>1, <3>2, <4>1 DEF HasIn
    <3>4. CASE net[fd].space # 0
      <4>1. HasOut(fd)
        BY <1>2, <3>1, <3>4 DEF HasOut
      <4>2. net'[fd] = s /\ \A x \in Fds : x # fd => net'[x] = net[x]
        BY <1>4, <3>1
      <4>3. \A x \in Fds : (HasIn(x)' => HasIn(x)) /\ (HasOut(x)' => HasOut(x))
        BY <3>2, <4>1, <4>2 DEF HasIn, HasOut
      <4>4. QED
        BY <4>3 DEF Heard, Fds
    <3>5. QED
      BY <3>3, <3>4
  <2>4. CASE PeerResets(fd)
    <3> DEFINE s == [net[fd] EXCEPT !.err = TRUE]
    <3>1. net' = [net EXCEPT ![fd] = s] /\ Wake(fd, "err")
      BY <2>4 DEF PeerResets
    <3> HIDE DEF s
    <3>2. QED
      BY <1>5, <3>1
  <2>5. QED
    BY <1>7, <2>1, <2>2, <2>3, <2>4
<1>8. ASSUME BackendAccepts \/ BackendRefuses
      PROVE  Heard("client", c.interest) /\ Heard("backend", b.interest)
  <2>1. "backend" \in Fds
    BY DEF Fds
  <2>2. CASE BackendAccepts
    <3> DEFINE s == [net["backend"] EXCEPT !.up = TRUE]
    <3>1. net' = [net EXCEPT !["backend"] = s] /\ Wake("backend", "out")
      BY <2>2 DEF BackendAccepts
    <3>2. s.rcv = net["backend"].rcv /\ s.err = net["backend"].err /\ s.eof = net["backend"].eof
      BY <1>2, <2>1 DEF SocketSet
    <3> HIDE DEF s
    <3>3. QED
      BY <1>5, <2>1, <3>1, <3>2 DEF HasIn
  <2>3. CASE BackendRefuses
    <3> DEFINE s == [net["backend"] EXCEPT !.err = TRUE]
    <3>1. net' = [net EXCEPT !["backend"] = s] /\ Wake("backend", "err")
      BY <2>3 DEF BackendRefuses
    <3> HIDE DEF s
    <3>2. QED
      BY <1>5, <2>1, <3>1
  <2>4. QED
    BY <1>8, <2>2, <2>3
<1>9. ~b.alive => net'.backend = net.backend
  <2>1. ASSUME ~b.alive PROVE \E s : net' = [net EXCEPT !["client"] = s]
    <3>1. ~BackendAccepts /\ ~BackendRefuses /\ ~Open("backend")
      BY <2>1 DEF BackendAccepts, BackendRefuses, Open
    <3>2. PeerSends("client") \/ PeerCloses("client") \/ PeerReads("client") \/ PeerResets("client")
      BY <3>1 DEF Env, PeerSends, PeerCloses, PeerReads, PeerResets, Fds
    <3>3. QED
      BY <3>2, Zenon DEF PeerSends, PeerCloses, PeerReads, PeerResets
  <2>2. QED
    BY <1>4, <2>1 DEF Fds
<1>10. QED
  BY <1>3, <1>6, <1>7, <1>8, <1>9 DEF Env

-----------------------------------------------------------------------------
(* The backend's edges.                                                    *)

\* Before the backend is dialled nothing happens to its socket.
FreshInv == c.state = "ReadingHead" => ~net.backend.up /\ ~net.backend.err

LEMMA FreshNext ==
  ASSUME Core, FreshInv, [Next]_vars PROVE FreshInv'
<1>1. /\ Types /\ c \in ClientSet /\ b \in BackendSet /\ net \in [Fds -> SocketSet]
      /\ c.state = "ReadingHead" => ~b.alive /\ ~c.backend
  BY DEF Core, Types, PointerInv
<1>2. c'.state = "ReadingHead" => c.state = "ReadingHead"
  <2>1. CASE SameAnswer
    BY <2>1 DEF SameAnswer
  <2>2. CASE ProcessHeadReject \/ HandleInternal \/ StartBackendFails
    <3>1. c' = c \/ \E y : c' = [c EXCEPT !.bodyLeft = y]
      BY <2>2, Zenon DEF ProcessHeadReject, HandleInternal, StartBackendFails
    <3>2. QED
      BY <1>1, <3>1 DEF ClientSet
  <2>3. CASE ProcessHeadForward
    BY <2>3, HeadForwarded
  <2>4. CASE SendResponse("send_response", ReplyLen) \/ SendResponse("send_head", 1)
    BY <1>1, <2>4 DEF SendResponse, ClientSet
  <2>5. CASE BackendReadData
    <3>1. c' = c \/ \E m : c' = [c EXCEPT !.out = m, !.responded = TRUE, !.relayed = TRUE]
      BY <2>5, Zenon DEF BackendReadData, Deliver
    <3>2. QED
      BY <1>1, <3>1 DEF ClientSet
  <2>6. CASE Fail
    <3> DEFINE cc == [c EXCEPT !.backend = FALSE]
    <3>1. cc \in ClientSet /\ DetachClient(b) \in BackendSet /\ cc.state = c.state
      BY <1>1 DEF ClientSet, DetachClient, BackendSet
    <3>2. c' = c \/ c' = cc \/ CloseBoth(cc, DetachClient(b))
      BY <2>6 DEF Fail, OnBackendError
    <3> HIDE DEF cc
    <3>3. QED
      BY <3>1, <3>2, CloseFields
  <2>7. CASE Finished \/ UNCHANGED vars
    BY <2>7 DEF Finished, vars
  <2>8. QED
    BY <2>1, <2>2, <2>3, <2>4, <2>5, <2>6, <2>7, AnswerClient, AnswerBackend, AnswerLoop
       DEF Next, LoopStep
<1>3. c.state = "ReadingHead" => net'.backend.up = net.backend.up /\ net'.backend.err = net.backend.err
  <2>1. CASE Env
    BY <1>1, <2>1, EnvEdges
  <2>2. CASE FlushSome \/ BackendReadData
    <3>1. \E s : \/ net' = [net EXCEPT !["backend"] = [net["backend"] EXCEPT !.space = s]]
                 \/ net' = [net EXCEPT !["backend"] = [net["backend"] EXCEPT !.rcv = s]]
      BY <2>2, Zenon DEF FlushSome, BackendReadData
    <3>2. QED
      BY <1>1, <3>1 DEF Fds, SocketSet
  <2>3. CASE PumpReadData \/ PumpWriteSome
    <3>1. \E s : net' = [net EXCEPT !["client"] = s]
      BY <2>3, Zenon DEF PumpReadData, PumpWriteSome
    <3>2. QED
      BY <1>1, <3>1 DEF Fds
  <2>4. CASE net' = net
    BY <2>4
  <2>5. ASSUME ~Env, ~FlushSome, ~BackendReadData, ~PumpReadData, ~PumpWriteSome PROVE net' = net
    BY <2>5 DEF Next, LoopStep, EpollWait, Dispatch, ProcessPendingClose, OnErrorClient, TimeoutClient,
       TimeoutBackend, Drive, DriveWrite, RecomputeInterest, PumpReadStop, PumpReadBlock, PumpReadEof,
       PumpReadError, ProcessHeadIncomplete, ProcessHeadReject, HandleInternal, StartBackendFails,
       ProcessHeadForward, ForwardBodyRest, SendResponse, PumpWriteBlock, PumpWriteError,
       PumpWriteDrained, PumpWriteEnd, ResumeReads, DeliverRest, BackendReadStop, BackendReadEof,
       BackendReadError, OnBackendClosed, Fail, RequestClose, OnWritable, FlushError, FlushDone,
       FlushApplyInterest, OnBackendDrained, TimePasses, Finished, vars, envVars
  <2>6. QED
    BY <2>1, <2>2, <2>3, <2>4, <2>5
<1>4. QED
  BY <1>2, <1>3 DEF FreshInv

\* What each of the two directions still has to come.
DialInv == ~b.connected => b.interest = {"out"}
BackendIn ==
  b.client /\ b.connected /\ ~b.readPaused =>
    /\ "in" \in b.interest \/ Owes({"flush", "apply_interest", "fail"})
    /\ "in" \in b.interest /\ HasIn("backend") => Seen("backend", "in") \/ Owes({"on_readable", "fail"})
BackendOut ==
  b.client /\ (~b.connected \/ b.out > 0) =>
    /\ "out" \in b.interest \/ Owes({"flush", "apply_interest", "fail"})
    /\ "out" \in b.interest /\ HasOut("backend") =>
         Seen("backend", "out") \/ Owes({"on_writable", "flush", "fail"})
BackendEdges == DialInv /\ BackendIn /\ BackendOut

LEMMA BackendEdgesInit == Init => BackendEdges
  BY DEF Init, NoBackend, BackendEdges, DialInv, BackendIn, BackendOut

BackendOwing == {"flush", "apply_interest", "fail", "on_readable", "on_writable"}
SameEnd ==
  /\ b'.client => b.client
  /\ b'.connected = b.connected /\ b'.readPaused = b.readPaused /\ b'.out = b.out
  /\ b'.interest = b.interest

LEMMA BackendKept ==
  ASSUME BackendEdges, SameEnd, Heard("backend", b.interest), batch' = batch,
         "backend" \in queued => "backend" \in queued',
         \A f \in BackendOwing : f \in Calls(todo) => f \in Calls(todo')
  PROVE  BackendEdges'
<1>1. ASSUME NEW S \in SUBSET BackendOwing, Owes(S) PROVE Owes(S)'
  BY <1>1 DEF Owes
<1>2. \A e : Seen("backend", e) => Seen("backend", e)'
  BY DEF Seen
<1>3. /\ Owes({"flush", "apply_interest", "fail"}) => Owes({"flush", "apply_interest", "fail"})'
      /\ Owes({"on_readable", "fail"}) => Owes({"on_readable", "fail"})'
      /\ Owes({"on_writable", "flush", "fail"}) => Owes({"on_writable", "flush", "fail"})'
  BY <1>1 DEF BackendOwing
<1>4. "backend" \in queued' => \A e : Seen("backend", e)'
  BY DEF Seen
<1>5. DialInv'
  BY DEF BackendEdges, DialInv, SameEnd
<1>6. BackendIn'
  BY <1>2, <1>3, <1>4 DEF BackendEdges, BackendIn, SameEnd, Heard
<1>7. BackendOut'
  BY <1>2, <1>3, <1>4 DEF BackendEdges, BackendOut, SameEnd, Heard
<1>8. QED
  BY <1>5, <1>6, <1>7 DEF BackendEdges

\* Nothing is owed to a backend that has no client.
LEMMA BackendGone ==
  ASSUME ~b'.client, DialInv' PROVE BackendEdges'
  BY DEF BackendEdges, BackendIn, BackendOut

\* Functions that leave the backend's end alone.
LEMMA BackendQuiet ==
  ASSUME BackendEdges, Kept, SameEnd, net'["backend"] = net["backend"], batch' = batch,
         \A x \in queued : x \in queued', \A f \in BackendOwing : ~AtHead(f)
  PROVE  BackendEdges'
<1>1. Heard("backend", b.interest)
  BY DEF Heard, HasIn, HasOut
<1>2. \A f \in BackendOwing : f \in Calls(todo) => f \in Calls(todo')
  BY DEF Kept
<1>3. QED
  BY <1>1, <1>2, BackendKept

LEMMA BackendOther ==
  ASSUME Core, BackendEdges, Kept,
         \/ Drive \/ DriveWrite \/ RecomputeInterest \/ PumpReadStop \/ PumpReadBlock \/ PumpReadEof
         \/ PumpReadError \/ ProcessHeadIncomplete \/ ProcessHeadReject \/ HandleInternal
         \/ StartBackendFails \/ ForwardBodyRest \/ SendResponse("send_response", ReplyLen)
         \/ SendResponse("send_head", 1) \/ PumpWriteSome \/ PumpWriteBlock \/ PumpWriteError
         \/ PumpWriteDrained \/ PumpWriteEnd \/ OnErrorClient \/ TimeoutClient \/ TimeoutBackend
         \/ OnBackendClosed \/ RequestClose \/ OnBackendDrained
  PROVE  BackendEdges'
<1>1. c \in ClientSet /\ b \in BackendSet /\ net \in [Fds -> SocketSet]
  BY DEF Core, Types
<1>2. ASSUME NEW f, Doing(f), f \notin BackendOwing PROVE \A g \in BackendOwing : ~AtHead(g)
  BY <1>2 DEF Doing, AtHead
<1>3. \A f \in {"drive", "drive_write", "recompute_interest", "pump_read", "process_head",
                "forward_body_rest", "send_response", "send_head", "pump_write", "pump_write_end",
                "on_error_client", "timeout_client", "timeout_backend", "on_backend_closed",
                "request_close", "on_backend_drained"} : f \notin BackendOwing
  BY DEF BackendOwing
<1>4. \A f \in BackendOwing : ~AtHead(f)
  <2>1. CASE \/ Drive \/ DriveWrite \/ RecomputeInterest \/ PumpReadStop \/ PumpReadBlock \/ PumpReadEof
             \/ PumpReadError \/ ProcessHeadIncomplete \/ ProcessHeadReject \/ HandleInternal
             \/ StartBackendFails \/ ForwardBodyRest \/ SendResponse("send_response", ReplyLen)
             \/ SendResponse("send_head", 1)
    BY <1>2, <1>3, <2>1
       DEF Drive, DriveWrite, RecomputeInterest, PumpReadStop, PumpReadBlock, PumpReadEof,
           PumpReadError, Receiving, ProcessHeadIncomplete, ProcessHeadReject, HandleInternal,
           StartBackendFails, ForwardBodyRest, SendResponse
  <2>2. CASE \/ PumpWriteSome \/ PumpWriteBlock \/ PumpWriteError \/ PumpWriteDrained \/ PumpWriteEnd
             \/ OnErrorClient \/ TimeoutClient \/ TimeoutBackend \/ OnBackendClosed \/ RequestClose
             \/ OnBackendDrained
    BY <1>2, <1>3, <2>2
       DEF PumpWriteSome, PumpWriteBlock, PumpWriteError, PumpWriteDrained, PumpWriteEnd, OnErrorClient,
           TimeoutClient, TimeoutBackend, OnBackendClosed, RequestClose, OnBackendDrained
  <2>3. QED
    BY <2>1, <2>2
<1>5. ASSUME b' = b PROVE SameEnd
  BY <1>5 DEF SameEnd
<1>6. ASSUME NEW cc \in ClientSet, CloseBoth(cc, b) PROVE SameEnd
  BY <1>1, <1>6, CloseFields DEF SameEnd
<1>7. CASE \/ DriveWrite \/ PumpReadStop \/ PumpReadBlock \/ ProcessHeadIncomplete \/ ProcessHeadReject
           \/ HandleInternal \/ StartBackendFails \/ ForwardBodyRest
           \/ SendResponse("send_response", ReplyLen) \/ SendResponse("send_head", 1)
           \/ PumpWriteBlock \/ PumpWriteDrained \/ TimeoutBackend \/ OnBackendClosed \/ RequestClose
           \/ OnBackendDrained
  <2>1. b' = b /\ net' = net /\ batch' = batch /\ queued' = queued
    BY <1>7 DEF DriveWrite, PumpReadStop, PumpReadBlock, ProcessHeadIncomplete, ProcessHeadReject,
         HandleInternal, StartBackendFails, ForwardBodyRest, SendResponse, PumpWriteBlock,
         PumpWriteDrained, TimeoutBackend, OnBackendClosed, RequestClose, OnBackendDrained,
         envVars, loopVars
  <2>2. QED
    BY <1>4, <1>5, <2>1, BackendQuiet
<1>8. CASE PumpReadEof \/ PumpReadError \/ PumpWriteError \/ OnErrorClient \/ TimeoutClient
  <2>1. /\ b' = b \/ CloseBoth(c, b)
        /\ net' = net /\ batch' = batch /\ queued' = queued
    BY <1>8 DEF PumpReadEof, PumpReadError, PumpWriteError, OnErrorClient, TimeoutClient,
         envVars, loopVars
  <2>2. QED
    BY <1>1, <1>4, <1>5, <1>6, <2>1, BackendQuiet
<1>9. CASE PumpWriteEnd
  <2> DEFINE cc == [c EXCEPT !.writeBlock = "ok"]
  <2>1. /\ b' = b \/ CloseBoth(cc, b)
        /\ net' = net /\ batch' = batch /\ queued' = queued
    BY <1>9 DEF PumpWriteEnd, envVars, loopVars
  <2>2. cc \in ClientSet
    BY <1>1 DEF ClientSet
  <2> HIDE DEF cc
  <2>3. QED
    BY <1>4, <1>5, <1>6, <2>1, <2>2, BackendQuiet
<1>10. CASE PumpWriteSome
  <2>1. b' = b /\ batch' = batch /\ queued' = queued
    BY <1>10 DEF PumpWriteSome, loopVars
  <2>2. \E s : net' = [net EXCEPT !["client"] = s]
    BY <1>10, Zenon DEF PumpWriteSome
  <2>3. net'["backend"] = net["backend"]
    BY <1>1, <2>2 DEF Fds
  <2>4. QED
    BY <1>4, <1>5, <2>1, <2>3, BackendQuiet
<1>11. CASE Drive \/ RecomputeInterest
  <2>1. /\ b' = b \/ CloseBoth(c, b)
        /\ net' = net /\ batch' = batch
    BY <1>11 DEF Drive, RecomputeInterest, envVars
  <2>2. queued' = queued \/ \E old, new : queued' = Update(queued, "client", old, new)
    BY <1>11 DEF Drive, RecomputeInterest, SetInterest
  <2>3. \A x \in queued : x \in queued'
    BY <2>2, UpdateKeeps
  <2>4. QED
    BY <1>1, <1>4, <1>5, <1>6, <2>1, <2>3, BackendQuiet
<1>12. QED
  BY <1>7, <1>8, <1>9, <1>10, <1>11

LEMMA BackendFailing ==
  ASSUME DialInv', "fail" \in Calls(todo') PROVE BackendEdges'
<1>1. \A S : "fail" \in S => Owes(S)'
  BY DEF Owes
<1>2. QED
  BY <1>1 DEF BackendEdges, BackendIn, BackendOut

\* A registration that is brought up to date wakes what it finds ready.
LEMMA BackendApplies ==
  ASSUME Types, BackendEdges, NEW bb \in BackendSet, b' = Applied(bb),
         bb.client = b.client, bb.connected = b.connected, bb.out = b.out, bb.interest = b.interest,
         \/ bb.readPaused \/ ~b.readPaused \/ "on_readable" \in Calls(todo'),
         net' = net, batch' = batch, \A x \in queued : x \in queued',
         \A x \in ApplyInterest(bb, queued) : x \in queued',
         \A f \in {"on_readable", "on_writable", "flush", "fail"} : f \in Calls(todo) => f \in Calls(todo')
  PROVE  BackendEdges'
<1> DEFINE w == BackendWanted(bb)
<1>1. w \in SUBSET {"in", "out"}
  BY DEF BackendWanted
<1>2. /\ bb.connected /\ ~bb.readPaused => "in" \in w
      /\ ~bb.connected \/ bb.out > 0 => "out" \in w
      /\ ~bb.connected => w = {"out"}
  BY DEF BackendWanted
<1>3. b' = [bb EXCEPT !.interest = w] /\ ApplyInterest(bb, queued) = Update(queued, "backend", b.interest, w)
  BY DEF Applied, ApplyInterest
<1> HIDE DEF w
<1>4. /\ b'.client = b.client /\ b'.connected = b.connected /\ b'.out = b.out
      /\ b'.readPaused = bb.readPaused /\ b'.interest = w
  BY <1>1, <1>3 DEF BackendSet
<1>5. /\ w # b.interest /\ "in" \in w /\ HasIn("backend") => "backend" \in queued'
      /\ w # b.interest /\ "out" \in w /\ HasOut("backend") => "backend" \in queued'
  BY <1>3, UpdateKeeps
<1>6. HasIn("backend")' = HasIn("backend") /\ HasOut("backend")' = HasOut("backend")
  BY DEF HasIn, HasOut
<1>7. /\ Owes({"on_readable", "fail"}) => Owes({"on_readable", "fail"})'
      /\ Owes({"on_writable", "flush", "fail"}) => Owes({"on_writable", "flush", "fail"})'
      /\ "on_readable" \in Calls(todo') => Owes({"on_readable", "fail"})'
  BY DEF Owes
<1>8. /\ \A e : Seen("backend", e) => Seen("backend", e)'
      /\ "backend" \in queued' => \A e : Seen("backend", e)'
  BY DEF Seen
<1>9. DialInv'
  BY <1>2, <1>4 DEF DialInv
<1>10. BackendIn'
  BY <1>2, <1>4, <1>5, <1>6, <1>7, <1>8 DEF BackendEdges, BackendIn
<1>11. BackendOut'
  BY <1>2, <1>4, <1>5, <1>6, <1>7, <1>8 DEF BackendEdges, BackendOut
<1>12. QED
  BY <1>9, <1>10, <1>11 DEF BackendEdges

LEMMA BackendFlush ==
  ASSUME Core, OrderInv, BackendEdges, Kept,
         FlushSome \/ FlushError \/ FlushDone \/ FlushApplyInterest \/ ResumeReads \/ DeliverRest
  PROVE  BackendEdges'
<1>1. /\ Types /\ b \in BackendSet /\ net \in [Fds -> SocketSet] /\ todo \in Seq(Functions)
      /\ b.out \in Nat /\ net["backend"].space \in Nat /\ net["backend"] \in SocketSet
  BY Sizes DEF Core, Types, BackendSet, Fds, SocketSet
<1>2. /\ "fail" \in Functions /\ "apply_interest" \in Functions /\ "on_readable" \in Functions
      /\ "on_backend_drained" \in Functions
  BY DEF Functions
<1>3. ASSUME NEW f, Doing(f) PROVE todo # <<>> /\ \A g \in Calls(todo) : g # f => g \in Calls(todo')
  BY <1>3 DEF Doing, Kept, AtHead
<1>4. CASE FlushSome
  <2>1. AtHead("flush") /\ todo' = todo /\ queued' = queued /\ batch' = batch
    BY <1>4 DEF FlushSome, Doing, AtHead, loopVars
  <2>2. \E x, y : b' = [b EXCEPT !.out = x, !.idle = y]
    BY <1>4, Zenon DEF FlushSome
  <2>3. /\ b'.client = b.client /\ b'.connected = b.connected /\ b'.readPaused = b.readPaused
        /\ b'.interest = b.interest
    BY <1>1, <2>2 DEF BackendSet
  <2>4. \E s : net' = [net EXCEPT !["backend"] = [net["backend"] EXCEPT !.space = s]]
    BY <1>4, Zenon DEF FlushSome
  <2>5. HasIn("backend")' = HasIn("backend")
    BY <1>1, <2>4 DEF Fds, SocketSet, HasIn
  <2>6. \A S : ("flush" \in S => Owes(S)') /\ Owes(S)' = Owes(S)
    BY <1>1, <2>1, Stack DEF Owes, AtHead
  <2>7. \A e : Seen("backend", e)' = Seen("backend", e)
    BY <2>1 DEF Seen
  <2>8. QED
    BY <2>3, <2>5, <2>6, <2>7 DEF BackendEdges, DialInv, BackendIn, BackendOut
<1>5. CASE FlushError
  <2>1. Then(<<"fail">>) /\ b' = b /\ todo # <<>>
    BY <1>5 DEF FlushError, Doing
  <2>2. "fail" \in Calls(todo')
    BY <1>1, <1>2, <2>1, Then1
  <2>3. QED
    BY <2>1, <2>2, BackendFailing DEF BackendEdges, DialInv
<1>6. CASE FlushDone
  <2>1. Doing("flush") /\ net' = net /\ queued' = queued /\ batch' = batch
    BY <1>6 DEF FlushDone, envVars, loopVars
  <2>2. "apply_interest" \in Calls(todo') /\ \A g \in Calls(todo) : g # "flush" => g \in Calls(todo')
    BY <1>1, <1>2, <1>3, <1>6, <2>1, FlushCalls, Then1, Then2
  <2>3. \E x : b' = [b EXCEPT !.highWater = x]
    BY <1>6, Zenon DEF FlushDone
  <2>4. /\ b'.client = b.client /\ b'.connected = b.connected /\ b'.readPaused = b.readPaused
        /\ b'.interest = b.interest /\ b'.out = b.out
    BY <1>1, <2>3 DEF BackendSet
  <2>5. b.connected
    BY <2>1 DEF OrderInv, Doing, AtHead
  <2>6. ~(b.out > 0 /\ HasOut("backend"))
    <3>1. b.out = 0 \/ (net["backend"].space = 0 /\ ~net["backend"].err)
      BY <1>6 DEF FlushDone
    <3>2. QED
      BY <1>1, <3>1 DEF HasOut
  <2>7. HasIn("backend")' = HasIn("backend") /\ HasOut("backend")' = HasOut("backend")
    BY <2>1 DEF HasIn, HasOut
  <2>8. /\ Owes({"flush", "apply_interest", "fail"})'
        /\ Owes({"on_readable", "fail"}) => Owes({"on_readable", "fail"})'
    BY <2>2 DEF Owes
  <2>9. \A e : Seen("backend", e)' = Seen("backend", e)
    BY <2>1 DEF Seen
  <2>10. QED
    BY <2>4, <2>5, <2>6, <2>7, <2>8, <2>9 DEF BackendEdges, DialInv, BackendIn, BackendOut
<1>7. CASE FlushApplyInterest
  <2>1. /\ Doing("apply_interest") /\ b' = Applied(b) /\ queued' = ApplyInterest(b, queued)
        /\ net' = net /\ batch' = batch
    BY <1>7 DEF FlushApplyInterest, envVars
  <2>2. \A x \in queued : x \in queued'
    BY <2>1, UpdateKeeps DEF ApplyInterest
  <2>3. \A f \in {"on_readable", "on_writable", "flush", "fail"} : f \in Calls(todo) => f \in Calls(todo')
    BY <1>3, <2>1
  <2>4. b.readPaused \/ ~b.readPaused
    OBVIOUS
  <2>5. QED
    BY <1>1, <2>1, <2>2, <2>3, <2>4, BackendApplies
<1>8. CASE ResumeReads
  <2>1. Doing("resume_reads") /\ net' = net /\ batch' = batch
    BY <1>8 DEF ResumeReads, envVars
  <2>2. CASE b.readPaused
    <3> DEFINE bb == [b EXCEPT !.readPaused = FALSE]
    <3>1. b' = Applied(bb) /\ queued' = ApplyInterest(bb, queued) /\ Then(<<"on_readable">>)
      BY <1>8, <2>2 DEF ResumeReads
    <3>2. /\ bb \in BackendSet /\ bb.client = b.client /\ bb.connected = b.connected
          /\ bb.out = b.out /\ bb.interest = b.interest
      BY <1>1 DEF BackendSet
    <3> HIDE DEF bb
    <3>3. "on_readable" \in Calls(todo')
      BY <1>1, <1>2, <1>3, <2>1, <3>1, Then1
    <3>4. \A x \in queued : x \in queued'
      BY <3>1, UpdateKeeps DEF ApplyInterest
    <3>5. \A f \in {"on_readable", "on_writable", "flush", "fail"} : f \in Calls(todo) => f \in Calls(todo')
      BY <1>3, <2>1
    <3>6. QED
      BY <1>1, <2>1, <3>1, <3>2, <3>3, <3>4, <3>5, BackendApplies
  <2>3. CASE ~b.readPaused
    <3>1. b' = b /\ queued' = queued
      BY <1>8, <2>3 DEF ResumeReads
    <3>2. \A f \in BackendOwing : ~AtHead(f)
      BY <2>1 DEF Doing, AtHead, BackendOwing
    <3>3. QED
      BY <2>1, <3>1, <3>2, BackendQuiet DEF SameEnd
  <2>4. QED
    BY <2>2, <2>3
<1>9. CASE DeliverRest
  <2>1. Doing("deliver_rest") /\ net' = net /\ batch' = batch
    BY <1>9 DEF DeliverRest, envVars
  <2>2. \A f \in BackendOwing : ~AtHead(f)
    BY <2>1 DEF Doing, AtHead, BackendOwing
  <2> DEFINE bb == PauseReads(b)
  <2>3. \/ b' = b /\ (queued' = queued \/ \E old, new : queued' = Update(queued, "client", old, new))
        \/ /\ b' = Applied(bb)
           /\ \E old, new : queued' = Update(ApplyInterest(bb, queued), "client", old, new)
    BY <1>9, Zenon DEF DeliverRest, SetInterest
  <2>4. CASE b' = b /\ (queued' = queued \/ \E old, new : queued' = Update(queued, "client", old, new))
    <3>1. \A x \in queued : x \in queued'
      BY <2>4, UpdateKeeps
    <3>2. QED
      BY <2>1, <2>2, <2>4, <3>1, BackendQuiet DEF SameEnd
  <2>5. CASE /\ b' = Applied(bb)
             /\ \E old, new : queued' = Update(ApplyInterest(bb, queued), "client", old, new)
    <3>1. /\ bb \in BackendSet /\ bb.client = b.client /\ bb.connected = b.connected
          /\ bb.out = b.out /\ bb.interest = b.interest /\ bb.readPaused
      BY <1>1 DEF BackendSet, PauseReads
    <3> HIDE DEF bb
    <3>2. \A x \in ApplyInterest(bb, queued) : x \in queued'
      BY <2>5, UpdateKeeps
    <3>3. \A x \in queued : x \in ApplyInterest(bb, queued)
      BY UpdateKeeps DEF ApplyInterest
    <3>4. \A f \in {"on_readable", "on_writable", "flush", "fail"} : f \in Calls(todo) => f \in Calls(todo')
      BY <1>3, <2>1
    <3>5. QED
      BY <1>1, <2>1, <2>5, <3>1, <3>2, <3>3, <3>4, BackendApplies
  <2>6. QED
    BY <2>3, <2>4, <2>5
<1>10. QED
  BY <1>4, <1>5, <1>6, <1>7, <1>8, <1>9

LEMMA BackendEvents ==
  ASSUME Core, BackendEdges, Kept,
         \/ OnWritable \/ BackendReadData \/ BackendReadStop \/ BackendReadEof \/ BackendReadError \/ Fail
  PROVE  BackendEdges'
<1>1. /\ Types /\ LifeInv /\ c \in ClientSet /\ b \in BackendSet /\ net \in [Fds -> SocketSet]
      /\ todo \in Seq(Functions) /\ net["backend"] \in SocketSet /\ net["backend"].rcv \in Nat
  BY Sizes DEF Core, Types, Fds, SocketSet
<1>2. \A f \in {"fail", "flush", "on_readable", "pump_write", "deliver_rest"} : f \in Functions
  BY DEF Functions
<1>3. ASSUME NEW f, Doing(f) PROVE todo # <<>> /\ \A g \in Calls(todo) : g # f => g \in Calls(todo')
  BY <1>3 DEF Doing, Kept, AtHead
<1>4. ASSUME NEW f, Doing(f), Then(<<"fail">>), b' = b PROVE BackendEdges'
  <2>1. "fail" \in Calls(todo')
    BY <1>1, <1>2, <1>3, <1>4, Then1
  <2>2. QED
    BY <1>4, <2>1, BackendFailing DEF BackendEdges, DialInv
<1>5. CASE BackendReadError
  BY <1>4, <1>5 DEF BackendReadError
<1>6. CASE OnWritable
  <2>1. Doing("on_writable") /\ net' = net /\ queued' = queued /\ batch' = batch
    BY <1>6 DEF OnWritable, envVars, loopVars
  <2>2. CASE "backend" \in closing
    <3>1. b' = b /\ ~b.client
      BY <1>1, <1>6, <2>2 DEF OnWritable, LifeInv
    <3>2. QED
      BY <3>1, BackendGone DEF BackendEdges, DialInv
  <2>3. CASE Then(<<"fail">>) /\ b' = b
    BY <1>4, <2>1, <2>3
  <2>4. CASE /\ Then(<<"flush">>)
             /\ b' = IF b.connected THEN b ELSE [b EXCEPT !.connected = TRUE, !.idle = FALSE]
    <3>1. "flush" \in Calls(todo') /\ \A g \in Calls(todo) : g # "on_writable" => g \in Calls(todo')
      BY <1>1, <1>2, <1>3, <2>1, <2>4, Then1
    <3>2. /\ b'.client = b.client /\ b'.connected /\ b'.readPaused = b.readPaused
          /\ b'.interest = b.interest
      BY <1>1, <2>4 DEF BackendSet
    <3>3. /\ \A S : "flush" \in S => Owes(S)'
          /\ Owes({"on_readable", "fail"}) => Owes({"on_readable", "fail"})'
      BY <3>1 DEF Owes
    <3>4. HasIn("backend")' = HasIn("backend") /\ \A e : Seen("backend", e)' = Seen("backend", e)
      BY <2>1 DEF HasIn, Seen
    <3>5. QED
      BY <3>2, <3>3, <3>4 DEF BackendEdges, DialInv, BackendIn, BackendOut
  <2>5. QED
    BY <1>6, <2>2, <2>3, <2>4 DEF OnWritable
<1>7. CASE BackendReadData
  <2>1. Doing("on_readable") /\ queued' = queued /\ batch' = batch
    BY <1>7 DEF BackendReadData, loopVars
  <2>2. b' = [b EXCEPT !.idle = FALSE] /\ (todo' = todo \/ Then(<<"pump_write", "deliver_rest", "on_readable">>))
    BY <1>7 DEF BackendReadData, DeliverLoop
  <2>3. /\ b'.client = b.client /\ b'.connected = b.connected /\ b'.readPaused = b.readPaused
        /\ b'.interest = b.interest /\ b'.out = b.out
    BY <1>1, <2>2 DEF BackendSet
  <2>4. \E s : net' = [net EXCEPT !["backend"] = [net["backend"] EXCEPT !.rcv = s]]
    BY <1>7, Zenon DEF BackendReadData
  <2>5. HasOut("backend")' = HasOut("backend")
    BY <1>1, <2>4 DEF Fds, SocketSet, HasOut
  <2>6. "on_readable" \in Calls(todo')
    <3>1. "on_readable" \in Calls(todo)
      BY <1>1, <2>1, Stack DEF Doing
    <3>2. QED
      BY <1>1, <1>2, <1>3, <2>1, <2>2, <3>1, Then3
  <2>7. /\ Owes({"on_readable", "fail"})'
        /\ Owes({"flush", "apply_interest", "fail"}) => Owes({"flush", "apply_interest", "fail"})'
        /\ Owes({"on_writable", "flush", "fail"}) => Owes({"on_writable", "flush", "fail"})'
    BY <1>3, <2>1, <2>6 DEF Owes
  <2>8. \A e : Seen("backend", e)' = Seen("backend", e)
    BY <2>1 DEF Seen
  <2>9. QED
    BY <2>3, <2>5, <2>7, <2>8 DEF BackendEdges, DialInv, BackendIn, BackendOut
<1>8. CASE BackendReadStop
  <2>1. Doing("on_readable") /\ b' = b /\ net' = net /\ queued' = queued /\ batch' = batch
    BY <1>8 DEF BackendReadStop, envVars, loopVars
  <2>2. b.readPaused \/ ~HasIn("backend")
    <3>1. b.readPaused \/ (net["backend"].rcv = 0 /\ ~net["backend"].eof /\ ~net["backend"].err)
      BY <1>8 DEF BackendReadStop
    <3>2. QED
      BY <1>1, <3>1 DEF HasIn
  <2>3. HasIn("backend")' = HasIn("backend") /\ HasOut("backend")' = HasOut("backend")
    BY <2>1 DEF HasIn, HasOut
  <2>4. /\ Owes({"flush", "apply_interest", "fail"}) => Owes({"flush", "apply_interest", "fail"})'
        /\ Owes({"on_writable", "flush", "fail"}) => Owes({"on_writable", "flush", "fail"})'
    BY <1>3, <2>1 DEF Owes
  <2>5. \A e : Seen("backend", e)' = Seen("backend", e)
    BY <2>1 DEF Seen
  <2>6. QED
    BY <2>1, <2>2, <2>3, <2>4, <2>5 DEF BackendEdges, DialInv, BackendIn, BackendOut
<1>9. CASE BackendReadEof
  <2>1. b' = [b EXCEPT !.client = FALSE]
    BY <1>9 DEF BackendReadEof
  <2>2. ~b'.client /\ b'.connected = b.connected /\ b'.interest = b.interest
    BY <1>1, <2>1 DEF BackendSet
  <2>3. QED
    BY <2>2, BackendGone DEF BackendEdges, DialInv
<1>10. CASE Fail
  <2> DEFINE cc == [c EXCEPT !.backend = FALSE]
             bb == DetachClient(b)
  <2>1. /\ cc \in ClientSet /\ bb \in BackendSet /\ ~bb.client
        /\ bb.connected = b.connected /\ bb.interest = b.interest
    BY <1>1 DEF ClientSet, BackendSet, DetachClient
  <2>2. \/ ~b.client /\ b' = b
        \/ b' = bb \/ CloseBoth(cc, bb)
    BY <1>10 DEF Fail, OnBackendError
  <2> HIDE DEF cc, bb
  <2>3. ~b'.client /\ b'.connected = b.connected /\ b'.interest = b.interest
    BY <2>1, <2>2, CloseFields
  <2>4. QED
    BY <2>3, BackendGone DEF BackendEdges, DialInv
<1>11. QED
  BY <1>5, <1>6, <1>7, <1>8, <1>9, <1>10

LEMMA BackendRequest ==
  ASSUME Core, FreshInv, BackendEdges, Kept, PumpReadData \/ ProcessHeadForward
  PROVE  BackendEdges'
<1>1. /\ Types /\ PointerInv /\ c \in ClientSet /\ b \in BackendSet /\ net \in [Fds -> SocketSet]
      /\ todo \in Seq(Functions) /\ net["client"] \in SocketSet
      /\ net["client"].rcv \in Nat /\ Chunk \in Nat /\ c.bodyLeft \in Nat
  BY Sizes DEF Core, Types, Fds, SocketSet, ClientSet
<1>2. CASE ProcessHeadForward
  <2>1. b'.interest = {"out"} /\ ~b'.connected /\ ~b'.readPaused
    BY <1>2, HeadForwarded
  <2>2. net' = net /\ Doing("process_head")
    BY <1>2 DEF ProcessHeadForward, envVars
  <2>3. ~HasOut("backend")'
    BY <1>1, <2>2 DEF FreshInv, HasOut, PointerInv, Doing, AtHead
  <2>4. QED
    BY <2>1, <2>3 DEF BackendEdges, DialInv, BackendIn, BackendOut
<1>3. CASE PumpReadData
  <2>1. Doing("pump_read") /\ queued' = queued /\ batch' = batch /\ todo # <<>>
    BY <1>3 DEF PumpReadData, Receiving, loopVars, Doing
  <2>2. \E s : net' = [net EXCEPT !["client"] = s]
    BY <1>3, Zenon DEF PumpReadData
  <2>3. net'["backend"] = net["backend"]
    BY <1>1, <2>2 DEF Fds
  <2>4. \A f \in BackendOwing : ~AtHead(f)
    BY <2>1 DEF Doing, AtHead, BackendOwing
  <2>5. CASE b' = b
    BY <2>1, <2>3, <2>4, <2>5, BackendQuiet DEF SameEnd
  <2> DEFINE n == AtMost(net.client.rcv, Chunk)
             cc == [c EXCEPT !.idle = FALSE]
  <2>6. b' = b \/ ForwardBody(cc, b, n, <<"pump_read">>)
    BY <1>3 DEF PumpReadData
  <2>7. cc.bodyLeft \in Nat /\ n \in Nat
    BY <1>1, AtMostFacts DEF ClientSet
  <2> HIDE DEF n, cc
  <2>8. CASE ForwardBody(cc, b, n, <<"pump_read">>) /\ b' # b
    <3>1. cc.backend /\ b' = Queued(b, Take(cc, n))
      BY <2>8 DEF ForwardBody
    <3>2. Take(cc, n) \in Nat
      BY <2>7, AtMostFacts DEF Take
    <3>3. /\ b'.client = b.client /\ b'.connected = b.connected /\ b'.readPaused = b.readPaused
          /\ b'.interest = b.interest
      BY <1>1, <3>1, <3>2, QueuedFields
    <3>4. b.connected => "flush" \in Calls(todo')
      <4>1. ASSUME b.connected PROVE Then(<<"flush", "forward_body_rest", "pump_read">>)
        BY <2>8, <3>1, <4>1, ForwardCalls
      <4>2. "flush" \in Functions /\ "forward_body_rest" \in Functions /\ "pump_read" \in Functions
        BY DEF Functions
      <4>3. QED
        BY <1>1, <2>1, <4>1, <4>2, Then3
    <3>5. \A g \in BackendOwing : g \in Calls(todo) => g \in Calls(todo')
      BY <2>4 DEF Kept
    <3>6. /\ Owes({"on_readable", "fail"}) => Owes({"on_readable", "fail"})'
          /\ Owes({"on_writable", "flush", "fail"}) => Owes({"on_writable", "flush", "fail"})'
          /\ b.connected => \A S : "flush" \in S => Owes(S)'
      BY <3>4, <3>5 DEF Owes, BackendOwing
    <3>7. /\ HasIn("backend")' = HasIn("backend") /\ HasOut("backend")' = HasOut("backend")
          /\ \A e : Seen("backend", e)' = Seen("backend", e)
      BY <2>1, <2>3 DEF HasIn, HasOut, Seen
    <3>8. QED
      BY <3>3, <3>6, <3>7 DEF BackendEdges, DialInv, BackendIn, BackendOut
  <2>9. QED
    BY <2>5, <2>6, <2>8
<1>4. QED
  BY <1>2, <1>3

\* An event that is dispatched runs what it stands for.
LEMMA DispatchRuns ==
  ASSUME Dispatch
  PROVE  \E e \in batch :
           /\ batch' = batch \ {e}
           /\ e.fd = "client" => "drive" \in Calls(todo') \/ "on_error_client" \in Calls(todo')
           /\ e.fd = "backend" =>
                \/ "fail" \in Calls(todo')
                \/ /\ "in" \in e.ev => "on_readable" \in Calls(todo')
                   /\ "out" \in e.ev => "on_writable" \in Calls(todo')
<1>1. /\ \A f : f \in Calls(<<f>>)
      /\ \A f, g : f \in Calls(<<f, g>>) /\ g \in Calls(<<f, g>>)
  <2>1. ASSUME NEW f PROVE f \in Calls(<<f>>)
    <3>1. Len(<<f>>) = 1 /\ <<f>>[1] = f /\ 1 \in 1 .. 1
      OBVIOUS
    <3>2. QED
      BY <3>1 DEF Calls
  <2>2. ASSUME NEW f, NEW g PROVE f \in Calls(<<f, g>>) /\ g \in Calls(<<f, g>>)
    <3>1. Len(<<f, g>>) = 2 /\ <<f, g>>[1] = f /\ <<f, g>>[2] = g /\ 1 \in 1 .. 2 /\ 2 \in 1 .. 2
      OBVIOUS
    <3>2. QED
      BY <3>1 DEF Calls
  <2>3. QED
    BY <2>1, <2>2
<1>2. /\ todo' = <<"fail">> => "fail" \in Calls(todo')
      /\ todo' = <<"on_readable">> => "on_readable" \in Calls(todo')
      /\ todo' = <<"on_writable">> => "on_writable" \in Calls(todo')
      /\ todo' = <<"drive">> => "drive" \in Calls(todo')
      /\ todo' = <<"on_error_client">> => "on_error_client" \in Calls(todo')
      /\ todo' = <<"drive", "drive">> => "drive" \in Calls(todo')
      /\ todo' = <<"on_readable", "on_writable">> =>
           "on_readable" \in Calls(todo') /\ "on_writable" \in Calls(todo')
  BY <1>1
<1>3. PICK e \in batch :
        /\ batch' = batch \ {e}
        /\ \/ e.fd = "timer" /\ todo' \in SweepTimeouts
           \/ e.fd = "client" /\ "err" \in e.ev /\ todo' = <<"on_error_client">>
           \/ e.fd = "client" /\ todo' \in {<<"drive", "drive">>, <<"drive">>}
           \/ /\ e.fd = "backend"
              /\ \/ "err" \in e.ev /\ todo' = <<"fail">>
                 \/ "in" \in e.ev /\ "out" \notin e.ev /\ todo' = <<"on_readable">>
                 \/ "out" \in e.ev /\ "in" \notin e.ev /\ todo' = <<"on_writable">>
                 \/ "in" \in e.ev /\ "out" \in e.ev /\ todo' = <<"on_readable", "on_writable">>
                 \/ "in" \notin e.ev /\ "out" \notin e.ev /\ todo' = <<>>
  BY DispatchCalls
<1>4. e.fd = "client" => "drive" \in Calls(todo') \/ "on_error_client" \in Calls(todo')
  BY <1>2, <1>3
<1>5. e.fd = "backend" =>
        \/ "fail" \in Calls(todo')
        \/ /\ "in" \in e.ev => "on_readable" \in Calls(todo')
           /\ "out" \in e.ev => "on_writable" \in Calls(todo')
  BY <1>2, <1>3
<1>6. QED
  BY <1>3, <1>4, <1>5

\* epoll_wait returns what was queued and is still ready.
LEMMA WaitSees ==
  ASSUME Types, EpollWait, NEW fd \in Fds
  PROVE  /\ fd \in queued /\ "in" \in Interest(fd) /\ HasIn(fd) => Seen(fd, "in")'
         /\ fd \in queued /\ "out" \in Interest(fd) /\ HasOut(fd) => Seen(fd, "out")'
<1> DEFINE ready == {x \in queued : Ready(x) \cap Interest(x) # {}}
           events == {[fd |-> x, ev |-> Ready(x) \cap Interest(x)] : x \in ready}
<1>1. \A x \in events : x \in batch'
  BY DEF EpollWait
<1>2. ASSUME NEW e, fd \in queued, e \in Interest(fd), e \in Ready(fd) PROVE Seen(fd, e)'
  <2>1. fd \in ready
    BY <1>2
  <2> DEFINE x == [fd |-> fd, ev |-> Ready(fd) \cap Interest(fd)]
  <2>2. x \in events /\ x.fd = fd /\ e \in x.ev
    BY <1>2, <2>1
  <2>3. QED
    BY <1>1, <2>2 DEF Seen
<1>3. QED
  BY <1>2, ReadyEvents

LEMMA BackendLoop ==
  ASSUME Core, BackendEdges, EpollWait \/ Dispatch \/ ProcessPendingClose \/ Env \/ TimePasses
  PROVE  BackendEdges'
<1>1. Types /\ LifeInv /\ c \in ClientSet /\ b \in BackendSet
  BY DEF Core, Types
<1>2. todo = <<>> => \A S : ~Owes(S)
  BY DEF Owes, Calls
<1>3. CASE EpollWait
  <2>1. todo = <<>> /\ batch = {} /\ b' = b /\ net' = net
    BY <1>1, <1>3 DEF EpollWait, Idle, LifeInv, envVars
  <2>2. \A e : Seen("backend", e) => "backend" \in queued
    BY <2>1 DEF Seen
  <2>3. \A e \in b.interest : e \in Interest("backend")
    BY DEF Interest
  <2>4. HasIn("backend")' = HasIn("backend") /\ HasOut("backend")' = HasOut("backend")
    BY <2>1 DEF HasIn, HasOut
  <2>5. /\ "backend" \in queued /\ "in" \in b.interest /\ HasIn("backend") => Seen("backend", "in")'
        /\ "backend" \in queued /\ "out" \in b.interest /\ HasOut("backend") => Seen("backend", "out")'
    BY <1>1, <1>3, <2>3, WaitSees DEF Fds
  <2>6. QED
    BY <1>2, <2>1, <2>2, <2>4, <2>5 DEF BackendEdges, DialInv, BackendIn, BackendOut
<1>4. CASE Dispatch
  <2>1. todo = <<>> /\ b' = b /\ net' = net /\ queued' = queued
    BY <1>4 DEF Dispatch, envVars
  <2>2. PICK e \in batch :
          /\ batch' = batch \ {e}
          /\ e.fd = "backend" =>
               \/ "fail" \in Calls(todo')
               \/ /\ "in" \in e.ev => "on_readable" \in Calls(todo')
                  /\ "out" \in e.ev => "on_writable" \in Calls(todo')
    BY <1>4, DispatchRuns
  <2>3. CASE "fail" \in Calls(todo')
    BY <2>1, <2>3, BackendFailing DEF BackendEdges, DialInv
  <2>4. CASE "fail" \notin Calls(todo')
    <3>1. /\ Seen("backend", "in") => Seen("backend", "in")' \/ "on_readable" \in Calls(todo')
          /\ Seen("backend", "out") => Seen("backend", "out")' \/ "on_writable" \in Calls(todo')
      BY <2>1, <2>2, <2>4 DEF Seen
    <3>2. /\ "on_readable" \in Calls(todo') => Owes({"on_readable", "fail"})'
          /\ "on_writable" \in Calls(todo') => Owes({"on_writable", "flush", "fail"})'
      BY DEF Owes
    <3>3. HasIn("backend")' = HasIn("backend") /\ HasOut("backend")' = HasOut("backend")
      BY <2>1 DEF HasIn, HasOut
    <3>4. QED
      BY <1>2, <2>1, <3>1, <3>2, <3>3 DEF BackendEdges, DialInv, BackendIn, BackendOut
  <2>5. QED
    BY <2>3, <2>4
<1>5. CASE ProcessPendingClose
  <2>1. todo' = todo /\ net' = net /\ batch' = batch /\ queued' = queued \ closing
    BY <1>5 DEF ProcessPendingClose, envVars
  <2>2. CASE "backend" \in closing
    <3>1. b' = NoBackend
      BY <1>5, <2>2 DEF ProcessPendingClose
    <3>2. ~b'.client /\ b'.interest = {"out"}
      BY <3>1 DEF NoBackend
    <3>3. QED
      BY <3>2, BackendGone DEF DialInv
  <2>3. CASE "backend" \notin closing
    <3>1. PICK z \in BOOLEAN : (z => b.client) /\ b' = [b EXCEPT !.client = z]
      <4>1. (b.client /\ ~("client" \in closing /\ c.backend)) \in BOOLEAN
        OBVIOUS
      <4>2. QED
        BY <1>5, <2>3, <4>1, Zenon DEF ProcessPendingClose
    <3>2. SameEnd
      BY <1>1, <3>1 DEF SameEnd, BackendSet
    <3>3. "backend" \in queued => "backend" \in queued'
      BY <2>1, <2>3
    <3>4. Heard("backend", b.interest)
      BY <2>1 DEF Heard, HasIn, HasOut
    <3>5. QED
      BY <2>1, <3>2, <3>3, <3>4, BackendKept
  <2>4. QED
    BY <2>2, <2>3
<1>6. CASE Env
  <2>1. SameEnd
    BY <1>1, <1>6, EnvEdges DEF SameEnd
  <2>2. QED
    BY <1>1, <1>6, <2>1, EnvEdges, BackendKept
<1>7. CASE TimePasses
  <2>1. \E y : b' = [b EXCEPT !.idle = y]
    BY <1>7, Zenon DEF TimePasses
  <2>2. SameEnd
    BY <1>1, <2>1 DEF SameEnd, BackendSet
  <2>3. net' = net /\ batch' = batch /\ queued' = queued /\ todo' = todo
    BY <1>7 DEF TimePasses, envVars, loopVars
  <2>4. Heard("backend", b.interest)
    BY <2>3 DEF Heard, HasIn, HasOut
  <2>5. QED
    BY <2>2, <2>3, <2>4, BackendKept
<1>8. QED
  BY <1>3, <1>4, <1>5, <1>6, <1>7

LEMMA BackendEdgesNext ==
  ASSUME Core, OrderInv, FreshInv, BackendEdges, [Next]_vars PROVE BackendEdges'
<1>1. Kept
  BY OrderNext
<1>2. CASE Finished \/ UNCHANGED vars
  <2>1. b' = b /\ net' = net /\ batch' = batch /\ queued' = queued /\ todo' = todo
    BY <1>2 DEF Finished, vars, envVars, loopVars
  <2>2. QED
    BY <2>1 DEF BackendEdges, DialInv, BackendIn, BackendOut, Seen, Owes, HasIn, HasOut
<1>3. QED
  BY <1>1, <1>2, BackendOther, BackendFlush, BackendEvents, BackendRequest, BackendLoop
     DEF Next, LoopStep

-----------------------------------------------------------------------------
(* Before the handshake: nothing has been read, and nothing is written.    *)

Early == {"pump_read", "process_head", "send_response", "send_head", "forward_body_rest"}
EarlyInv == ~c.handshake => c.state = "ReadingHead" /\ \A f \in Early : f \notin Calls(todo)

LEMMA EarlyInit == Init => EarlyInv
  BY DEF Init, HttpConnection, EarlyInv, Calls

\* A handshake that has been done stays done.
LEMMA HandshakeDone ==
  ASSUME Core, [Next]_vars, c.handshake PROVE c'.handshake
<1>1. c \in ClientSet /\ b \in BackendSet
  BY DEF Core, Types
<1>2. ASSUME NEW cc \in ClientSet, cc.handshake, NEW bb \in BackendSet, CloseBoth(cc, bb) PROVE c'.handshake
  BY <1>2, CloseFields
<1>3. CASE \/ Drive \/ RecomputeInterest \/ PumpReadStop \/ PumpReadBlock \/ PumpReadEof \/ PumpReadError
           \/ PumpWriteBlock \/ PumpWriteError \/ PumpWriteDrained \/ OnErrorClient \/ TimeoutClient
           \/ StartBackendFails \/ ForwardBodyRest \/ OnBackendClosed \/ OnBackendDrained
  <2>1. \/ CloseBoth(c, b) \/ c' = c
        \/ \E y : \/ c' = [c EXCEPT !.interest = y] \/ c' = [c EXCEPT !.readBlock = y]
                  \/ c' = [c EXCEPT !.writeBlock = y] \/ c' = [c EXCEPT !.bodyLeft = y]
                  \/ c' = [c EXCEPT !.state = y] \/ c' = [c EXCEPT !.readPaused = y]
        \/ c' = [c EXCEPT !.eof = TRUE, !.readBlock = "r"]
        \/ c' = [c EXCEPT !.backendPaused = FALSE]
        \/ c' = [c EXCEPT !.backend = FALSE, !.state = "Closing"]
        \/ c' = [c EXCEPT !.handshake = TRUE, !.idle = FALSE]
    <3>1. CASE \/ Drive \/ RecomputeInterest \/ PumpReadStop \/ PumpReadBlock \/ PumpReadEof \/ PumpReadError
      BY <3>1, Zenon DEF Drive, RecomputeInterest, PumpReadStop, PumpReadBlock, PumpReadEof,
           PumpReadError, SetInterest
    <3>2. CASE \/ PumpWriteBlock \/ PumpWriteError \/ PumpWriteDrained \/ OnErrorClient \/ TimeoutClient
               \/ StartBackendFails
      BY <3>2, Zenon DEF PumpWriteBlock, PumpWriteError, PumpWriteDrained, OnErrorClient, TimeoutClient,
           StartBackendFails
    <3>3. CASE ForwardBodyRest \/ OnBackendClosed \/ OnBackendDrained
      BY <3>3, Zenon DEF ForwardBodyRest, OnBackendClosed, OnBackendDrained
    <3>4. QED
      BY <1>3, <3>1, <3>2, <3>3
  <2>2. QED
    BY <1>1, <1>2, <2>1 DEF ClientSet
<1>4. CASE PumpReadData
  <2>1. \/ \E m : c' = [c EXCEPT !.idle = FALSE, !.in = m]
        \/ \E m : c' = [[c EXCEPT !.idle = FALSE] EXCEPT !.bodyLeft = m]
        \/ \E m : c' = [[c EXCEPT !.idle = FALSE] EXCEPT !.in = m]
        \/ c' = [c EXCEPT !.idle = FALSE]
    BY <1>4, Zenon DEF PumpReadData, ForwardBody
  <2>2. QED
    BY <1>1, <2>1 DEF ClientSet
<1>5. CASE \/ SendResponse("send_response", ReplyLen) \/ SendResponse("send_head", 1)
           \/ PumpWriteSome \/ DeliverRest \/ BackendReadData \/ TimePasses \/ ProcessPendingClose
  <2>1. \/ c' = c
        \/ \E m : c' = [c EXCEPT !.out = m, !.responded = TRUE, !.replied = TRUE, !.state = "Closing"]
        \/ \E m : c' = [c EXCEPT !.out = m, !.idle = FALSE]
        \/ \E x, y : c' = [[c EXCEPT !.backendPaused = x] EXCEPT !.interest = y]
        \/ \E m : c' = [c EXCEPT !.out = m, !.responded = TRUE, !.relayed = TRUE]
        \/ \E m : c' = [c EXCEPT !.idle = m]
        \/ \E x, y : c' = [c EXCEPT !.alive = x, !.backend = y]
    BY <1>5, Zenon DEF SendResponse, PumpWriteSome, DeliverRest, SetInterest, BackendReadData, Deliver,
         TimePasses, ProcessPendingClose
  <2>2. QED
    BY <1>1, <2>1 DEF ClientSet
<1>6. CASE PumpWriteEnd
  <2> DEFINE cc == [c EXCEPT !.writeBlock = "ok"]
  <2>1. cc \in ClientSet /\ cc.handshake
    BY <1>1 DEF ClientSet
  <2>2. CloseBoth(cc, b) \/ c' = cc
    BY <1>6 DEF PumpWriteEnd
  <2> HIDE DEF cc
  <2>3. QED
    BY <1>1, <1>2, <2>1, <2>2
<1>7. CASE Fail
  <2> DEFINE cc == [c EXCEPT !.backend = FALSE]
  <2>1. cc \in ClientSet /\ cc.handshake /\ DetachClient(b) \in BackendSet
    BY <1>1 DEF ClientSet, DetachClient, BackendSet
  <2>2. c' = c \/ c' = cc \/ CloseBoth(cc, DetachClient(b))
    BY <1>7 DEF Fail, OnBackendError
  <2> HIDE DEF cc
  <2>3. QED
    BY <1>2, <2>1, <2>2
<1>8. CASE ProcessHeadForward
  BY <1>8, HeadForwarded
<1>9. CASE \/ DriveWrite \/ ProcessHeadIncomplete \/ ProcessHeadReject \/ HandleInternal \/ ResumeReads
           \/ BackendReadStop \/ BackendReadEof \/ BackendReadError \/ RequestClose \/ OnWritable
           \/ FlushSome \/ FlushError \/ FlushDone \/ FlushApplyInterest \/ TimeoutBackend
           \/ EpollWait \/ Dispatch \/ Env \/ Finished \/ UNCHANGED vars
  <2>1. c' = c
    BY <1>9 DEF DriveWrite, ProcessHeadIncomplete, ProcessHeadReject, HandleInternal, ResumeReads,
         BackendReadStop, BackendReadEof, BackendReadError, RequestClose, OnWritable,
         FlushSome, FlushError, FlushDone, FlushApplyInterest, TimeoutBackend, EpollWait, Dispatch,
         Env, PeerSends, PeerCloses, PeerReads, PeerResets, BackendAccepts, BackendRefuses,
         Finished, vars
  <2>2. QED
    BY <2>1
<1>10. QED
  BY <1>3, <1>4, <1>5, <1>6, <1>7, <1>8, <1>9 DEF Next, LoopStep

LEMMA EarlyNext ==
  ASSUME Core, EarlyInv, [Next]_vars PROVE EarlyInv'
<1> SUFFICES ASSUME ~c'.handshake
             PROVE  c'.state = "ReadingHead" /\ \A f \in Early : f \notin Calls(todo')
  BY DEF EarlyInv
<1>1. /\ ~c.handshake /\ c.state = "ReadingHead" /\ \A f \in Early : f \notin Calls(todo)
      /\ ~b.alive /\ ~c.backend
  BY HandshakeDone DEF EarlyInv, Core, PointerInv
<1>2. Types /\ LifeInv /\ c \in ClientSet /\ b \in BackendSet /\ todo \in Seq(Functions)
  BY DEF Core, Types
<1>3. ASSUME NEW f, Doing(f) PROVE f \notin Early /\ f \notin BackendFns /\ f # "on_backend_closed"
  <2>1. todo # <<>> /\ Head(todo) = f /\ f \in Calls(todo) /\ AtHead(f)
    BY <1>2, <1>3, Stack DEF Doing, AtHead
  <2>2. QED
    BY <1>1, <1>2, <2>1 DEF LifeInv, Core, PointerInv
<1>4. ~BackendReadData /\ ~ResumeReads /\ ~BackendReadStop /\ ~BackendReadEof /\ ~BackendReadError
      /\ ~RequestClose /\ ~OnWritable /\ ~FlushSome /\ ~FlushError /\ ~FlushDone
      /\ ~FlushApplyInterest /\ ~Fail /\ ~OnBackendClosed
  BY <1>3 DEF BackendReadData, ResumeReads, BackendReadStop, BackendReadEof, BackendReadError,
       RequestClose, OnWritable, FlushSome, FlushError, FlushDone, FlushApplyInterest, Fail,
       OnBackendClosed, BackendFns
<1>5. ~PumpReadStop /\ ~PumpReadBlock /\ ~PumpReadEof /\ ~PumpReadError /\ ~PumpReadData
      /\ ~ProcessHeadIncomplete /\ ~ProcessHeadReject /\ ~HandleInternal /\ ~StartBackendFails
      /\ ~ProcessHeadForward /\ ~ForwardBodyRest
      /\ ~SendResponse("send_response", ReplyLen) /\ ~SendResponse("send_head", 1)
  BY <1>3 DEF PumpReadStop, PumpReadBlock, PumpReadEof, PumpReadError, PumpReadData, Receiving,
       ProcessHeadIncomplete, ProcessHeadReject, HandleInternal, StartBackendFails, ProcessHeadForward,
       ForwardBodyRest, SendResponse, Early
<1>6. ASSUME CloseBoth(c, b) PROVE c'.state = c.state
  BY <1>2, <1>6, CloseFields
<1>7. \A f \in {"pump_write", "recompute_interest", "pump_write_end", "resume_reads", "drive"} :
        f \in Functions /\ f \notin Early
  BY DEF Functions, Early
<1>8. ASSUME todo # <<>>,
             \/ Return
             \/ \E f \in Functions : f \notin Early /\ Then(<<f>>)
             \/ \E f \in Functions, g \in Functions : f \notin Early /\ g \notin Early /\ Then(<<f, g>>)
      PROVE  \A f \in Early : f \notin Calls(todo')
  <2>1. \A f \in Early : f \notin Deeper(todo)
    BY <1>1, <1>2, <1>8, Stack
  <2>2. QED
    BY <1>2, <1>8, <2>1, Returns, Then1, Then2
<1>9. CASE Drive \/ DriveWrite \/ RecomputeInterest
  <2>1. \/ c' = c \/ CloseBoth(c, b) \/ c' = [c EXCEPT !.handshake = TRUE, !.idle = FALSE]
        \/ \E y : c' = [c EXCEPT !.interest = y]
    BY <1>9, Zenon DEF Drive, DriveWrite, RecomputeInterest, SetInterest
  <2>2. c'.state = c.state
    BY <1>2, <1>6, <2>1 DEF ClientSet
  <2>3. c' # [c EXCEPT !.handshake = TRUE, !.idle = FALSE]
    BY <1>2 DEF ClientSet
  <2>4. todo # <<>> /\ (Return \/ Then(<<"pump_write", "recompute_interest">>))
    BY <1>1, <1>9, <2>3 DEF Drive, DriveWrite, RecomputeInterest, Doing
  <2>5. QED
    BY <1>1, <1>7, <1>8, <2>2, <2>4
<1>10. CASE PumpWriteBlock \/ PumpWriteError \/ PumpWriteDrained \/ OnBackendDrained
            \/ OnErrorClient \/ TimeoutClient \/ TimeoutBackend
  <2>1. \/ c' = c \/ CloseBoth(c, b)
        \/ \E y : c' = [c EXCEPT !.writeBlock = y]
        \/ c' = [c EXCEPT !.backendPaused = FALSE] \/ c' = [c EXCEPT !.readPaused = FALSE]
    BY <1>10, Zenon DEF PumpWriteBlock, PumpWriteError, PumpWriteDrained, OnBackendDrained,
         OnErrorClient, TimeoutClient, TimeoutBackend
  <2>2. c'.state = c.state
    BY <1>2, <1>6, <2>1 DEF ClientSet
  <2>3. /\ todo # <<>>
        /\ \/ Return \/ Then(<<"drive">>)
           \/ Then(<<"pump_write_end">>) \/ Then(<<"resume_reads", "pump_write_end">>)
    BY <1>1, <1>10 DEF PumpWriteBlock, PumpWriteError, PumpWriteDrained, OnBackendDrained,
         OnErrorClient, TimeoutClient, TimeoutBackend, Doing
  <2>4. QED
    BY <1>1, <1>7, <1>8, <2>2, <2>3
<1>11. CASE PumpWriteEnd
  <2> DEFINE cc == [c EXCEPT !.writeBlock = "ok"]
  <2>1. cc \in ClientSet /\ cc.state = c.state
    BY <1>2 DEF ClientSet
  <2>2. CloseBoth(cc, b) \/ c' = cc
    BY <1>11 DEF PumpWriteEnd
  <2> HIDE DEF cc
  <2>3. c'.state = c.state
    BY <1>2, <2>1, <2>2, CloseFields
  <2>4. QED
    BY <1>1, <1>8, <1>11, <2>3 DEF PumpWriteEnd, Doing
<1>12. CASE DeliverRest
  <2>1. c' = c \/ \E x, y : c' = [[c EXCEPT !.backendPaused = x] EXCEPT !.interest = y]
    BY <1>12, Zenon DEF DeliverRest, SetInterest
  <2>2. c'.state = c.state
    BY <1>2, <2>1 DEF ClientSet
  <2>3. QED
    BY <1>1, <1>8, <1>12, <2>2 DEF DeliverRest, Doing
<1>13. CASE PumpWriteSome \/ EpollWait \/ ProcessPendingClose \/ Env \/ TimePasses \/ Finished \/ UNCHANGED vars
  <2>1. todo' = todo
    BY <1>13 DEF PumpWriteSome, EpollWait, ProcessPendingClose, TimePasses, Finished, vars,
         Env, PeerSends, PeerCloses, PeerReads, PeerResets, BackendAccepts, BackendRefuses
  <2>2. \/ c' = c
        \/ \E m : c' = [c EXCEPT !.out = m, !.idle = FALSE]
        \/ \E m : c' = [c EXCEPT !.idle = m]
        \/ \E x, y : c' = [c EXCEPT !.alive = x, !.backend = y]
    BY <1>13, Zenon DEF PumpWriteSome, EpollWait, ProcessPendingClose, TimePasses, Finished, vars,
         Env, PeerSends, PeerCloses, PeerReads, PeerResets, BackendAccepts, BackendRefuses
  <2>3. c'.state = c.state
    BY <1>2, <2>2 DEF ClientSet
  <2>4. QED
    BY <1>1, <2>1, <2>3
<1>14. CASE Dispatch
  <2>1. c' = c
    BY <1>14 DEF Dispatch
  <2>2. \A x \in Calls(todo') : x \in {"timeout_client", "timeout_backend", "on_error_client", "drive",
                                      "fail", "on_readable", "on_writable"}
    BY <1>14, DispatchCalls
  <2>3. QED
    BY <1>1, <2>1, <2>2 DEF Early
<1>15. QED
  BY <1>4, <1>5, <1>9, <1>10, <1>11, <1>12, <1>13, <1>14 DEF Next, LoopStep

-----------------------------------------------------------------------------
(* The client's edges.                                                     *)

Reads == ~c.closed /\ c.handshake /\ ~c.readPaused /\ ~c.eof /\ c.readBlock = "r"
Writes == ~c.closed /\ c.out > 0 /\ c.writeBlock # "r"

\* The crossed waits of TLS: a read for writability, a write for readability.
CrossReads == ~c.closed /\ c.handshake /\ ~c.readPaused /\ ~c.eof /\ c.readBlock = "w"
CrossWrites == ~c.closed /\ c.out > 0 /\ c.writeBlock = "r"

\* The functions that will register the interest, and those that will read.
ClientIn ==
  Reads =>
    /\ "in" \in c.interest \/ Owes({"drive", "pump_read", "drive_write", "recompute_interest"})
    /\ "in" \in c.interest /\ HasIn("client") =>
         Seen("client", "in") \/ Owes({"drive", "pump_read", "on_error_client"})

CrossIn ==
  CrossReads =>
    /\ "out" \in c.interest \/ Owes({"drive", "pump_read", "drive_write", "recompute_interest"})
    /\ "out" \in c.interest /\ HasOut("client") =>
         Seen("client", "out") \/ Owes({"drive", "pump_read", "on_error_client"})

\* The same for writes; after a pump that no longer waits for the client's
\* bytes it is the change of the interest that wakes epoll up.
Stale == (AtHead("recompute_interest") \/ AtHead("deliver_rest")) /\ c.interest # Wanted(c)
ClientOut ==
  Writes =>
    /\ "out" \in c.interest \/ Owes({"recompute_interest", "deliver_rest"})
    /\ "out" \in c.interest /\ HasOut("client") =>
         \/ Seen("client", "out") \/ Owes({"drive", "drive_write", "pump_write", "on_error_client"})
         \/ Stale
CrossOut ==
  CrossWrites =>
    /\ "in" \in c.interest \/ Owes({"recompute_interest", "deliver_rest"})
    /\ "in" \in c.interest /\ HasIn("client") =>
         Seen("client", "in") \/ Owes({"drive", "drive_write", "pump_write", "on_error_client"})

\* What a resumed backend has delivered inside pump_write is registered when
\* pump_write goes on.
EndInterest ==
  "pump_write_end" \in Calls(todo) /\ Head(todo) \notin Updaters \cup {"pump_write"} =>
    c.closed \/ c.out = 0 \/ c.interest = Wanted(c)

ClientEdges == ClientIn /\ CrossIn /\ ClientOut /\ CrossOut /\ EndInterest

LEMMA ClientEdgesInit == Init => ClientEdges
<1>1. ASSUME Init PROVE ~c.handshake /\ ~(c.out > 0) /\ c.out = 0
  BY <1>1 DEF Init, HttpConnection
<1>2. QED
  BY <1>1 DEF ClientEdges, ClientIn, CrossIn, ClientOut, CrossOut, EndInterest,
              Reads, CrossReads, Writes, CrossWrites

\* Nothing is owed to a client that is closed.
LEMMA ClientGone == ASSUME c'.closed PROVE ClientEdges'
  BY DEF ClientEdges, ClientIn, CrossIn, ClientOut, CrossOut, EndInterest,
         Reads, CrossReads, Writes, CrossWrites

\* The kernel's side of the client, and what is known of it, stay.
SameNews ==
  /\ c'.interest = c.interest /\ Heard("client", c.interest) /\ batch' = batch
  /\ "client" \in queued => "client" \in queued'

LEMMA InKept ==
  ASSUME ClientIn, CrossIn, Reads' => Reads, CrossReads' => CrossReads, SameNews,
         \A f \in {"drive", "pump_read", "drive_write", "recompute_interest", "on_error_client"} :
           f \in Calls(todo) => f \in Calls(todo')
  PROVE  ClientIn' /\ CrossIn'
<1>1. /\ Owes({"drive", "pump_read", "drive_write", "recompute_interest"}) =>
           Owes({"drive", "pump_read", "drive_write", "recompute_interest"})'
      /\ Owes({"drive", "pump_read", "on_error_client"}) => Owes({"drive", "pump_read", "on_error_client"})'
  BY DEF Owes
<1>2. /\ \A e : Seen("client", e) => Seen("client", e)'
      /\ "client" \in queued' => \A e : Seen("client", e)'
  BY DEF Seen, SameNews
<1>3. ClientIn'
  BY <1>1, <1>2 DEF ClientIn, SameNews, Heard
<1>4. CrossIn'
  BY <1>1, <1>2 DEF CrossIn, SameNews, Heard
<1>5. QED
  BY <1>3, <1>4

LEMMA OutKept ==
  ASSUME ClientOut, CrossOut, Writes' => Writes, CrossWrites' => CrossWrites, SameNews,
         \A f \in {"drive", "drive_write", "pump_write", "on_error_client", "recompute_interest",
                   "deliver_rest"} : f \in Calls(todo) => f \in Calls(todo'),
         Stale => Stale'
  PROVE  ClientOut' /\ CrossOut'
<1>1. /\ Owes({"recompute_interest", "deliver_rest"}) => Owes({"recompute_interest", "deliver_rest"})'
      /\ Owes({"drive", "drive_write", "pump_write", "on_error_client"}) =>
           Owes({"drive", "drive_write", "pump_write", "on_error_client"})'
  BY DEF Owes
<1>2. /\ \A e : Seen("client", e) => Seen("client", e)'
      /\ "client" \in queued' => \A e : Seen("client", e)'
  BY DEF Seen, SameNews
<1>3. ClientOut'
  BY <1>1, <1>2 DEF ClientOut, SameNews, Heard
<1>4. CrossOut'
  BY <1>1, <1>2 DEF CrossOut, SameNews, Heard
<1>5. QED
  BY <1>3, <1>4

\* A step that touches neither direction.
SameSides ==
  /\ c'.closed = c.closed /\ c'.handshake = c.handshake /\ c'.readPaused = c.readPaused
  /\ c'.eof = c.eof /\ c'.readBlock = c.readBlock
  /\ c'.out = c.out /\ c'.writeBlock = c.writeBlock /\ c'.interest = c.interest

LEMMA SameWanted ==
  ASSUME SameSides
  PROVE  /\ Reads' = Reads /\ Writes' = Writes /\ Wanted(c') = Wanted(c)
         /\ CrossReads' = CrossReads /\ CrossWrites' = CrossWrites
<1>1. ReadWants(c') = ReadWants(c)
  BY DEF SameSides, ReadWants
<1>2. WriteWants(c') = WriteWants(c)
  BY DEF SameSides, WriteWants
<1>3. QED
  BY <1>1, <1>2 DEF SameSides, Wanted, Reads, Writes, CrossReads, CrossWrites

\* Who runs inside a pump_write that a backend has interrupted.
LEMMA NotAboveEnd ==
  ASSUME Core, OrderInv, NEW f, Doing(f), f \notin AboveEnd PROVE "pump_write_end" \notin Calls(todo)
<1>1. todo \in Seq(Functions) /\ todo # <<>> /\ Head(todo) = f
  BY DEF Core, Types, Doing
<1>2. "pump_write_end" \notin Deeper(todo)
  BY <1>1, AboveTail DEF OrderInv
<1>3. QED
  BY <1>1, <1>2, Stack DEF AboveEnd

ClientOwing ==
  {"drive", "pump_read", "drive_write", "recompute_interest", "on_error_client", "pump_write",
   "deliver_rest"}

LEMMA ClientKept ==
  ASSUME ClientEdges, SameSides, Heard("client", c.interest), batch' = batch,
         "client" \in queued => "client" \in queued', Kept,
         \/ todo' = todo
         \/ /\ \A f \in ClientOwing : ~AtHead(f)
            /\ "pump_write_end" \in Calls(todo') => "pump_write_end" \in Calls(todo)
  PROVE  ClientEdges'
<1>1. /\ Reads' = Reads /\ Writes' = Writes /\ Wanted(c') = Wanted(c)
      /\ CrossReads' = CrossReads /\ CrossWrites' = CrossWrites
  BY SameWanted
<1>2. \A f \in ClientOwing : f \in Calls(todo) => f \in Calls(todo')
  BY DEF Kept
<1>3. SameNews
  BY DEF SameNews, SameSides
<1>4. ClientIn' /\ CrossIn'
  BY <1>1, <1>2, <1>3, InKept DEF ClientEdges, ClientOwing
<1>5. Stale => Stale'
  BY <1>1 DEF Stale, AtHead, ClientOwing, SameSides
<1>6. ClientOut' /\ CrossOut'
  BY <1>1, <1>2, <1>3, <1>5, OutKept DEF ClientEdges, ClientOwing
<1>7. EndInterest'
  <2>1. CASE todo' = todo
    BY <1>1, <2>1 DEF ClientEdges, EndInterest, SameSides
  <2>2. CASE /\ \A f \in ClientOwing : ~AtHead(f)
             /\ "pump_write_end" \in Calls(todo') => "pump_write_end" \in Calls(todo)
    <3>1. "pump_write_end" \in Calls(todo) => todo # <<>>
      BY DEF Calls
    <3>2. "pump_write_end" \in Calls(todo) => Head(todo) \notin Updaters \cup {"pump_write"}
      BY <2>2, <3>1 DEF AtHead, ClientOwing, Updaters
    <3>3. QED
      BY <1>1, <2>2, <3>2 DEF ClientEdges, EndInterest, SameSides
  <2>3. QED
    BY <2>1, <2>2
<1>8. QED
  BY <1>4, <1>6, <1>7 DEF ClientEdges

\* Functions that touch neither direction of the client.
LEMMA ClientOther ==
  ASSUME Core, ClientEdges, Kept,
         \/ ProcessHeadIncomplete \/ ProcessHeadReject \/ HandleInternal \/ StartBackendFails
         \/ ProcessHeadForward \/ ResumeReads \/ BackendReadStop \/ BackendReadEof \/ BackendReadError
         \/ OnBackendClosed \/ RequestClose \/ Fail \/ OnWritable \/ FlushSome \/ FlushError
         \/ FlushDone \/ FlushApplyInterest \/ TimeoutBackend \/ TimeoutClient
  PROVE  ClientEdges'
<1>1. /\ Types /\ c \in ClientSet /\ b \in BackendSet /\ net \in [Fds -> SocketSet]
      /\ todo \in Seq(Functions)
  BY DEF Core, Types
<1>2. ASSUME NEW f, Doing(f), f \notin ClientOwing PROVE todo # <<>> /\ \A g \in ClientOwing : ~AtHead(g)
  BY <1>2 DEF Doing, AtHead
<1>3. \A f \in {"process_head", "resume_reads", "on_readable", "on_backend_closed", "request_close",
                "fail", "on_writable", "flush", "apply_interest", "timeout_backend", "timeout_client"} :
        f \notin ClientOwing
  BY DEF ClientOwing
<1>4. todo # <<>> /\ \A f \in ClientOwing : ~AtHead(f)
  <2>1. CASE \/ ProcessHeadIncomplete \/ ProcessHeadReject \/ HandleInternal \/ StartBackendFails
             \/ ProcessHeadForward \/ ResumeReads \/ BackendReadStop \/ BackendReadEof \/ BackendReadError
    BY <1>2, <1>3, <2>1
       DEF ProcessHeadIncomplete, ProcessHeadReject, HandleInternal, StartBackendFails,
           ProcessHeadForward, ResumeReads, BackendReadStop, BackendReadEof, BackendReadError
  <2>2. CASE \/ OnBackendClosed \/ RequestClose \/ Fail \/ OnWritable \/ FlushSome \/ FlushError
             \/ FlushDone \/ FlushApplyInterest \/ TimeoutBackend \/ TimeoutClient
    BY <1>2, <1>3, <2>2
       DEF OnBackendClosed, RequestClose, Fail, OnWritable, FlushSome, FlushError,
           FlushDone, FlushApplyInterest, TimeoutBackend, TimeoutClient
  <2>3. QED
    BY <2>1, <2>2
<1>5. \A f \in {"send_response", "send_head", "forward_body_rest", "on_readable", "on_backend_closed",
                "request_close", "fail", "pump_write", "recompute_interest", "flush",
                "on_backend_drained", "apply_interest"} : f \in Functions /\ f # "pump_write_end"
  BY DEF Functions
<1>6. \/ todo' = todo \/ Return
      \/ \E f \in Functions : f # "pump_write_end" /\ Then(<<f>>)
      \/ \E f \in Functions, g \in Functions :
           f # "pump_write_end" /\ g # "pump_write_end" /\ Then(<<f, g>>)
  <2>1. CASE \/ ProcessHeadIncomplete \/ ProcessHeadReject \/ HandleInternal \/ StartBackendFails
             \/ ResumeReads \/ BackendReadStop \/ BackendReadEof \/ BackendReadError
    BY <1>5, <2>1
       DEF ProcessHeadIncomplete, ProcessHeadReject, HandleInternal, StartBackendFails,
           ResumeReads, BackendReadStop, BackendReadEof, BackendReadError
  <2>2. CASE \/ OnBackendClosed \/ RequestClose \/ Fail \/ OnWritable \/ FlushSome \/ FlushError
             \/ FlushApplyInterest \/ TimeoutBackend \/ TimeoutClient
    BY <1>5, <2>2
       DEF OnBackendClosed, RequestClose, Fail, OnBackendError, OnWritable, FlushSome, FlushError,
           FlushApplyInterest, TimeoutBackend, TimeoutClient
  <2>3. CASE ProcessHeadForward
    BY <1>5, <2>3, HeadForwarded
  <2>4. CASE FlushDone
    BY <1>5, <2>4, FlushCalls
  <2>5. QED
    BY <2>1, <2>2, <2>3, <2>4
<1>7. "pump_write_end" \in Calls(todo') => "pump_write_end" \in Calls(todo)
  <2>1. Deeper(todo) \subseteq Calls(todo)
    BY <1>1, <1>4, Stack
  <2>2. QED
    BY <1>1, <1>4, <1>6, <2>1, Returns, Then1, Then2
<1>8. \A x \in queued : x \in queued'
  <2>1. queued' = queued \/ \E old, new : queued' = Update(queued, "backend", old, new)
    BY DEF ProcessHeadIncomplete, ProcessHeadReject, HandleInternal, StartBackendFails,
         ProcessHeadForward, ResumeReads, BackendReadStop, BackendReadEof, BackendReadError,
         OnBackendClosed, RequestClose, Fail, OnWritable, FlushSome, FlushError,
         FlushDone, FlushApplyInterest, TimeoutBackend, TimeoutClient, ApplyInterest, loopVars
  <2>2. QED
    BY <2>1, UpdateKeeps
<1>9. batch' = batch
  BY DEF ProcessHeadIncomplete, ProcessHeadReject, HandleInternal, StartBackendFails,
       ProcessHeadForward, ResumeReads, BackendReadStop, BackendReadEof, BackendReadError,
       OnBackendClosed, RequestClose, Fail, OnWritable, FlushSome, FlushError,
       FlushDone, FlushApplyInterest, TimeoutBackend, TimeoutClient, loopVars
<1>10. Heard("client", c.interest)
  <2>1. net' = net \/ \E s : net' = [net EXCEPT !["backend"] = s]
    <3>1. CASE FlushSome
      BY <3>1, Zenon DEF FlushSome
    <3>2. CASE ~FlushSome
      BY <3>2 DEF ProcessHeadIncomplete, ProcessHeadReject, HandleInternal, StartBackendFails,
       ProcessHeadForward, ResumeReads, BackendReadStop, BackendReadEof, BackendReadError,
       OnBackendClosed, RequestClose, Fail, OnWritable, FlushError,
       FlushDone, FlushApplyInterest, TimeoutBackend, TimeoutClient, envVars
    <3>3. QED
      BY <3>1, <3>2
  <2>2. net'["client"] = net["client"]
    BY <1>1, <2>1 DEF Fds
  <2>3. QED
    BY <2>2 DEF Heard, HasIn, HasOut
<1>11. SameSides \/ c'.closed
  <2>1. CASE Fail
    <3> DEFINE cc == [c EXCEPT !.backend = FALSE]
    <3>1. cc \in ClientSet /\ DetachClient(b) \in BackendSet
      BY <1>1 DEF ClientSet, DetachClient, BackendSet
    <3>2. c' = c \/ c' = [c EXCEPT !.backend = FALSE] \/ CloseBoth(cc, DetachClient(b))
      BY <2>1 DEF Fail, OnBackendError
    <3> HIDE DEF cc
    <3>3. CASE CloseBoth(cc, DetachClient(b))
      BY <3>1, <3>3, CloseFields
    <3>4. CASE c' = c \/ c' = [c EXCEPT !.backend = FALSE]
      BY <1>1, <3>4 DEF SameSides, ClientSet
    <3>5. QED
      BY <3>2, <3>3, <3>4
  <2>2. CASE ProcessHeadForward
    BY <2>2, HeadForwarded DEF SameSides
  <2>3. CASE TimeoutClient
    BY <1>1, <2>3, CloseFields DEF TimeoutClient, SameSides
  <2>4. CASE StartBackendFails \/ OnBackendClosed
    <3>1. \/ \E y : c' = [c EXCEPT !.bodyLeft = y]
          \/ c' = [c EXCEPT !.backend = FALSE, !.state = "Closing"]
      BY <2>4, Zenon DEF StartBackendFails, OnBackendClosed
    <3>2. QED
      BY <1>1, <3>1 DEF SameSides, ClientSet
  <2>5. CASE ~Fail /\ ~ProcessHeadForward /\ ~TimeoutClient /\ ~StartBackendFails /\ ~OnBackendClosed
    <3>1. c' = c
      BY <2>5 DEF ProcessHeadIncomplete, ProcessHeadReject, HandleInternal, ResumeReads,
           BackendReadStop, BackendReadEof, BackendReadError, RequestClose, OnWritable,
           FlushSome, FlushError, FlushDone, FlushApplyInterest, TimeoutBackend
    <3>2. QED
      BY <3>1 DEF SameSides
  <2>6. QED
    BY <2>1, <2>2, <2>3, <2>4, <2>5
<1>12. QED
  BY <1>4, <1>7, <1>8, <1>9, <1>10, <1>11, ClientGone, ClientKept

LEMMA ClientLoop ==
  ASSUME Core, ClientEdges, EpollWait \/ Dispatch \/ ProcessPendingClose \/ Env \/ TimePasses
  PROVE  ClientEdges'
<1>1. Types /\ LifeInv /\ c \in ClientSet
  BY DEF Core, Types
<1>2. todo = <<>> => (\A S : ~Owes(S)) /\ ~Stale /\ \A f : f \notin Calls(todo)
  BY DEF Owes, Calls, Stale, AtHead
<1>3. todo' = todo => Kept
  BY DEF Kept
<1>4. ASSUME c' = c
      PROVE  /\ Reads' = Reads /\ Writes' = Writes
             /\ CrossReads' = CrossReads /\ CrossWrites' = CrossWrites
  BY <1>4 DEF Reads, Writes, CrossReads, CrossWrites
<1>5. CASE EpollWait
  <2>1. todo = <<>> /\ batch = {} /\ c' = c /\ net' = net /\ todo' = todo
    BY <1>1, <1>5 DEF EpollWait, Idle, LifeInv, envVars
  <2>2. \A e : Seen("client", e) => "client" \in queued
    BY <2>1 DEF Seen
  <2>3. \A e \in c.interest : e \in Interest("client")
    BY DEF Interest
  <2>4. HasIn("client")' = HasIn("client") /\ HasOut("client")' = HasOut("client")
    BY <2>1 DEF HasIn, HasOut
  <2>5. /\ "client" \in queued /\ "in" \in c.interest /\ HasIn("client") => Seen("client", "in")'
        /\ "client" \in queued /\ "out" \in c.interest /\ HasOut("client") => Seen("client", "out")'
    BY <1>1, <1>5, <2>3, WaitSees DEF Fds
  <2>6. ClientIn' /\ CrossIn'
    BY <1>2, <1>4, <2>1, <2>2, <2>4, <2>5 DEF ClientEdges, ClientIn, CrossIn
  <2>7. ClientOut' /\ CrossOut'
    BY <1>2, <1>4, <2>1, <2>2, <2>4, <2>5 DEF ClientEdges, ClientOut, CrossOut
  <2>8. EndInterest'
    BY <1>2, <2>1 DEF EndInterest
  <2>9. QED
    BY <2>6, <2>7, <2>8 DEF ClientEdges
<1>6. CASE Dispatch
  <2>1. todo = <<>> /\ c' = c /\ net' = net /\ queued' = queued
    BY <1>6 DEF Dispatch, envVars
  <2>2. PICK e \in batch :
          /\ batch' = batch \ {e}
          /\ e.fd = "client" => "drive" \in Calls(todo') \/ "on_error_client" \in Calls(todo')
    BY <1>6, DispatchRuns
  <2>3. \A x : Seen("client", x) =>
          Seen("client", x)' \/ "drive" \in Calls(todo') \/ "on_error_client" \in Calls(todo')
    BY <2>1, <2>2 DEF Seen
  <2>4. \A S : {"drive", "on_error_client"} \subseteq S =>
          ("drive" \in Calls(todo') \/ "on_error_client" \in Calls(todo') => Owes(S)')
    BY DEF Owes
  <2>5. HasIn("client")' = HasIn("client") /\ HasOut("client")' = HasOut("client")
    BY <2>1 DEF HasIn, HasOut
  <2>6. ClientIn' /\ CrossIn'
    BY <1>2, <1>4, <2>1, <2>3, <2>4, <2>5 DEF ClientEdges, ClientIn, CrossIn
  <2>7. ClientOut' /\ CrossOut'
    BY <1>2, <1>4, <2>1, <2>3, <2>4, <2>5 DEF ClientEdges, ClientOut, CrossOut
  <2>8. EndInterest'
    <3>1. "pump_write_end" \notin Calls(todo')
      BY <1>6, DispatchCalls
    <3>2. QED
      BY <3>1 DEF EndInterest
  <2>9. QED
    BY <2>6, <2>7, <2>8 DEF ClientEdges
<1>7. CASE ProcessPendingClose
  <2>1. todo' = todo /\ net' = net /\ batch' = batch /\ queued' = queued \ closing
    BY <1>7 DEF ProcessPendingClose, envVars
  <2>2. \E x, y : c' = [c EXCEPT !.alive = x, !.backend = y]
    BY <1>7, Zenon DEF ProcessPendingClose
  <2>3. SameSides
    BY <1>1, <2>2 DEF SameSides, ClientSet
  <2>4. CASE "client" \in closing
    BY <1>1, <2>3, <2>4, ClientGone DEF LifeInv, SameSides
  <2>5. CASE "client" \notin closing
    <3>1. Heard("client", c.interest) /\ ("client" \in queued => "client" \in queued')
      BY <2>1, <2>5 DEF Heard, HasIn, HasOut
    <3>2. QED
      BY <1>3, <2>1, <2>3, <3>1, ClientKept
  <2>6. QED
    BY <2>4, <2>5
<1>8. CASE Env
  <2>1. SameSides
    BY <1>1, <1>8, EnvEdges DEF SameSides
  <2>2. QED
    BY <1>1, <1>3, <1>8, <2>1, EnvEdges, ClientKept
<1>9. CASE TimePasses
  <2>1. \E x : c' = [c EXCEPT !.idle = x]
    BY <1>9, Zenon DEF TimePasses
  <2>2. SameSides
    BY <1>1, <2>1 DEF SameSides, ClientSet
  <2>3. net' = net /\ batch' = batch /\ queued' = queued /\ todo' = todo
    BY <1>9 DEF TimePasses, envVars, loopVars
  <2>4. Heard("client", c.interest)
    BY <2>3 DEF Heard, HasIn, HasOut
  <2>5. QED
    BY <1>3, <2>2, <2>3, <2>4, ClientKept
<1>10. QED
  BY <1>5, <1>6, <1>7, <1>8, <1>9

\* drive, what it ends with, and the functions that start it.
LEMMA ClientDrive ==
  ASSUME Core, BufferInv, OrderInv, EarlyInv, ClientEdges, Kept,
         Drive \/ DriveWrite \/ OnErrorClient \/ OnBackendDrained \/ ForwardBodyRest
  PROVE  ClientEdges'
<1>1. /\ Types /\ c \in ClientSet /\ b \in BackendSet /\ todo \in Seq(Functions) /\ c.out \in Nat
  BY DEF Core, Types, ClientSet
<1>2. ASSUME NEW f, Doing(f)
      PROVE  /\ todo # <<>> /\ Deeper(todo) \subseteq Calls(todo)
             /\ \A g \in Calls(todo) : g # f => g \in Calls(todo')
  BY <1>1, <1>2, Stack DEF Doing, Kept, AtHead
<1>3. \A f \in {"pump_read", "drive_write", "pump_write", "recompute_interest", "drive"} :
        f \in Functions /\ f # "pump_write_end"
  BY DEF Functions
<1>4. \A S, f : f \in S /\ f \in Calls(todo') => Owes(S)'
  BY DEF Owes
<1>5. ASSUME CloseBoth(c, b) PROVE ClientEdges'
  BY <1>1, <1>5, CloseFields, ClientGone
<1>6. \A f \in {"drive", "on_backend_drained", "forward_body_rest"} : f \notin AboveEnd
  BY DEF AboveEnd
<1>7. CASE Drive
  <2>1. Doing("drive") /\ "pump_write_end" \notin Calls(todo) /\ net' = net /\ batch' = batch
    BY <1>6, <1>7, NotAboveEnd DEF Drive, envVars
  <2>2. CASE c.closed
    <3>1. c'.closed
      BY <1>1, <1>7, <2>2, CloseFields DEF Drive
    <3>2. QED
      BY <3>1, ClientGone
  <2>3. CASE /\ Then(<<"pump_read", "drive_write">>) /\ queued' = queued
             /\ c' = c \/ c' = [c EXCEPT !.handshake = TRUE, !.idle = FALSE]
    <3>1. Calls(todo') = {"pump_read", "drive_write"} \cup Deeper(todo)
      BY <1>1, <1>2, <1>3, <2>1, <2>3, Then2
    <3>2. /\ c'.interest = c.interest /\ c'.out = c.out /\ c'.writeBlock = c.writeBlock
          /\ c'.closed = c.closed
      BY <1>1, <2>3 DEF ClientSet
    <3>3. ClientIn' /\ CrossIn'
      BY <1>4, <3>1 DEF ClientIn, CrossIn
    <3>4. ClientOut' /\ CrossOut'
      <4>1. Owes({"recompute_interest", "deliver_rest"}) => Owes({"recompute_interest", "deliver_rest"})'
        BY <1>2, <2>1 DEF Owes
      <4>2. Owes({"drive", "drive_write", "pump_write", "on_error_client"})'
        BY <1>4, <3>1
      <4>3. (Writes' => Writes) /\ (CrossWrites' => CrossWrites)
        BY <3>2 DEF Writes, CrossWrites
      <4>4. QED
        BY <3>2, <4>1, <4>2, <4>3 DEF ClientEdges, ClientOut, CrossOut
    <3>5. EndInterest'
      BY <1>2, <2>1, <3>1 DEF EndInterest
    <3>6. QED
      BY <3>3, <3>4, <3>5 DEF ClientEdges
  <2>4. CASE ~c.closed /\ ~c.handshake /\ Return /\ \E y : c' = [c EXCEPT !.interest = y]
    <3>1. ~c'.handshake /\ c'.out = c.out
      BY <1>1, <2>4 DEF ClientSet
    <3>2. c.out = 0
      BY <2>4 DEF EarlyInv, BufferInv, HeadInv
    <3>3. "pump_write_end" \notin Calls(todo')
      BY <1>1, <1>2, <2>1, <2>4, Returns
    <3>4. QED
      BY <3>1, <3>2, <3>3 DEF ClientEdges, ClientIn, CrossIn, ClientOut, CrossOut, EndInterest,
                              Reads, CrossReads, Writes, CrossWrites
  <2>5. CASE CloseBoth(c, b)
    BY <1>5, <2>5
  <2>6. \/ c.closed
        \/ /\ Then(<<"pump_read", "drive_write">>) /\ queued' = queued
           /\ c' = c \/ c' = [c EXCEPT !.handshake = TRUE, !.idle = FALSE]
        \/ ~c.closed /\ ~c.handshake /\ Return /\ \E y : c' = [c EXCEPT !.interest = y]
        \/ CloseBoth(c, b)
    BY <1>7, Zenon DEF Drive, SetInterest
  <2>7. QED
    BY <2>2, <2>3, <2>4, <2>5, <2>6
<1>8. CASE DriveWrite
  <2>1. Doing("drive_write") /\ c' = c /\ net' = net /\ batch' = batch /\ queued' = queued
    BY <1>8 DEF DriveWrite, envVars, loopVars
  <2>2. CASE c.closed
    BY <2>1, <2>2, ClientGone
  <2>3. CASE ~c.closed
    <3>1. Then(<<"pump_write", "recompute_interest">>)
      BY <1>8, <2>3 DEF DriveWrite
    <3>2. Calls(todo') = {"pump_write", "recompute_interest"} \cup Deeper(todo)
          /\ Head(todo') = "pump_write"
      BY <1>1, <1>2, <1>3, <2>1, <3>1, Then2
    <3>3. /\ HasIn("client")' = HasIn("client") /\ HasOut("client")' = HasOut("client")
          /\ \A e : Seen("client", e)' = Seen("client", e)
      BY <2>1 DEF HasIn, HasOut, Seen
    <3>4. Owes({"drive", "pump_read", "on_error_client"}) => Owes({"drive", "pump_read", "on_error_client"})'
      BY <1>2, <2>1 DEF Owes
    <3>5. ClientIn' /\ CrossIn'
      BY <1>4, <2>1, <3>2, <3>3, <3>4 DEF ClientEdges, ClientIn, CrossIn, Reads, CrossReads
    <3>6. ClientOut' /\ CrossOut'
      BY <1>4, <3>2 DEF ClientOut, CrossOut
    <3>7. EndInterest'
      BY <3>2 DEF EndInterest
    <3>8. QED
      BY <3>5, <3>6, <3>7 DEF ClientEdges
  <2>4. QED
    BY <2>2, <2>3
<1>9. CASE OnErrorClient
  BY <1>5, <1>9 DEF OnErrorClient
<1>10. CASE OnBackendDrained
  <2>1. /\ Doing("on_backend_drained") /\ "pump_write_end" \notin Calls(todo)
        /\ net' = net /\ batch' = batch /\ queued' = queued
    BY <1>6, <1>10, NotAboveEnd DEF OnBackendDrained, envVars, loopVars
  <2>2. \A f \in ClientOwing : f \in Calls(todo) => f \in Calls(todo')
    BY <1>2, <2>1 DEF ClientOwing
  <2>3. Heard("client", c.interest)
    BY <2>1 DEF Heard, HasIn, HasOut
  <2>4. ~Stale
    BY <2>1 DEF Stale, AtHead, Doing
  <2>5. CASE c' = c /\ Return
    <3>1. SameSides
      BY <2>5 DEF SameSides
    <3>2. "pump_write_end" \notin Calls(todo')
      BY <1>1, <1>2, <2>1, <2>5, Returns
    <3>3. \A f \in ClientOwing : ~AtHead(f)
      BY <2>1 DEF Doing, AtHead, ClientOwing
    <3>4. QED
      BY <2>1, <2>3, <3>1, <3>2, <3>3, ClientKept
  <2>6. CASE c' = [c EXCEPT !.readPaused = FALSE] /\ Then(<<"drive">>)
    <3>1. Calls(todo') = {"drive"} \cup Deeper(todo)
      BY <1>1, <1>2, <1>3, <2>1, <2>6, Then1
    <3>2. /\ c'.interest = c.interest /\ c'.out = c.out /\ c'.writeBlock = c.writeBlock
          /\ c'.closed = c.closed
      BY <1>1, <2>6 DEF ClientSet
    <3>3. ClientIn' /\ CrossIn'
      BY <1>4, <3>1 DEF ClientIn, CrossIn
    <3>4. SameNews
      BY <2>1, <2>3, <3>2 DEF SameNews
    <3>5. (Writes' => Writes) /\ (CrossWrites' => CrossWrites)
      BY <3>2 DEF Writes, CrossWrites
    <3>6. ClientOut' /\ CrossOut'
      BY <2>2, <2>4, <3>4, <3>5, OutKept DEF ClientEdges, ClientOwing
    <3>7. EndInterest'
      BY <1>2, <2>1, <3>1 DEF EndInterest
    <3>8. QED
      BY <3>3, <3>6, <3>7 DEF ClientEdges
  <2>7. QED
    BY <1>10, <2>5, <2>6 DEF OnBackendDrained
<1>11. CASE ForwardBodyRest
  <2>1. /\ Doing("forward_body_rest") /\ "pump_write_end" \notin Calls(todo)
        /\ net' = net /\ batch' = batch /\ queued' = queued /\ (Return \/ todo' = todo)
    BY <1>6, <1>11, NotAboveEnd DEF ForwardBodyRest, envVars, loopVars
  <2>2. \A f \in ClientOwing : f \in Calls(todo) => f \in Calls(todo')
    BY <1>2, <2>1 DEF ClientOwing
  <2>3. Heard("client", c.interest)
    BY <2>1 DEF Heard, HasIn, HasOut
  <2>4. ~Stale
    BY <2>1 DEF Stale, AtHead, Doing
  <2>5. PICK x \in BOOLEAN : /\ (c.readPaused => x)
                             /\ \/ c' = c \/ c' = [c EXCEPT !.state = "Streaming"]
                                \/ c' = [c EXCEPT !.readPaused = x]
    <3>1. (c.readPaused \/ BackedUp(b)) \in BOOLEAN
      OBVIOUS
    <3>2. QED
      BY <1>11, <3>1, Zenon DEF ForwardBodyRest
  <2>6. /\ c'.interest = c.interest /\ c'.out = c.out /\ c'.writeBlock = c.writeBlock
        /\ c'.closed = c.closed /\ c'.handshake = c.handshake /\ c'.eof = c.eof
        /\ c'.readBlock = c.readBlock /\ (c.readPaused => c'.readPaused)
    BY <1>1, <2>5 DEF ClientSet
  <2>7. /\ (Reads' => Reads) /\ (Writes' => Writes) /\ SameNews
        /\ (CrossReads' => CrossReads) /\ (CrossWrites' => CrossWrites)
    BY <2>1, <2>3, <2>6 DEF Reads, Writes, CrossReads, CrossWrites, SameNews
  <2>8. ClientIn' /\ CrossIn' /\ ClientOut' /\ CrossOut'
    BY <2>2, <2>4, <2>7, InKept, OutKept DEF ClientEdges, ClientOwing
  <2>9. "pump_write_end" \notin Calls(todo')
    BY <1>1, <1>2, <2>1, Returns
  <2>10. QED
    BY <2>8, <2>9 DEF ClientEdges, EndInterest
<1>12. QED
  BY <1>7, <1>8, <1>9, <1>10, <1>11

\* A pump returns to what follows it.
LEMMA GoesOn ==
  ASSUME Core, OrderInv, NEW f, Doing(f), f \in Leads, Return
  PROVE  todo' # <<>> /\ Follows(f, Head(todo')) /\ Head(todo') \in Calls(todo')
<1>1. todo \in Seq(Functions) /\ todo # <<>> /\ Head(todo) = f /\ todo' = Tail(todo)
  BY DEF Core, Types, Doing, Return
<1>2. Tail(todo) # <<>> /\ Follows(f, Head(Tail(todo))) /\ Tail(todo) \in Seq(Functions)
  BY <1>1, FollowedTail, Stack DEF OrderInv
<1>3. Head(Tail(todo)) \in Calls(Tail(todo))
  BY <1>2, Stack
<1>4. QED
  BY <1>1, <1>2, <1>3

LEMMA ClientRead ==
  ASSUME Core, OrderInv, ClientEdges, Kept,
         PumpReadStop \/ PumpReadBlock \/ PumpReadEof \/ PumpReadError \/ PumpReadData
  PROVE  ClientEdges'
<1>1. /\ Types /\ c \in ClientSet /\ b \in BackendSet /\ todo \in Seq(Functions)
      /\ net \in [Fds -> SocketSet] /\ net["client"] \in SocketSet /\ net["client"].rcv \in Nat
  BY Sizes DEF Core, Types, Fds, SocketSet
<1>2. Doing("pump_read") /\ batch' = batch /\ queued' = queued
  BY DEF PumpReadStop, PumpReadBlock, PumpReadEof, PumpReadError, PumpReadData, Receiving, loopVars
<1>3. /\ todo # <<>> /\ Deeper(todo) \subseteq Calls(todo)
      /\ \A g \in Calls(todo) : g # "pump_read" => g \in Calls(todo')
  BY <1>1, <1>2, Stack DEF Doing, Kept, AtHead
<1>4. "pump_write_end" \notin Calls(todo) /\ ~Stale
  BY <1>2, NotAboveEnd DEF AboveEnd, Stale, AtHead, Doing
<1>5. \A S, f : f \in S /\ f \in Calls(todo') => Owes(S)'
  BY DEF Owes
<1>6. ASSUME CloseBoth(c, b) PROVE ClientEdges'
  BY <1>1, <1>6, CloseFields, ClientGone
<1>7. ASSUME c'.interest = c.interest, c'.closed = c.closed, c'.out = c.out,
             c'.writeBlock = c.writeBlock, Heard("client", c.interest)
      PROVE  ClientOut' /\ CrossOut'
  <2>1. SameNews /\ (Writes' => Writes) /\ (CrossWrites' => CrossWrites)
    BY <1>2, <1>7 DEF SameNews, Writes, CrossWrites
  <2>2. QED
    BY <1>3, <1>4, <2>1, OutKept DEF ClientEdges
<1>8. CASE PumpReadData
  <2>1. \/ \E m : c' = [c EXCEPT !.idle = FALSE, !.in = m]
        \/ \E m : c' = [[c EXCEPT !.idle = FALSE] EXCEPT !.bodyLeft = m]
        \/ \E m : c' = [[c EXCEPT !.idle = FALSE] EXCEPT !.in = m]
        \/ c' = [c EXCEPT !.idle = FALSE]
    BY <1>8, Zenon DEF PumpReadData, ForwardBody
  <2>2. /\ c'.interest = c.interest /\ c'.closed = c.closed /\ c'.out = c.out
        /\ c'.writeBlock = c.writeBlock
    BY <1>1, <2>1 DEF ClientSet
  <2>3. \E s : net' = [net EXCEPT !["client"] = [net["client"] EXCEPT !.rcv = s]]
    BY <1>8, Zenon DEF PumpReadData
  <2>4. /\ net'["client"].eof = net["client"].eof /\ net'["client"].err = net["client"].err
        /\ net'["client"].up = net["client"].up /\ net'["client"].space = net["client"].space
    BY <1>1, <2>3 DEF Fds, SocketSet
  <2>5. Heard("client", c.interest)
    <3>1. HasOut("client")' = HasOut("client")
      BY <2>4 DEF HasOut
    <3>2. HasIn("client")
      BY <1>8 DEF PumpReadData, HasIn
    <3>3. QED
      BY <3>1, <3>2 DEF Heard
  <2>6. "pump_read" \in Calls(todo') /\ "pump_write_end" \notin Calls(todo')
    <3> DEFINE n == AtMost(net.client.rcv, Chunk)
               cc == [c EXCEPT !.idle = FALSE]
    <3>1. \/ Then(<<"process_head", "pump_read">>) \/ todo' = todo
          \/ ForwardBody(cc, b, n, <<"pump_read">>)
      BY <1>8 DEF PumpReadData
    <3> HIDE DEF cc, n
    <3>2. ForwardBody(cc, b, n, <<"pump_read">>) =>
            \/ Then(<<"flush", "forward_body_rest", "pump_read">>)
            \/ Then(<<"forward_body_rest", "pump_read">>) \/ Then(<<"pump_read">>)
      <4>1. CASE cc.backend
        BY <4>1, ForwardCalls
      <4>2. CASE ~cc.backend
        BY <4>2 DEF ForwardBody
      <4>3. QED
        BY <4>1, <4>2
    <3>3. \A f \in {"process_head", "pump_read", "flush", "forward_body_rest"} :
            f \in Functions /\ f # "pump_write_end"
      BY DEF Functions
    <3>4. "pump_read" \in Calls(todo)
      BY <1>1, <1>2, Stack DEF Doing
    <3>5. QED
      BY <1>1, <1>3, <1>4, <3>1, <3>2, <3>3, <3>4, Then1, Then2, Then3
  <2>7. ClientIn' /\ CrossIn'
    BY <1>5, <2>6 DEF ClientIn, CrossIn
  <2>8. QED
    BY <1>7, <2>2, <2>5, <2>6, <2>7 DEF ClientEdges, EndInterest
<1>9. CASE PumpReadStop \/ PumpReadBlock \/ PumpReadEof \/ PumpReadError
  <2>1. net' = net /\ Return
    BY <1>9 DEF PumpReadStop, PumpReadBlock, PumpReadEof, PumpReadError, envVars
  <2>2. "pump_write_end" \notin Calls(todo')
    BY <1>1, <1>3, <1>4, <2>1, Returns
  <2>3. "drive_write" \in Calls(todo')
    BY <1>2, <2>1, GoesOn DEF Leads, Follows
  <2>4. Heard("client", c.interest)
    BY <2>1 DEF Heard, HasIn, HasOut
  <2>5. CASE c.closed \/ CloseBoth(c, b)
    <3>1. c.closed => c' = c \/ CloseBoth(c, b)
      BY <1>9 DEF PumpReadStop, PumpReadBlock, PumpReadEof, PumpReadError, Receiving
    <3>2. QED
      BY <1>6, <2>5, <3>1, ClientGone
  <2>6. CASE ~c.closed /\ ~CloseBoth(c, b)
    <3>1. \/ c' = [c EXCEPT !.eof = TRUE, !.readBlock = "r"]
          \/ /\ c' = [c EXCEPT !.readBlock = "w"]
             /\ net["client"].space = 0 /\ ~net["client"].err
          \/ c' = [c EXCEPT !.readBlock = "r"] /\ (c.readPaused \/ c.eof)
          \/ c' = [c EXCEPT !.readBlock = "r"] /\ NothingToRead
      BY <1>9, <2>6 DEF PumpReadStop, PumpReadBlock, PumpReadEof, PumpReadError, NothingToRead
    <3>2. /\ c'.interest = c.interest /\ c'.closed = c.closed /\ c'.out = c.out
          /\ c'.writeBlock = c.writeBlock
          /\ Reads' => NothingToRead
          /\ CrossReads' => net["client"].space = 0 /\ ~net["client"].err
      BY <1>1, <3>1 DEF ClientSet, Reads, CrossReads
    <3>3. NothingToRead => ~HasIn("client")'
      BY <1>1, <2>1 DEF NothingToRead, HasIn
    <3>4. CrossReads' => ~HasOut("client")'
      BY <1>1, <2>1, <3>2 DEF HasOut
    <3>5. ClientIn' /\ CrossIn'
      BY <1>5, <2>3, <3>2, <3>3, <3>4 DEF ClientIn, CrossIn
    <3>6. QED
      BY <1>7, <2>2, <2>4, <3>2, <3>5 DEF ClientEdges, EndInterest
  <2>7. QED
    BY <2>5, <2>6
<1>10. QED
  BY <1>8, <1>9

\* The interest is brought up to date, and what it finds ready is queued.
LEMMA ClientRegisters ==
  ASSUME Core, ClientEdges, Kept, RecomputeInterest \/ DeliverRest PROVE ClientEdges'
<1>1. Types /\ c \in ClientSet /\ todo \in Seq(Functions)
  BY DEF Core, Types
<1>2. PICK f \in Updaters : Doing(f)
  BY DEF RecomputeInterest, DeliverRest, Updaters
<1>3. net' = net /\ batch' = batch
  BY DEF RecomputeInterest, DeliverRest, envVars
<1>4. CASE c.closed
  <2>1. c' = c
    BY <1>4 DEF RecomputeInterest, DeliverRest
  <2>2. QED
    BY <1>4, <2>1, ClientGone
<1>5. CASE ~c.closed
  <2>1. PICK x, q :
          /\ x \in BOOLEAN /\ c' = [[c EXCEPT !.backendPaused = x] EXCEPT !.interest = Wanted(c)]
          /\ queued' = Update(q, "client", c.interest, Wanted(c))
          /\ \A y \in queued : y \in q
    <3>1. CASE RecomputeInterest
      <4>1. c' = [c EXCEPT !.interest = Wanted(c)] /\ queued' = Update(queued, "client", c.interest, Wanted(c))
        BY <1>5, <3>1 DEF RecomputeInterest, SetInterest
      <4>2. [c EXCEPT !.backendPaused = c.backendPaused] = c /\ c.backendPaused \in BOOLEAN
        BY <1>1 DEF ClientSet
      <4>3. QED
        BY <4>1, <4>2, Zenon
    <3>2. CASE DeliverRest
      <4> DEFINE pause == c.backend /\ ~c.backendPaused /\ c.out > kBackpressureHigh
                 bb == PauseReads(b)
                 z == c.backendPaused \/ pause
                 cc == [c EXCEPT !.backendPaused = z]
                 p == IF pause /\ ~b.readPaused THEN ApplyInterest(bb, queued) ELSE queued
      <4>1. SetInterest(cc, p, Wanted(cc))
        BY <1>5, <3>2, Zenon DEF DeliverRest
      <4>2. z \in BOOLEAN
        OBVIOUS
      <4>3. \A y \in queued : y \in p
        BY UpdateKeeps DEF ApplyInterest
      <4> HIDE DEF z, p
      <4>4. /\ cc.interest = c.interest /\ cc.readPaused = c.readPaused /\ cc.eof = c.eof
            /\ cc.readBlock = c.readBlock /\ cc.out = c.out /\ cc.writeBlock = c.writeBlock
        BY <1>1, <4>2 DEF ClientSet
      <4>5. c' = [cc EXCEPT !.interest = Wanted(cc)] /\ queued' = Update(p, "client", cc.interest, Wanted(cc))
        BY <4>1 DEF SetInterest
      <4>6. Wanted(cc) = Wanted(c)
        <5> HIDE DEF cc
        <5>1. ReadWants(cc) = ReadWants(c)
          BY <4>4 DEF ReadWants
        <5>2. WriteWants(cc) = WriteWants(c)
          BY <4>4 DEF WriteWants
        <5>3. QED
          BY <5>1, <5>2 DEF Wanted
      <4>7. QED
        BY <4>2, <4>3, <4>4, <4>5, <4>6, Zenon
    <3>3. QED
      BY <3>1, <3>2
  <2> DEFINE w == Wanted(c)
  <2>2. w \in SUBSET {"in", "out"}
    BY DEF Wanted, ReadWants, WriteWants
  <2>3. /\ (Reads => "in" \in w) /\ (Writes => "out" \in w)
        /\ (CrossReads => "out" \in w) /\ (CrossWrites => "in" \in w)
    BY <1>1 DEF Wanted, ReadWants, WriteWants, Reads, Writes, CrossReads, CrossWrites, ClientSet
  <2>4. queued' = Update(q, "client", c.interest, w) /\ c' = [[c EXCEPT !.backendPaused = x] EXCEPT !.interest = w]
    BY <2>1
  <2>5. /\ \A y \in queued : y \in queued'
        /\ w # c.interest /\ "in" \in w /\ HasIn("client") => "client" \in queued'
        /\ w # c.interest /\ "out" \in w /\ HasOut("client") => "client" \in queued'
    BY <2>1, <2>4, UpdateKeeps
  <2> HIDE DEF w
  <2>6. /\ c'.closed = c.closed /\ c'.handshake = c.handshake /\ c'.readPaused = c.readPaused
        /\ c'.eof = c.eof /\ c'.readBlock = c.readBlock
        /\ c'.out = c.out /\ c'.writeBlock = c.writeBlock /\ c'.interest = w
    BY <1>1, <2>2, <2>4 DEF ClientSet
  <2>7. Wanted(c') = w
    <3>1. ReadWants(c') = ReadWants(c)
      BY <2>6 DEF ReadWants
    <3>2. WriteWants(c') = WriteWants(c)
      BY <2>6 DEF WriteWants
    <3>3. QED
      BY <3>1, <3>2 DEF Wanted, w
  <2>8. /\ Reads' = Reads /\ Writes' = Writes
        /\ CrossReads' = CrossReads /\ CrossWrites' = CrossWrites
    BY <2>6 DEF Reads, Writes, CrossReads, CrossWrites
  <2>9. \A g \in Calls(todo) : g \notin Updaters => g \in Calls(todo')
    BY <1>2 DEF Kept, AtHead, Doing
  <2>10. /\ Owes({"drive", "pump_read", "on_error_client"}) => Owes({"drive", "pump_read", "on_error_client"})'
         /\ Owes({"drive", "drive_write", "pump_write", "on_error_client"}) =>
              Owes({"drive", "drive_write", "pump_write", "on_error_client"})'
    BY <2>9 DEF Owes, Updaters
  <2>11. /\ \A e : Seen("client", e) => Seen("client", e)'
         /\ "client" \in queued' => \A e : Seen("client", e)'
    BY <1>3, <2>5 DEF Seen
  <2>12. HasIn("client")' = HasIn("client") /\ HasOut("client")' = HasOut("client")
    BY <1>3 DEF HasIn, HasOut
  <2>13. ClientIn' /\ CrossIn' /\ CrossOut'
    BY <2>3, <2>5, <2>6, <2>8, <2>10, <2>11, <2>12 DEF ClientEdges, ClientIn, CrossIn, CrossOut
  <2>14. w = c.interest => ~Stale
    BY DEF Stale, w
  <2>15. ClientOut'
    BY <2>3, <2>5, <2>6, <2>8, <2>10, <2>11, <2>12, <2>14 DEF ClientEdges, ClientOut
  <2>16. EndInterest'
    BY <2>6, <2>7 DEF EndInterest
  <2>17. QED
    BY <2>13, <2>15, <2>16 DEF ClientEdges
<1>6. QED
  BY <1>4, <1>5

\* The functions that fill out_, and the pump that empties it.
LEMMA ClientWrite ==
  ASSUME Core, OrderInv, ClientEdges, Kept,
         \/ PumpWriteSome \/ PumpWriteBlock \/ PumpWriteError \/ PumpWriteDrained \/ PumpWriteEnd
  PROVE  ClientEdges'
<1>1. /\ Types /\ c \in ClientSet /\ b \in BackendSet /\ todo \in Seq(Functions)
      /\ net \in [Fds -> SocketSet] /\ net["client"] \in SocketSet
      /\ net["client"].rcv \in Nat /\ net["client"].space \in Nat
  BY Sizes DEF Core, Types, Fds, SocketSet
<1>2. PICK f \in {"pump_write", "pump_write_end"} : Doing(f)
  BY DEF PumpWriteSome, PumpWriteBlock, PumpWriteError, PumpWriteDrained, PumpWriteEnd
<1>3. /\ todo # <<>> /\ f \in Leads /\ f \in Calls(todo)
      /\ \A g \in Calls(todo) : g \notin {"pump_write", "pump_write_end"} => g \in Calls(todo')
      /\ ~Stale
  BY <1>1, <1>2, Stack DEF Doing, Kept, AtHead, Leads, Stale
<1>4. \A S, g : g \in S /\ g \in Calls(todo') => Owes(S)'
  BY DEF Owes
<1>5. batch' = batch /\ queued' = queued
  BY DEF PumpWriteSome, PumpWriteBlock, PumpWriteError, PumpWriteDrained, PumpWriteEnd, loopVars
<1>6. ASSUME c'.interest = c.interest, c'.closed = c.closed, c'.handshake = c.handshake,
             c'.readPaused = c.readPaused, c'.eof = c.eof, c'.readBlock = c.readBlock,
             Heard("client", c.interest)
      PROVE  ClientIn' /\ CrossIn'
  <2>1. SameNews /\ (Reads' => Reads) /\ (CrossReads' => CrossReads)
    BY <1>5, <1>6 DEF SameNews, Reads, CrossReads
  <2>2. QED
    BY <1>3, <2>1, InKept DEF ClientEdges
<1>7. ASSUME Return
      PROVE  /\ todo' # <<>> /\ Head(todo') \in Updaters /\ Owes({"recompute_interest", "deliver_rest"})'
             /\ EndInterest'
  <2>1. todo' # <<>> /\ Head(todo') \in Updaters /\ Head(todo') \in Calls(todo')
    BY <1>2, <1>3, <1>7, GoesOn DEF Follows
  <2>2. QED
    BY <1>4, <2>1 DEF Updaters, EndInterest
<1>8. CASE PumpWriteSome
  <2>1. todo' = todo /\ Head(todo) = "pump_write" /\ "pump_write" \in Calls(todo)
    BY <1>1, <1>8, Stack DEF PumpWriteSome, Doing
  <2>2. \E m : c' = [c EXCEPT !.out = m, !.idle = FALSE]
    BY <1>8, Zenon DEF PumpWriteSome
  <2>3. /\ c'.interest = c.interest /\ c'.closed = c.closed /\ c'.handshake = c.handshake
        /\ c'.readPaused = c.readPaused /\ c'.eof = c.eof /\ c'.readBlock = c.readBlock
    BY <1>1, <2>2 DEF ClientSet
  <2>4. \E s : net' = [net EXCEPT !["client"] = [net["client"] EXCEPT !.space = s]]
    BY <1>8, Zenon DEF PumpWriteSome
  <2>5. /\ net'["client"].eof = net["client"].eof /\ net'["client"].err = net["client"].err
        /\ net'["client"].up = net["client"].up /\ net'["client"].rcv = net["client"].rcv
    BY <1>1, <2>4 DEF Fds, SocketSet
  <2>6. Heard("client", c.interest)
    <3>1. HasIn("client")' = HasIn("client")
      BY <2>5 DEF HasIn
    <3>2. HasOut("client")' => HasOut("client")
      <4>1. net["client"].space > 0
        BY <1>8 DEF PumpWriteSome
      <4>2. QED
        BY <2>5, <4>1 DEF HasOut
    <3>3. QED
      BY <3>1, <3>2 DEF Heard
  <2>7. ClientIn' /\ CrossIn'
    BY <1>6, <2>3, <2>6
  <2>8. ClientOut' /\ CrossOut'
    <3>1. Tail(todo) # <<>> /\ Head(Tail(todo)) \in Updaters /\ Tail(todo) \in Seq(Functions)
      BY <1>1, <1>3, <2>1, FollowedTail, Stack DEF OrderInv, Leads, Follows
    <3>2. Head(Tail(todo)) \in Calls(Tail(todo)) /\ Calls(Tail(todo)) = Deeper(todo)
          /\ Deeper(todo) \subseteq Calls(todo)
      BY <1>1, <1>3, <3>1, Stack
    <3>3. Owes({"recompute_interest", "deliver_rest"})'
      BY <1>4, <2>1, <3>1, <3>2 DEF Updaters
    <3>4. QED
      BY <1>4, <2>1, <3>3 DEF ClientOut, CrossOut
  <2>9. EndInterest'
    BY <2>1 DEF EndInterest
  <2>10. QED
    BY <2>7, <2>8, <2>9 DEF ClientEdges
<1>9. CASE PumpWriteBlock
  <2>1. Return /\ net' = net
    BY <1>9 DEF PumpWriteBlock, envVars
  <2>2. \/ c' = [c EXCEPT !.writeBlock = "r"] /\ NothingToRead
        \/ /\ c' = [c EXCEPT !.writeBlock = "w"]
           /\ net["client"].space = 0 /\ ~net["client"].err
    BY <1>9 DEF PumpWriteBlock
  <2>3. /\ c'.interest = c.interest /\ c'.closed = c.closed /\ c'.handshake = c.handshake
        /\ c'.readPaused = c.readPaused /\ c'.eof = c.eof /\ c'.readBlock = c.readBlock
        /\ Writes' => net["client"].space = 0 /\ ~net["client"].err
        /\ CrossWrites' => NothingToRead
    BY <1>1, <2>2 DEF ClientSet, Writes, CrossWrites
  <2>4. Heard("client", c.interest)
    BY <2>1 DEF Heard, HasIn, HasOut
  <2>5. (Writes' => ~HasOut("client")') /\ (CrossWrites' => ~HasIn("client")')
    BY <1>1, <2>1, <2>3 DEF HasOut, HasIn, NothingToRead
  <2>6. ClientOut' /\ CrossOut'
    BY <1>7, <2>1, <2>5 DEF ClientOut, CrossOut
  <2>7. QED
    BY <1>6, <1>7, <2>1, <2>3, <2>4, <2>6 DEF ClientEdges
<1>10. CASE PumpWriteError
  BY <1>1, <1>10, CloseFields, ClientGone DEF PumpWriteError
<1>11. CASE PumpWriteDrained
  <2>1. net' = net /\ c.out = 0 /\ (c' = c \/ c' = [c EXCEPT !.backendPaused = FALSE])
    BY <1>11 DEF PumpWriteDrained, envVars
  <2>2. /\ c'.interest = c.interest /\ c'.closed = c.closed /\ c'.handshake = c.handshake
        /\ c'.readPaused = c.readPaused /\ c'.eof = c.eof /\ c'.readBlock = c.readBlock
        /\ c'.out = 0
    BY <1>1, <2>1 DEF ClientSet
  <2>3. Heard("client", c.interest)
    BY <2>1 DEF Heard, HasIn, HasOut
  <2>4. ClientOut' /\ CrossOut' /\ EndInterest'
    BY <2>2 DEF ClientOut, CrossOut, EndInterest, Writes, CrossWrites
  <2>5. QED
    BY <1>6, <2>2, <2>3, <2>4 DEF ClientEdges
<1>12. CASE PumpWriteEnd
  <2> DEFINE cc == [c EXCEPT !.writeBlock = "ok"]
  <2>1. /\ Return /\ net' = net /\ Head(todo) = "pump_write_end" /\ "pump_write_end" \in Calls(todo)
    BY <1>1, <1>12, Stack DEF PumpWriteEnd, envVars, Doing
  <2>2. CloseBoth(cc, b) \/ c' = [c EXCEPT !.writeBlock = "ok"]
    BY <1>12 DEF PumpWriteEnd
  <2>3. CASE CloseBoth(cc, b)
    <3>1. cc \in ClientSet
      BY <1>1 DEF ClientSet
    <3> HIDE DEF cc
    <3>2. QED
      BY <1>1, <2>3, <3>1, CloseFields, ClientGone
  <2>4. CASE c' = [c EXCEPT !.writeBlock = "ok"]
    <3>1. /\ c'.interest = c.interest /\ c'.closed = c.closed /\ c'.handshake = c.handshake
          /\ c'.readPaused = c.readPaused /\ c'.eof = c.eof /\ c'.readBlock = c.readBlock
          /\ c'.out = c.out /\ c'.writeBlock = "ok"
      BY <1>1, <2>4 DEF ClientSet
    <3>2. HasIn("client")' = HasIn("client") /\ HasOut("client")' = HasOut("client")
      BY <2>1 DEF HasIn, HasOut
    <3>3. Heard("client", c.interest)
      BY <3>2 DEF Heard
    <3>4. ASSUME Writes', "out" \in c'.interest, HasOut("client")'
          PROVE  \/ Seen("client", "out")'
                 \/ Owes({"drive", "drive_write", "pump_write", "on_error_client"})' \/ Stale'
      <4>1. CASE c.writeBlock # "r"
        <5>1. Writes
          BY <3>1, <3>4, <4>1 DEF Writes
        <5>2. Seen("client", "out") \/ Owes({"drive", "drive_write", "pump_write", "on_error_client"})
          BY <1>3, <3>1, <3>2, <3>4, <5>1 DEF ClientEdges, ClientOut
        <5>3. Seen("client", "out") => Seen("client", "out")'
          BY <1>5 DEF Seen
        <5>4. Owes({"drive", "drive_write", "on_error_client", "pump_write"}) =>
                Owes({"drive", "drive_write", "pump_write", "on_error_client"})'
          <6>1. "pump_write" \notin Calls(todo)
            <7>1. "pump_write" \notin Deeper(todo)
              BY DEF Core, Discipline, HeadOnly
            <7>2. QED
              BY <1>1, <1>3, <2>1, <7>1, Stack
          <6>2. QED
            BY <1>3, <6>1 DEF Owes
        <5>5. QED
          BY <5>2, <5>3, <5>4
      <4>2. CASE c.writeBlock = "r"
        <5>1. c.interest = Wanted(c)
          BY <2>1, <3>1, <3>4 DEF ClientEdges, EndInterest, Updaters, Writes
        <5>2. ~(c.out = 0) /\ ~(c'.out = 0)
          BY <3>1, <3>4 DEF Writes
        <5>3. Wanted(c) = ReadWants(c) \cup {"in"} /\ Wanted(c') = ReadWants(c') \cup {"out"}
          BY <3>1, <4>2, <5>2 DEF Wanted, WriteWants
        <5>4. ReadWants(c') = ReadWants(c)
          BY <3>1 DEF ReadWants
        <5>5. ReadWants(c) \in {{}, {"in"}, {"out"}}
          BY DEF ReadWants
        <5>6. "out" \in ReadWants(c)
          BY <3>1, <3>4, <5>1, <5>3
        <5>7. "in" \in c.interest /\ "in" \notin Wanted(c')
          BY <5>1, <5>3, <5>4, <5>5, <5>6
        <5>8. Stale'
          BY <1>7, <2>1, <3>1, <5>7 DEF Stale, AtHead, Updaters
        <5>9. QED
          BY <5>8
      <4>3. QED
        BY <4>1, <4>2
    <3>5. ClientOut' /\ CrossOut'
      BY <1>7, <2>1, <3>1, <3>4 DEF ClientOut, CrossOut, CrossWrites
    <3>6. QED
      BY <1>6, <1>7, <2>1, <3>1, <3>3, <3>5 DEF ClientEdges
  <2>5. QED
    BY <2>2, <2>3, <2>4
<1>13. QED
  BY <1>8, <1>9, <1>10, <1>11, <1>12

LEMMA ClientFills ==
  ASSUME Core, ClientEdges, Kept,
         \/ BackendReadData \/ SendResponse("send_response", ReplyLen) \/ SendResponse("send_head", 1)
  PROVE  ClientEdges'
<1>1. /\ Types /\ c \in ClientSet /\ todo \in Seq(Functions) /\ net \in [Fds -> SocketSet]
  BY DEF Core, Types
<1>2. PICK f \in {"on_readable", "send_response", "send_head"} : Doing(f)
  BY DEF BackendReadData, SendResponse
<1>3. /\ todo # <<>> /\ \A g \in ClientOwing : ~AtHead(g)
      /\ \A g \in Calls(todo) : g \notin {"on_readable", "send_response", "send_head"} => g \in Calls(todo')
  BY <1>2 DEF Doing, Kept, AtHead, ClientOwing
<1>4. \A S, g : g \in S /\ g \in Calls(todo') => Owes(S)'
  BY DEF Owes
<1>5. batch' = batch /\ queued' = queued
  BY DEF BackendReadData, SendResponse, loopVars
<1>6. Heard("client", c.interest)
  <2>1. net' = net \/ \E s : net' = [net EXCEPT !["backend"] = s]
    BY Zenon DEF BackendReadData, SendResponse, envVars
  <2>2. net'["client"] = net["client"]
    BY <1>1, <2>1 DEF Fds
  <2>3. QED
    BY <2>2 DEF Heard, HasIn, HasOut
<1>7. CASE c' = c /\ todo' = todo
  <2>1. SameSides
    BY <1>7 DEF SameSides
  <2>2. QED
    BY <1>5, <1>6, <1>7, <2>1, ClientKept
<1>8. CASE ~(c' = c /\ todo' = todo)
  <2>1. \/ Then(<<"pump_write", "recompute_interest">>)
        \/ Then(<<"pump_write", "deliver_rest", "on_readable">>)
    BY <1>8 DEF BackendReadData, SendResponse, DeliverLoop
  <2>2. \E m : \/ c' = [c EXCEPT !.out = m, !.responded = TRUE, !.relayed = TRUE]
               \/ c' = [c EXCEPT !.out = m, !.responded = TRUE, !.replied = TRUE, !.state = "Closing"]
    BY <1>8, Zenon DEF BackendReadData, SendResponse, Deliver
  <2>3. /\ c'.interest = c.interest /\ c'.closed = c.closed /\ c'.handshake = c.handshake
        /\ c'.readPaused = c.readPaused /\ c'.eof = c.eof /\ c'.readBlock = c.readBlock
    BY <1>1, <2>2 DEF ClientSet
  <2>4. \A g \in {"pump_write", "recompute_interest", "deliver_rest", "on_readable"} : g \in Functions
    BY DEF Functions
  <2>5. /\ Head(todo') = "pump_write" /\ "pump_write" \in Calls(todo')
        /\ "recompute_interest" \in Calls(todo') \/ "deliver_rest" \in Calls(todo')
    BY <1>1, <1>3, <2>1, <2>4, Then2, Then3
  <2>6. SameNews /\ (Reads' => Reads) /\ (CrossReads' => CrossReads)
    BY <1>5, <1>6, <2>3 DEF SameNews, Reads, CrossReads
  <2>7. ClientIn' /\ CrossIn'
    BY <1>3, <2>6, InKept DEF ClientEdges
  <2>8. ClientOut' /\ CrossOut'
    BY <1>4, <2>5 DEF ClientOut, CrossOut
  <2>9. EndInterest'
    BY <2>5 DEF EndInterest
  <2>10. QED
    BY <2>7, <2>8, <2>9 DEF ClientEdges
<1>9. QED
  BY <1>7, <1>8

LEMMA ClientEdgesNext ==
  ASSUME Core, BufferInv, OrderInv, EarlyInv, ClientEdges, [Next]_vars PROVE ClientEdges'
<1>1. Kept
  BY OrderNext
<1>2. CASE Finished \/ UNCHANGED vars
  <2>1. c' = c /\ net' = net /\ batch' = batch /\ queued' = queued /\ todo' = todo
    BY <1>2 DEF Finished, vars, envVars, loopVars
  <2>2. SameSides /\ Heard("client", c.interest)
    BY <2>1 DEF SameSides, Heard, HasIn, HasOut
  <2>3. QED
    BY <1>1, <2>1, <2>2, ClientKept
<1>3. QED
  BY <1>1, <1>2, ClientOther, ClientLoop, ClientDrive, ClientRead, ClientRegisters, ClientWrite, ClientFills
     DEF Next, LoopStep

-----------------------------------------------------------------------------
(* No edge is lost.                                                        *)

EdgeInv == OrderInv /\ FreshInv /\ EarlyInv /\ BackendEdges /\ ClientEdges

LEMMA EdgeInvariant == Spec => [](Core /\ ResponseInv /\ BufferInv /\ EdgeInv)
<1>1. Init => Core /\ ResponseInv /\ BufferInv /\ EdgeInv
  <2>1. Init => FreshInv
    BY DEF Init, FreshSocket, FreshInv
  <2>2. QED
    BY <2>1, CoreInit, ResponseInit, BufferInit, OrderInit, EarlyInit, BackendEdgesInit, ClientEdgesInit
       DEF EdgeInv
<1>2. ASSUME Core /\ ResponseInv /\ BufferInv /\ EdgeInv, [Next]_vars
      PROVE  (Core /\ ResponseInv /\ BufferInv /\ EdgeInv)'
  <2>1. Core' /\ ResponseInv' /\ BufferInv'
    BY <1>2, CoreNext, ResponseNext, BufferNext
  <2>2. OrderInv' /\ FreshInv' /\ EarlyInv' /\ BackendEdges' /\ ClientEdges'
    BY <1>2, OrderNext, FreshNext, EarlyNext, BackendEdgesNext, ClientEdgesNext DEF EdgeInv
  <2>3. QED
    BY <2>1, <2>2 DEF EdgeInv
<1>3. QED
  BY <1>1, <1>2, PTL DEF Spec

(* Edge-triggered epoll reports a readiness once.  Whatever the peers do   *)
(* and however the two handlers call each other, when the loop's thread    *)
(* goes back to epoll_wait, every direction a handler still wants and its  *)
(* socket has is registered and in epoll's ready list, a TLS read that     *)
(* waits for writability and a write that waits for readability included:  *)
(* recompute_interest and apply_interest run after the last read or write  *)
(* that could block.                                                       *)
THEOREM NoEdgeLost == Spec => []EdgesKept
<1>1. ASSUME Core, EdgeInv PROVE EdgesKept
  <2> SUFFICES ASSUME Idle PROVE EdgesKept
    BY DEF EdgesKept
  <2>1. todo = <<>> /\ batch = {} /\ closing = {} /\ (c.alive => ~c.closed)
    BY <1>1 DEF Idle, Core, LifeInv
  <2>2. (\A S : ~Owes(S)) /\ ~Stale /\ \A fd, e : Seen(fd, e) => fd \in queued
    BY <2>1 DEF Owes, Calls, Stale, AtHead, Seen
  <2>3. /\ "in" \in Ready("client") => HasIn("client")
        /\ "out" \in Ready("client") => HasOut("client")
        /\ "in" \in Ready("backend") => HasIn("backend")
        /\ "out" \in Ready("backend") => HasOut("backend")
    BY ReadyEvents
  <2>4. ClientIn /\ CrossIn /\ ClientOut /\ CrossOut /\ BackendIn /\ BackendOut
    BY <1>1 DEF EdgeInv, ClientEdges, BackendEdges
  <2>5. /\ c.alive /\ c.handshake /\ ~c.readPaused /\ ~c.eof /\ c.readBlock = "r"
             /\ "in" \in Ready("client")
           => "client" \in queued /\ "in" \in c.interest
        /\ c.alive /\ c.out > 0 /\ c.writeBlock # "r" /\ "out" \in Ready("client")
           => "client" \in queued /\ "out" \in c.interest
    BY <2>1, <2>2, <2>3, <2>4 DEF ClientIn, ClientOut, Reads, Writes
  <2>6. /\ c.alive /\ c.handshake /\ ~c.readPaused /\ ~c.eof /\ c.readBlock = "w"
             /\ "out" \in Ready("client")
           => "client" \in queued /\ "out" \in c.interest
        /\ c.alive /\ c.out > 0 /\ c.writeBlock = "r" /\ "in" \in Ready("client")
           => "client" \in queued /\ "in" \in c.interest
    BY <2>1, <2>2, <2>3, <2>4 DEF CrossIn, CrossOut, CrossReads, CrossWrites
  <2>7. /\ b.client /\ b.connected /\ ~b.readPaused /\ "in" \in Ready("backend")
           => "backend" \in queued /\ "in" \in b.interest
        /\ b.client /\ (~b.connected \/ b.out > 0) /\ "out" \in Ready("backend")
           => "backend" \in queued /\ "out" \in b.interest
    BY <2>2, <2>3, <2>4 DEF BackendIn, BackendOut
  <2>8. QED
    BY <2>5, <2>6, <2>7 DEF EdgesKept
<1>2. QED
  BY <1>1, EdgeInvariant, PTL
=============================================================================
