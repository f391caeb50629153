--------------------------- MODULE AdmissionProofs ---------------------------
(***************************************************************************)
(* Theorems about Admission, for any number of workers, descriptors and    *)
(* contexts and every cap and backlog.                                     *)
(***************************************************************************)
EXTENDS Admission, FiniteSetTheorems, TLAPS

(* The contexts connections may have been made from: all but the one a     *)
(* reload is building.                                                     *)
Published == 1 .. IF main = "building" THEN made - 1 ELSE made

Wrapping ==
  /\ ctx_ \in Published
  /\ main = "free" => old \in Published
  /\ \A c \in conns : c.ctx \in Published
  /\ \A w \in In({"construct", "add"}) : ssl[w] \in Published
  /\ \A w \in In({"ssl_new"}) : ssl[w] = ctx_

(* The connections between the look at the cap and the count are at most   *)
(* one per worker, and the last to look found a free slot.                 *)
SlotsTaken ==
  MaxConn # 0 =>
    count + Cardinality(In({"wrap", "ssl_new", "construct"})) <= MaxConn + Cardinality(Workers) - 1

Typed ==
  /\ TypeOK /\ IsFiniteSet(conns)
  /\ \A w \in Holding : cfd[w] \in Fds

AdmissionInv == Typed /\ Wrapping /\ SlotsTaken /\ NothingLeaks /\ QueueDrained

Places == {"wait", "accept", "accepted", "wrap", "ssl_new", "construct", "add"}

(* The sets of workers the invariant is about.                             *)
SameWork ==
  /\ Holding' = Holding
  /\ In({"add"})' = In({"add"}) /\ In({"ssl_new"})' = In({"ssl_new"})
  /\ In({"construct", "add"})' = In({"construct", "add"})
  /\ In({"wrap", "ssl_new", "construct"})' = In({"wrap", "ssl_new", "construct"})

-----------------------------------------------------------------------------
(* The workers at a set of places.                                         *)

\* There are finitely many of them, at most one per worker.
LEMMA InFinite ==
  ASSUME NEW P
  PROVE  /\ In(P) \subseteq Workers /\ IsFiniteSet(In(P))
         /\ Cardinality(In(P)) \in Nat /\ Cardinality(In(P)) <= Cardinality(Workers)
         /\ Cardinality(Workers) \in Nat \ {0}
<1>1. In(P) \in SUBSET Workers
  BY DEF In
<1>2. IsFiniteSet(Workers) /\ Workers # {}
  BY ConstantsAssumption
<1>3. QED
  BY <1>1, <1>2, FS_Subset, FS_CardinalityType, FS_EmptySet

\* A worker that goes on enters the places it goes to and leaves the others.
LEMMA Moves ==
  ASSUME TypeOK, NEW w \in Workers, NEW from, NEW to, Goto(w, from, to), NEW P
  PROVE  /\ In(P)' = IF to \in P THEN In(P) \cup {w} ELSE In(P) \ {w}
         /\ w \in In(P) <=> from \in P
         /\ Cardinality(In(P)') = Cardinality(In(P)) + One(to \in P) - One(from \in P)
         /\ Cardinality(In(P)') \in Nat
<1>1. pc[w] = from /\ pc' = [pc EXCEPT ![w] = to] /\ DOMAIN pc = Workers
  BY DEF Goto, TypeOK
<1>2. In(P)' = IF to \in P THEN In(P) \cup {w} ELSE In(P) \ {w}
  BY <1>1 DEF In
<1>3. w \in In(P) <=> from \in P
  BY <1>1 DEF In
<1>4. IsFiniteSet(In(P)) /\ Cardinality(In(P)) \in Nat
  BY InFinite
<1>5. Cardinality(In(P)') \in Nat
  BY <1>2, <1>4, FS_AddElement, FS_RemoveElement, FS_CardinalityType
<1>6. CASE to \in P
  <2>1. Cardinality(In(P) \cup {w}) =
          IF w \in In(P) THEN Cardinality(In(P)) ELSE Cardinality(In(P)) + 1
    BY <1>4, FS_AddElement
  <2>2. QED
    BY <1>2, <1>3, <1>4, <1>5, <1>6, <2>1 DEF One
<1>7. CASE to \notin P
  <2>1. Cardinality(In(P) \ {w}) =
          IF w \in In(P) THEN Cardinality(In(P)) - 1 ELSE Cardinality(In(P))
    BY <1>4, FS_RemoveElement
  <2>2. QED
    BY <1>2, <1>3, <1>4, <1>5, <1>7, <2>1 DEF One
<1>8. QED
  BY <1>6, <1>7

\* Who goes from one of the places to another, or stays outside, changes nothing.
LEMMA Stays ==
  ASSUME TypeOK, NEW w \in Workers, NEW from, NEW to, Goto(w, from, to), NEW P,
         from \in P <=> to \in P
  PROVE  In(P)' = In(P)
  BY DEF In, Goto, TypeOK

\* A step that changes neither connections nor contexts, nor who works on one.
LEMMA Untouched ==
  ASSUME AdmissionInv, SameWork, TypeOK', UNCHANGED <<open, cfd, count, ssl, conns>>,
         UNCHANGED tlsVars, QueueDrained'
  PROVE  AdmissionInv'
<1>1. Typed'
  BY DEF AdmissionInv, Typed, SameWork
<1>2. Wrapping'
  BY DEF AdmissionInv, Wrapping, Published, SameWork, tlsVars
<1>3. SlotsTaken'
  BY DEF AdmissionInv, SlotsTaken, SameWork
<1>4. SocketsOwned' /\ CountAgrees'
  BY DEF AdmissionInv, NothingLeaks, SocketsOwned, CountAgrees, SameWork
<1>5. RefsExact'
  BY DEF AdmissionInv, NothingLeaks, RefsExact, UsedBy, Holders, Own, SameWork, tlsVars
<1>6. QED
  BY <1>1, <1>2, <1>3, <1>4, <1>5 DEF AdmissionInv, NothingLeaks

\* The kernel's arrivals, epoll_wait and the ends of on_readable.
LEMMA KernelStep ==
  ASSUME AdmissionInv, NEW w \in Workers,
         Arrive(w) \/ EpollWait(w) \/ AcceptDrained(w) \/ AcceptFails(w) \/ AcceptAborted(w)
  PROVE  AdmissionInv'
<1>1. TypeOK /\ QueueDrained
  BY DEF AdmissionInv, Typed
<1>2. UNCHANGED <<open, cfd, count, ssl, conns>> /\ UNCHANGED tlsVars
  BY DEF Arrive, EpollWait, AcceptDrained, AcceptFails, AcceptAborted, admitVars
<1>3. pc' = pc \/ Goto(w, "wait", "accept") \/ Goto(w, "accept", "wait")
  BY DEF Arrive, EpollWait, AcceptDrained, AcceptFails, AcceptAborted
<1>4. SameWork
  BY <1>1, <1>3 DEF Goto, SameWork, Holding, In, TypeOK
<1>5. TypeOK' /\ QueueDrained'
  <2>1. CASE Arrive(w)
    BY <1>1, <2>1, ConstantsAssumption DEF Arrive, TypeOK, QueueDrained, tlsVars
  <2>2. CASE EpollWait(w)
    BY <1>1, <2>2 DEF EpollWait, Goto, TypeOK, QueueDrained, tlsVars
  <2>3. CASE AcceptDrained(w)
    BY <1>1, <2>3 DEF AcceptDrained, Goto, TypeOK, QueueDrained, admitVars, tlsVars
  <2>4. CASE AcceptFails(w)
    BY <1>1, <2>4 DEF AcceptFails, Goto, TypeOK, QueueDrained, tlsVars
  <2>5. CASE AcceptAborted(w)
    BY <1>1, <2>5, ConstantsAssumption DEF AcceptAborted, TypeOK, QueueDrained, tlsVars
  <2>6. QED
    BY <2>1, <2>2, <2>3, <2>4, <2>5
<1>6. QED
  BY <1>2, <1>4, <1>5, Untouched
-----------------------------------------------------------------------------
(* The references of a context.                                            *)

\* They can be counted.
LEMMA RefTerms ==
  ASSUME Typed, NEW x
  PROVE  /\ IsFiniteSet(UsedBy(x)) /\ Cardinality(UsedBy(x)) \in Nat
         /\ IsFiniteSet(Holders(x)) /\ Cardinality(Holders(x)) \in Nat
         /\ Own(x) \in Nat
<1>1. UsedBy(x) \in SUBSET conns /\ IsFiniteSet(conns)
  BY DEF UsedBy, Typed
<1>2. Holders(x) \in SUBSET In({"construct", "add"}) /\ IsFiniteSet(In({"construct", "add"}))
  BY InFinite DEF Holders
<1>3. Own(x) \in Nat
  BY DEF Own, One
<1>4. QED
  BY <1>1, <1>2, <1>3, FS_Subset, FS_CardinalityType

\* No connection is made from a context that has not been published.
LEMMA UnpublishedUnused ==
  ASSUME Wrapping, NEW x, x \notin Published
  PROVE  Cardinality(UsedBy(x)) = 0 /\ Cardinality(Holders(x)) = 0 /\ x # ctx_
<1>1. UsedBy(x) = {} /\ Holders(x) = {} /\ x # ctx_
  BY DEF Wrapping, UsedBy, Holders
<1>2. QED
  BY <1>1, FS_EmptySet

\* main's reload: a context is built, dropped, published or released.
LEMMA ReloadStep ==
  ASSUME AdmissionInv, BuildCtx \/ BuildFails \/ Swap \/ FreeOld
  PROVE  AdmissionInv'
<1>1. TypeOK /\ Typed /\ Wrapping /\ RefsExact
  BY DEF AdmissionInv, Typed, NothingLeaks
<1>2. UNCHANGED <<queue, edge, starved, pc, open, cfd, count, ssl, conns>>
  BY DEF BuildCtx, BuildFails, Swap, FreeOld, connVars
<1>3. /\ SlotsTaken' /\ SocketsOwned' /\ CountAgrees' /\ QueueDrained'
      /\ IsFiniteSet(conns)' /\ \A w \in Holding' : cfd'[w] \in Fds
  BY <1>2 DEF AdmissionInv, Typed, SlotsTaken, NothingLeaks, SocketsOwned, CountAgrees,
              QueueDrained, Holding, In
<1>4. /\ \A x : UsedBy(x)' = UsedBy(x) /\ Holders(x)' = Holders(x)
      /\ \A P : In(P)' = In(P)
  BY <1>2 DEF UsedBy, Holders, In
<1>5. \A x \in Contexts : /\ Cardinality(UsedBy(x)) \in Nat /\ Cardinality(Holders(x)) \in Nat
                         /\ refs[x] = Cardinality(UsedBy(x)) + Cardinality(Holders(x)) + Own(x)
  BY <1>1, RefTerms DEF RefsExact
<1>6. \A x : x \notin Published =>
              Cardinality(UsedBy(x)) = 0 /\ Cardinality(Holders(x)) = 0 /\ x # ctx_
  BY <1>1, UnpublishedUnused
<1>7. /\ made \in Contexts /\ ctx_ \in Contexts /\ refs \in [Contexts -> Nat]
      /\ \A x \in Contexts : x \in Nat \ {0} /\ x <= MaxContexts
  BY <1>1, ConstantsAssumption DEF TypeOK, Contexts
<1>8. SUFFICES TypeOK' /\ Wrapping' /\ RefsExact'
  BY <1>3 DEF AdmissionInv, Typed, NothingLeaks
<1>9. CASE BuildCtx
  <2>1. /\ main = "idle" /\ main' = "building" /\ made' = made + 1 /\ made < MaxContexts
        /\ refs' = [refs EXCEPT ![made + 1] = 1] /\ ctx_' = ctx_ /\ old' = old
    BY <1>9 DEF BuildCtx
  <2>2. made + 1 \in Contexts /\ made + 1 \notin Published /\ Published' = Published
    BY <1>7, <2>1, ConstantsAssumption DEF Contexts, Published
  <2>3. TypeOK'
    BY <1>1, <1>2, <2>1, <2>2 DEF TypeOK
  <2>4. Wrapping'
    BY <1>1, <1>2, <1>4, <2>1, <2>2 DEF Wrapping
  <2>5. RefsExact'
    <3>1. SUFFICES ASSUME NEW x \in Contexts
                   PROVE  refs'[x] = Cardinality(UsedBy(x)) + Cardinality(Holders(x)) + Own(x)'
      BY <1>4 DEF RefsExact
    <3>2. CASE x = made + 1
      BY <1>5, <1>6, <1>7, <2>1, <2>2, <3>2 DEF Own, One
    <3>3. CASE x # made + 1
      BY <1>5, <1>7, <2>1, <3>3 DEF Own, One
    <3>4. QED
      BY <3>2, <3>3
  <2>6. QED
    BY <2>3, <2>4, <2>5
<1>10. CASE BuildFails
  <2>1. /\ main = "building" /\ main' = "idle" /\ made' = made
        /\ refs' = [refs EXCEPT ![made] = 0] /\ ctx_' = ctx_ /\ old' = old
    BY <1>10 DEF BuildFails
  <2>2. made \notin Published /\ Published \subseteq Published'
    BY <1>7, <2>1 DEF Published
  <2>3. TypeOK'
    BY <1>1, <1>2, <2>1 DEF TypeOK
  <2>4. Wrapping'
    BY <1>1, <1>2, <1>4, <2>1, <2>2 DEF Wrapping
  <2>5. RefsExact'
    <3>1. SUFFICES ASSUME NEW x \in Contexts
                   PROVE  refs'[x] = Cardinality(UsedBy(x)) + Cardinality(Holders(x)) + Own(x)'
      BY <1>4 DEF RefsExact
    <3>2. CASE x = made
      BY <1>5, <1>6, <1>7, <2>1, <2>2, <3>2 DEF Own, One
    <3>3. CASE x # made
      BY <1>5, <1>7, <2>1, <3>3 DEF Own, One
    <3>4. QED
      BY <3>2, <3>3
  <2>6. QED
    BY <2>3, <2>4, <2>5
<1>11. CASE Swap
  <2>1. /\ main = "building" /\ main' = "free" /\ made' = made
        /\ refs' = refs /\ ctx_' = made /\ old' = ctx_ /\ In({"ssl_new"}) = {}
    BY <1>11 DEF Swap, In
  <2>2. made \in Published' /\ Published \subseteq Published'
    BY <1>7, <2>1 DEF Published
  <2>3. TypeOK'
    BY <1>1, <1>2, <2>1 DEF TypeOK
  <2>4. Wrapping'
    BY <1>1, <1>2, <1>4, <2>1, <2>2 DEF Wrapping
  <2>5. RefsExact'
    <3>1. SUFFICES ASSUME NEW x \in Contexts
                   PROVE  refs'[x] = Cardinality(UsedBy(x)) + Cardinality(Holders(x)) + Own(x)'
      BY <1>4 DEF RefsExact
    <3>2. Own(x)' = Own(x)
      BY <2>1 DEF Own, One
    <3>3. QED
      BY <1>5, <2>1, <3>2
  <2>6. QED
    BY <2>3, <2>4, <2>5
<1>12. CASE FreeOld
  <2>1. /\ main = "free" /\ main' = "idle" /\ made' = made
        /\ refs' = [refs EXCEPT ![old] = @ - 1] /\ ctx_' = ctx_ /\ old' = NoContext
    BY <1>12 DEF FreeOld
  <2>2. old \in Contexts /\ Published' = Published
    <3>1. Published = 1..made /\ Published' = 1..made
      BY <2>1 DEF Published
    <3>2. old \in 1..made /\ made \in 1..MaxContexts
      BY <1>1, <1>7, <2>1, <3>1 DEF Wrapping, Contexts
    <3>3. QED
      BY <3>1, <3>2, ConstantsAssumption DEF Contexts
  <2>3. \A x \in Contexts : refs'[x] = Cardinality(UsedBy(x)) + Cardinality(Holders(x)) + Own(x)'
    <3>1. SUFFICES ASSUME NEW x \in Contexts
                   PROVE  refs'[x] = Cardinality(UsedBy(x)) + Cardinality(Holders(x)) + Own(x)'
      OBVIOUS
    <3>2. CASE x = old
      BY <1>5, <1>7, <2>1, <2>2, <3>2 DEF Own, One
    <3>3. CASE x # old
      BY <1>5, <1>7, <2>1, <3>3 DEF Own, One
    <3>4. QED
      BY <3>2, <3>3
  <2>4. refs' \in [Contexts -> Nat]
    <3>1. \A x \in Contexts : refs'[x] \in Nat
      BY <1>5, <2>3 DEF Own, One
    <3>2. QED
      BY <1>7, <2>1, <3>1
  <2>5. TypeOK'
    BY <1>1, <1>2, <2>1, <2>4 DEF TypeOK
  <2>6. Wrapping'
    BY <1>1, <1>2, <1>4, <2>1, <2>2 DEF Wrapping
  <2>7. QED
    BY <1>4, <2>3, <2>5, <2>6 DEF RefsExact
<1>13. QED
  BY <1>9, <1>10, <1>11, <1>12
-----------------------------------------------------------------------------
(* on_readable, one socket at a time.                                      *)

\* A worker that goes on inside on_readable leaves nobody asleep.
LEMMA StillAwake ==
  ASSUME TypeOK, QueueDrained, NEW w \in Workers, NEW from, NEW to, to # "wait",
         Goto(w, from, to), edge' = edge, starved' = starved,
         \A v \in Workers \ {w} : queue'[v] = queue[v]
  PROVE  QueueDrained'
  BY DEF QueueDrained, Goto, TypeOK

\* Closing the accepted socket takes away its one owner.
LEMMA SocketClosed ==
  ASSUME Typed, SocketsOwned, NEW w \in Workers,
         NEW from \in {"accepted", "wrap", "ssl_new", "construct", "add"},
         CloseAndContinue(w, from)
  PROVE  /\ SocketsOwned' /\ Holding' = Holding \ {w}
         /\ open' \subseteq Fds /\ cfd' \in [Workers -> Fds \cup {NoFd}]
         /\ pc' \in [Workers -> Places]
         /\ \A v \in Holding' : cfd'[v] \in Fds
<1>1. /\ Goto(w, from, "accept") /\ open' = open \ {cfd[w]}
      /\ cfd' = [cfd EXCEPT ![w] = NoFd] /\ conns' = conns
  BY DEF CloseAndContinue
<1>2. TypeOK /\ cfd \in [Workers -> Fds \cup {NoFd}] /\ open \subseteq Fds
  BY DEF Typed, TypeOK
<1>3. Holding' = Holding \ {w} /\ w \in Holding
  BY <1>1, <1>2, Moves DEF Holding
<1>4. \A v \in Holding' : v \in Holding /\ v \in Workers /\ v # w /\ cfd'[v] = cfd[v]
  BY <1>1, <1>2, <1>3 DEF Holding, In
<1>5. {cfd'[v] : v \in Holding'} = {cfd[v] : v \in Holding} \ {cfd[w]}
  BY <1>3, <1>4 DEF SocketsOwned
<1>6. SocketsOwned'
  BY <1>1, <1>3, <1>4, <1>5 DEF SocketsOwned
<1>7. pc' \in [Workers -> Places]
  BY <1>1, <1>2 DEF Goto, TypeOK, Places
<1>8. QED
  BY <1>1, <1>2, <1>3, <1>4, <1>6, <1>7 DEF Typed

\* Steps of a worker that holds a socket and leaves the contexts' owners alone.
LEMMA OwnKept ==
  ASSUME UNCHANGED <<ctx_, made, main, old>>
  PROVE  Published' = Published /\ \A x : Own(x)' = Own(x)
  BY DEF Published, Own

\* accept4 returns a descriptor nobody owns.
LEMMA AcceptStep ==
  ASSUME AdmissionInv, NEW w \in Workers, Accept(w)
  PROVE  AdmissionInv'
<1>1. TypeOK /\ Typed /\ Wrapping /\ QueueDrained /\ SlotsTaken /\ SocketsOwned /\ CountAgrees /\ RefsExact
  BY DEF AdmissionInv, Typed, NothingLeaks
<1>2. PICK fd \in Fds \ open :
        /\ queue[w] > 0 /\ Goto(w, "accept", "accepted")
        /\ queue' = [queue EXCEPT ![w] = @ - 1]
        /\ open' = open \cup {fd} /\ cfd' = [cfd EXCEPT ![w] = fd]
        /\ UNCHANGED <<edge, starved, count, ssl, conns>> /\ UNCHANGED tlsVars
  BY DEF Accept
<1>3. /\ Holding' = Holding \cup {w} /\ w \notin Holding
      /\ In({"add"})' = In({"add"}) /\ In({"ssl_new"})' = In({"ssl_new"})
      /\ In({"construct", "add"})' = In({"construct", "add"})
      /\ In({"wrap", "ssl_new", "construct"})' = In({"wrap", "ssl_new", "construct"})
  <2>1. Holding' = Holding \cup {w} /\ w \notin Holding
    BY <1>1, <1>2, Moves DEF Holding
  <2>2. In({"add"})' = In({"add"}) /\ In({"ssl_new"})' = In({"ssl_new"})
    BY <1>1, <1>2, Stays
  <2>3. In({"construct", "add"})' = In({"construct", "add"})
    BY <1>1, <1>2, Stays
  <2>4. In({"wrap", "ssl_new", "construct"})' = In({"wrap", "ssl_new", "construct"})
    BY <1>1, <1>2, Stays
  <2>5. QED
    BY <2>1, <2>2, <2>3, <2>4
<1>4. TypeOK'
  BY <1>1, <1>2, ConstantsAssumption DEF TypeOK, Goto, tlsVars
<1>5. QueueDrained'
  BY <1>1, <1>2, StillAwake DEF TypeOK
<1>6. cfd'[w] = fd /\ \A v \in Holding : v # w /\ cfd'[v] = cfd[v]
  BY <1>1, <1>2, <1>3 DEF TypeOK, Holding, In
<1>7. Typed'
  BY <1>1, <1>2, <1>3, <1>4, <1>6 DEF Typed
<1>8. {cfd'[v] : v \in Holding'} = {cfd[v] : v \in Holding} \cup {fd}
  BY <1>3, <1>6
<1>9. (\A c \in conns : c.fd # fd) /\ (\A v \in Holding : cfd[v] # fd)
  BY <1>1, <1>2 DEF SocketsOwned
<1>10. SocketsOwned'
  BY <1>1, <1>2, <1>3, <1>6, <1>8, <1>9 DEF SocketsOwned
<1>11. Wrapping'
  BY <1>1, <1>2, <1>3, OwnKept DEF Wrapping, tlsVars
<1>12. SlotsTaken' /\ CountAgrees'
  BY <1>1, <1>2, <1>3 DEF SlotsTaken, CountAgrees
<1>13. RefsExact'
  BY <1>1, <1>2, <1>3 DEF RefsExact, UsedBy, Holders, Own, tlsVars
<1>14. QED
  BY <1>5, <1>7, <1>10, <1>11, <1>12, <1>13 DEF AdmissionInv, NothingLeaks

\* A connection is dropped by the limiter, by the cap or by a failed SSL_new.
LEMMA DropStep ==
  ASSUME AdmissionInv, NEW w \in Workers, DropLimited(w) \/ DropOverCap(w) \/ WrapFails(w)
  PROVE  AdmissionInv'
<1>1. TypeOK /\ Typed /\ Wrapping /\ QueueDrained /\ SlotsTaken /\ SocketsOwned /\ CountAgrees /\ RefsExact
  BY DEF AdmissionInv, Typed, NothingLeaks
<1>2. PICK from \in {"accepted", "ssl_new"} : CloseAndContinue(w, from)
  BY DEF DropLimited, DropOverCap, WrapFails
<1>3. /\ Goto(w, from, "accept") /\ conns' = conns /\ count' = count
      /\ UNCHANGED <<queue, edge, starved>> /\ UNCHANGED <<refs, ctx_, made, main, old>>
      /\ ssl' = ssl \/ ssl' = [ssl EXCEPT ![w] = NoContext]
  BY <1>2 DEF DropLimited, DropOverCap, WrapFails, CloseAndContinue, admitVars, tlsVars
<1>4. In({"add"})' = In({"add"}) /\ In({"construct", "add"})' = In({"construct", "add"})
  BY <1>1, <1>3, Stays
<1>5. In({"ssl_new"})' = In({"ssl_new"}) \ {w} /\ w \notin In({"construct", "add"})
  BY <1>1, <1>3, Moves
<1>6. /\ Cardinality(In({"wrap", "ssl_new", "construct"})') <= Cardinality(In({"wrap", "ssl_new", "construct"}))
      /\ Cardinality(In({"wrap", "ssl_new", "construct"})') \in Nat
      /\ Cardinality(In({"wrap", "ssl_new", "construct"})) \in Nat
      /\ Cardinality(Workers) \in Nat
  BY <1>1, <1>3, Moves, InFinite DEF One
<1>7. \A v \in Workers \ {w} : ssl'[v] = ssl[v]
  BY <1>1, <1>3 DEF TypeOK
<1>8. ssl' \in [Workers -> Contexts \cup {NoContext}]
  BY <1>1, <1>3 DEF TypeOK
<1>9. Typed' /\ SocketsOwned'
  BY <1>1, <1>2, <1>3, <1>8, SocketClosed DEF Typed, TypeOK, Places
<1>10. QueueDrained'
  BY <1>1, <1>3, StillAwake
<1>11. Wrapping'
  BY <1>1, <1>3, <1>4, <1>5, <1>7, OwnKept DEF Wrapping, In
<1>12. SlotsTaken' /\ CountAgrees'
  <2>1. SlotsTaken'
    BY <1>1, <1>3, <1>6, ConstantsAssumption DEF SlotsTaken, TypeOK
  <2>2. CountAgrees'
    BY <1>1, <1>3, <1>4 DEF CountAgrees
  <2>3. QED
    BY <2>1, <2>2
<1>13. \A x : UsedBy(x)' = UsedBy(x) /\ Holders(x)' = Holders(x)
  BY <1>3, <1>4, <1>5, <1>7 DEF UsedBy, Holders, In
<1>14. RefsExact'
  BY <1>1, <1>3, <1>13, OwnKept DEF RefsExact
<1>15. QED
  BY <1>9, <1>10, <1>11, <1>12, <1>14 DEF AdmissionInv, NothingLeaks

\* The cap is passed: this worker found a free slot, and the others hold at
\* most one each.
LEMMA PassCapStep ==
  ASSUME AdmissionInv, NEW w \in Workers, PassCap(w)
  PROVE  AdmissionInv'
<1>1. TypeOK /\ Typed /\ Wrapping /\ QueueDrained /\ SlotsTaken /\ SocketsOwned /\ CountAgrees /\ RefsExact
  BY DEF AdmissionInv, Typed, NothingLeaks
<1>2. /\ ConnSlotAvailable /\ Goto(w, "accepted", "wrap")
      /\ UNCHANGED <<open, cfd, count, ssl, conns>> /\ UNCHANGED <<queue, edge, starved>>
      /\ UNCHANGED <<refs, ctx_, made, main, old>>
  BY DEF PassCap, admitVars, tlsVars
<1>3. Holding' = Holding
  BY <1>1, <1>2, Stays DEF Holding
<1>4. In({"add"})' = In({"add"}) /\ In({"ssl_new"})' = In({"ssl_new"})
  BY <1>1, <1>2, Stays
<1>5. In({"construct", "add"})' = In({"construct", "add"})
  BY <1>1, <1>2, Stays
<1>6. TypeOK'
  BY <1>1, <1>2 DEF TypeOK, Goto
<1>7. Typed' /\ SocketsOwned' /\ CountAgrees'
  BY <1>1, <1>2, <1>3, <1>4, <1>6 DEF Typed, SocketsOwned, CountAgrees
<1>8. QueueDrained'
  BY <1>1, <1>2, StillAwake
<1>9. Wrapping'
  BY <1>1, <1>2, <1>4, <1>5, OwnKept DEF Wrapping
<1>10. RefsExact'
  BY <1>1, <1>2, <1>5, OwnKept DEF RefsExact, UsedBy, Holders
<1>11. SlotsTaken'
  <2>1. SUFFICES ASSUME MaxConn # 0
                 PROVE  count + Cardinality(In({"wrap", "ssl_new", "construct"})')
                          <= MaxConn + Cardinality(Workers) - 1
    BY <1>2 DEF SlotsTaken
  <2>2. count < MaxConn /\ count \in Nat /\ MaxConn \in Nat
    BY <1>1, <1>2, <2>1, ConstantsAssumption DEF ConnSlotAvailable, TypeOK
  <2>3. In({"wrap", "ssl_new", "construct"})' \in SUBSET Workers /\ IsFiniteSet(Workers)
    BY ConstantsAssumption DEF In
  <2>4. /\ Cardinality(In({"wrap", "ssl_new", "construct"})') <= Cardinality(Workers)
        /\ Cardinality(In({"wrap", "ssl_new", "construct"})') \in Nat
        /\ Cardinality(Workers) \in Nat
    BY <2>3, FS_Subset, FS_CardinalityType
  <2>5. QED
    BY <2>2, <2>4
<1>12. QED
  BY <1>7, <1>8, <1>9, <1>10, <1>11 DEF AdmissionInv, NothingLeaks

\* wrap reads ctx_ under the shared lock.
LEMMA WrapLockStep ==
  ASSUME AdmissionInv, NEW w \in Workers, WrapLock(w)
  PROVE  AdmissionInv'
<1>1. TypeOK /\ Typed /\ Wrapping /\ QueueDrained /\ SlotsTaken /\ SocketsOwned /\ CountAgrees /\ RefsExact
  BY DEF AdmissionInv, Typed, NothingLeaks
<1>2. /\ Goto(w, "wrap", "ssl_new") /\ ssl' = [ssl EXCEPT ![w] = ctx_]
      /\ UNCHANGED <<open, cfd, count, conns>> /\ UNCHANGED <<queue, edge, starved>>
      /\ UNCHANGED <<refs, ctx_, made, main, old>>
  BY DEF WrapLock, admitVars, tlsVars
<1>3. Holding' = Holding
  BY <1>1, <1>2, Stays DEF Holding
<1>4. In({"add"})' = In({"add"}) /\ In({"construct", "add"})' = In({"construct", "add"})
  BY <1>1, <1>2, Stays
<1>5. In({"wrap", "ssl_new", "construct"})' = In({"wrap", "ssl_new", "construct"})
  BY <1>1, <1>2, Stays
<1>6. In({"ssl_new"})' = In({"ssl_new"}) \cup {w} /\ w \notin In({"construct", "add"})
  BY <1>1, <1>2, Moves
<1>7. ssl'[w] = ctx_ /\ \A v \in Workers \ {w} : ssl'[v] = ssl[v]
  BY <1>1, <1>2 DEF TypeOK
<1>8. TypeOK'
  BY <1>1, <1>2 DEF TypeOK, Goto
<1>9. Typed' /\ SocketsOwned' /\ CountAgrees' /\ SlotsTaken'
  BY <1>1, <1>2, <1>3, <1>4, <1>5, <1>8 DEF Typed, SocketsOwned, CountAgrees, SlotsTaken
<1>10. QueueDrained'
  BY <1>1, <1>2, StillAwake
<1>11. Wrapping'
  BY <1>1, <1>2, <1>4, <1>6, <1>7, OwnKept DEF Wrapping, In
<1>12. \A x : UsedBy(x)' = UsedBy(x) /\ Holders(x)' = Holders(x)
  BY <1>2, <1>4, <1>6, <1>7 DEF UsedBy, Holders, In
<1>13. RefsExact'
  BY <1>1, <1>2, <1>12, OwnKept DEF RefsExact
<1>14. QED
  BY <1>9, <1>10, <1>11, <1>13 DEF AdmissionInv, NothingLeaks

\* SSL_new takes a reference of the context it was given, which is ctx_ still.
LEMMA WrappedStep ==
  ASSUME AdmissionInv, NEW w \in Workers, Wrapped(w)
  PROVE  AdmissionInv'
<1>1. TypeOK /\ Typed /\ Wrapping /\ QueueDrained /\ SlotsTaken /\ SocketsOwned /\ CountAgrees /\ RefsExact
  BY DEF AdmissionInv, Typed, NothingLeaks
<1>2. /\ Goto(w, "ssl_new", "construct") /\ refs' = [refs EXCEPT ![ssl[w]] = @ + 1]
      /\ UNCHANGED <<open, cfd, count, ssl, conns>> /\ UNCHANGED <<queue, edge, starved>>
      /\ UNCHANGED <<ctx_, made, main, old>>
  BY DEF Wrapped, admitVars
<1>3. Holding' = Holding
  BY <1>1, <1>2, Stays DEF Holding
<1>4. In({"add"})' = In({"add"})
  BY <1>1, <1>2, Stays
<1>5. In({"wrap", "ssl_new", "construct"})' = In({"wrap", "ssl_new", "construct"})
  BY <1>1, <1>2, Stays
<1>6. /\ In({"ssl_new"})' = In({"ssl_new"}) \ {w} /\ w \in In({"ssl_new"})
      /\ In({"construct", "add"})' = In({"construct", "add"}) \cup {w}
      /\ w \notin In({"construct", "add"})
  BY <1>1, <1>2, Moves
<1>7. ssl[w] = ctx_ /\ ctx_ \in Contexts /\ ctx_ \in Published
  BY <1>1, <1>6 DEF Wrapping, TypeOK
<1>8. TypeOK'
  BY <1>1, <1>2, <1>7 DEF TypeOK, Goto
<1>9. Typed' /\ SocketsOwned' /\ CountAgrees' /\ SlotsTaken'
  BY <1>1, <1>2, <1>3, <1>4, <1>5, <1>8 DEF Typed, SocketsOwned, CountAgrees, SlotsTaken
<1>10. QueueDrained'
  BY <1>1, <1>2, StillAwake
<1>11. Wrapping'
  BY <1>1, <1>2, <1>6, <1>7, OwnKept DEF Wrapping
<1>12. RefsExact'
  <2>1. SUFFICES ASSUME NEW x \in Contexts
                 PROVE  refs'[x] = Cardinality(UsedBy(x)) + Cardinality(Holders(x)') + Own(x)
    BY <1>2, OwnKept DEF RefsExact, UsedBy
  <2>2. /\ Cardinality(UsedBy(x)) \in Nat /\ IsFiniteSet(Holders(x))
        /\ Cardinality(Holders(x)) \in Nat /\ Own(x) \in Nat
        /\ refs[x] = Cardinality(UsedBy(x)) + Cardinality(Holders(x)) + Own(x)
    BY <1>1, RefTerms DEF RefsExact
  <2>3. CASE x = ssl[w]
    <3>1. Holders(x)' = Holders(x) \cup {w} /\ w \notin Holders(x)
      BY <1>2, <1>6, <2>3 DEF Holders
    <3>2. Cardinality(Holders(x)') = Cardinality(Holders(x)) + 1
      BY <2>2, <3>1, FS_AddElement
    <3>3. refs'[x] = refs[x] + 1
      BY <1>1, <1>2, <2>3 DEF TypeOK
    <3>4. QED
      BY <2>2, <3>2, <3>3
  <2>4. CASE x # ssl[w]
    <3>1. Holders(x)' = Holders(x) /\ refs'[x] = refs[x]
      BY <1>1, <1>2, <1>6, <2>4 DEF Holders, TypeOK
    <3>2. QED
      BY <2>2, <3>1
  <2>5. QED
    BY <2>3, <2>4
<1>13. QED
  BY <1>9, <1>10, <1>11, <1>12 DEF AdmissionInv, NothingLeaks

\* The constructor turns the slot that was found free into a counted one.
LEMMA ConstructStep ==
  ASSUME AdmissionInv, NEW w \in Workers, Construct(w)
  PROVE  AdmissionInv'
<1>1. TypeOK /\ Typed /\ Wrapping /\ QueueDrained /\ SlotsTaken /\ SocketsOwned /\ CountAgrees /\ RefsExact
  BY DEF AdmissionInv, Typed, NothingLeaks
<1>2. /\ Goto(w, "construct", "add") /\ count' = count + 1
      /\ UNCHANGED <<open, cfd, ssl, conns>> /\ UNCHANGED <<queue, edge, starved>>
      /\ UNCHANGED <<refs, ctx_, made, main, old>>
  BY DEF Construct, admitVars, tlsVars
<1>3. Holding' = Holding
  BY <1>1, <1>2, Stays DEF Holding
<1>4. In({"ssl_new"})' = In({"ssl_new"}) /\ In({"construct", "add"})' = In({"construct", "add"})
  BY <1>1, <1>2, Stays
<1>5. /\ Cardinality(In({"wrap", "ssl_new", "construct"})') =
            Cardinality(In({"wrap", "ssl_new", "construct"})) - 1
      /\ Cardinality(In({"wrap", "ssl_new", "construct"})) \in Nat
      /\ Cardinality(Workers) \in Nat
  BY <1>1, <1>2, Moves, InFinite DEF One
<1>6. /\ Cardinality(In({"add"})') = Cardinality(In({"add"})) + 1
      /\ Cardinality(In({"add"})) \in Nat
  BY <1>1, <1>2, Moves, InFinite DEF One
<1>7. TypeOK'
  BY <1>1, <1>2 DEF TypeOK, Goto
<1>8. Typed' /\ SocketsOwned'
  BY <1>1, <1>2, <1>3, <1>7 DEF Typed, SocketsOwned
<1>9. CountAgrees'
  <2>1. Cardinality(conns) \in Nat
    BY <1>1, FS_CardinalityType DEF Typed
  <2>2. QED
    BY <1>1, <1>2, <1>6, <2>1 DEF CountAgrees
<1>10. SlotsTaken'
  BY <1>1, <1>2, <1>5, ConstantsAssumption DEF SlotsTaken, TypeOK
<1>11. QueueDrained'
  BY <1>1, <1>2, StillAwake
<1>12. Wrapping'
  BY <1>1, <1>2, <1>4, OwnKept DEF Wrapping
<1>13. RefsExact'
  BY <1>1, <1>2, <1>4, OwnKept DEF RefsExact, UsedBy, Holders
<1>14. QED
  BY <1>8, <1>9, <1>10, <1>11, <1>12, <1>13 DEF AdmissionInv, NothingLeaks

\* EventLoop::add hands the socket and the SSL over to a connection.
LEMMA AddStep ==
  ASSUME AdmissionInv, NEW w \in Workers, Add(w)
  PROVE  AdmissionInv'
<1>1. TypeOK /\ Typed /\ Wrapping /\ QueueDrained /\ SlotsTaken /\ SocketsOwned /\ CountAgrees /\ RefsExact
  BY DEF AdmissionInv, Typed, NothingLeaks
<1> DEFINE c == [loop |-> w, fd |-> cfd[w], ctx |-> ssl[w]]
<1>2. /\ Goto(w, "add", "accept") /\ conns' = conns \cup {c}
      /\ ssl' = [ssl EXCEPT ![w] = NoContext] /\ cfd' = [cfd EXCEPT ![w] = NoFd]
      /\ UNCHANGED <<open, count>> /\ UNCHANGED <<queue, edge, starved>>
      /\ UNCHANGED <<refs, ctx_, made, main, old>>
  BY DEF Add, admitVars, tlsVars
<1>3. Holding' = Holding \ {w} /\ w \in Holding
  BY <1>1, <1>2, Moves DEF Holding
<1>4. /\ In({"construct", "add"})' = In({"construct", "add"}) \ {w}
      /\ w \in In({"construct", "add"})
  BY <1>1, <1>2, Moves
<1>5. In({"ssl_new"})' = In({"ssl_new"}) /\ w \notin In({"ssl_new"})
  BY <1>1, <1>2, Moves, Stays
<1>6. In({"wrap", "ssl_new", "construct"})' = In({"wrap", "ssl_new", "construct"})
  BY <1>1, <1>2, Stays
<1>7. /\ Cardinality(In({"add"})') = Cardinality(In({"add"})) - 1
      /\ Cardinality(In({"add"})) \in Nat
  BY <1>1, <1>2, Moves, InFinite DEF One
<1>8. /\ ssl[w] \in Published /\ ssl[w] \in Contexts /\ cfd[w] \in Fds
      /\ \A d \in conns : d.fd # cfd[w]
  <2>1. ssl[w] \in Published /\ cfd[w] \in Fds /\ \A d \in conns : d.fd # cfd[w]
    BY <1>1, <1>3, <1>4 DEF Wrapping, Typed, SocketsOwned
  <2>2. ssl[w] # NoContext
    BY <1>1, <2>1 DEF Published, NoContext, TypeOK, Contexts
  <2>3. QED
    BY <1>1, <2>1, <2>2 DEF TypeOK
<1>9. c \in [loop : Workers, fd : Fds, ctx : Contexts] /\ c \notin conns
  BY <1>8
<1>10. c.fd = cfd[w] /\ c.ctx = ssl[w]
  OBVIOUS
<1>11. /\ \A v \in Workers \ {w} : ssl'[v] = ssl[v] /\ cfd'[v] = cfd[v]
       /\ \A v \in Holding' : v \in Holding /\ v \in Workers \ {w}
  BY <1>1, <1>2, <1>3 DEF TypeOK, Holding, In
<1> HIDE DEF c
<1>12. TypeOK'
  BY <1>1, <1>2, <1>9 DEF TypeOK, Goto
<1>13. /\ IsFiniteSet(conns') /\ Cardinality(conns') = Cardinality(conns) + 1
       /\ Cardinality(conns) \in Nat
  BY <1>1, <1>2, <1>9, FS_AddElement, FS_CardinalityType DEF Typed
<1>14. Typed'
  BY <1>1, <1>11, <1>12, <1>13 DEF Typed
<1>15. SocketsOwned'
  <2>1. {cfd'[v] : v \in Holding'} \cup {cfd[w]} = {cfd[v] : v \in Holding}
    BY <1>3, <1>11
  <2>2. {d.fd : d \in conns'} = {d.fd : d \in conns} \cup {cfd[w]}
    BY <1>2, <1>10
  <2>3. open' = {d.fd : d \in conns'} \cup {cfd'[v] : v \in Holding'}
    BY <1>1, <1>2, <2>1, <2>2 DEF SocketsOwned
  <2>4. \A d, e \in conns' : d.fd = e.fd => d = e
    BY <1>1, <1>2, <1>8, <1>10 DEF SocketsOwned
  <2>5. \A u, v \in Holding' : cfd'[u] = cfd'[v] => u = v
    BY <1>1, <1>11 DEF SocketsOwned
  <2>6. \A d \in conns', v \in Holding' : d.fd # cfd'[v]
    BY <1>1, <1>2, <1>3, <1>10, <1>11 DEF SocketsOwned
  <2>7. QED
    BY <2>3, <2>4, <2>5, <2>6 DEF SocketsOwned
<1>16. CountAgrees' /\ SlotsTaken'
  BY <1>1, <1>2, <1>6, <1>7, <1>13 DEF CountAgrees, SlotsTaken
<1>17. QueueDrained'
  BY <1>1, <1>2, StillAwake
<1>18. Wrapping'
  BY <1>1, <1>2, <1>4, <1>5, <1>8, <1>10, <1>11, OwnKept DEF Wrapping, In
<1>19. RefsExact'
  <2>1. SUFFICES ASSUME NEW x \in Contexts
                 PROVE  refs[x] = Cardinality(UsedBy(x)') + Cardinality(Holders(x)') + Own(x)
    BY <1>2, OwnKept DEF RefsExact
  <2>2. /\ IsFiniteSet(UsedBy(x)) /\ Cardinality(UsedBy(x)) \in Nat
        /\ IsFiniteSet(Holders(x)) /\ Cardinality(Holders(x)) \in Nat /\ Own(x) \in Nat
        /\ refs[x] = Cardinality(UsedBy(x)) + Cardinality(Holders(x)) + Own(x)
    BY <1>1, RefTerms DEF RefsExact
  <2>3. CASE x = ssl[w]
    <3>1. Holders(x)' = Holders(x) \ {w} /\ w \in Holders(x)
      BY <1>4, <1>11, <2>3 DEF Holders, In
    <3>2. UsedBy(x)' = UsedBy(x) \cup {c} /\ c \notin UsedBy(x)
      BY <1>2, <1>9, <1>10, <2>3 DEF UsedBy
    <3>3. Cardinality(Holders(x)') = Cardinality(Holders(x)) - 1
      BY <2>2, <3>1, FS_RemoveElement
    <3>4. Cardinality(UsedBy(x)') = Cardinality(UsedBy(x)) + 1
      BY <2>2, <3>2, FS_AddElement
    <3>5. QED
      BY <2>2, <3>3, <3>4
  <2>4. CASE x # ssl[w]
    <3>1. Holders(x)' = Holders(x)
      BY <1>4, <1>11, <2>4 DEF Holders, In
    <3>2. UsedBy(x)' = UsedBy(x)
      BY <1>2, <1>10, <2>4 DEF UsedBy
    <3>3. QED
      BY <2>2, <3>1, <3>2
  <2>5. QED
    BY <2>3, <2>4
<1>20. QED
  BY <1>14, <1>15, <1>16, <1>17, <1>18, <1>19 DEF AdmissionInv, NothingLeaks

\* A registration fails: the handler gives back its slot, its SSL's reference
\* and its socket.
LEMMA AddFailsStep ==
  ASSUME AdmissionInv, NEW w \in Workers, AddFails(w)
  PROVE  AdmissionInv'
<1>1. TypeOK /\ Typed /\ Wrapping /\ QueueDrained /\ SlotsTaken /\ SocketsOwned /\ CountAgrees /\ RefsExact
  BY DEF AdmissionInv, Typed, NothingLeaks
<1>2. CloseAndContinue(w, "add")
  BY DEF AddFails
<1>3. /\ Goto(w, "add", "accept") /\ conns' = conns /\ count' = count - 1
      /\ refs' = [refs EXCEPT ![ssl[w]] = @ - 1] /\ ssl' = [ssl EXCEPT ![w] = NoContext]
      /\ UNCHANGED <<queue, edge, starved>> /\ UNCHANGED <<ctx_, made, main, old>>
  BY <1>2 DEF AddFails, CloseAndContinue, admitVars
<1>4. /\ In({"construct", "add"})' = In({"construct", "add"}) \ {w}
      /\ w \in In({"construct", "add"})
  BY <1>1, <1>3, Moves
<1>5. In({"ssl_new"})' = In({"ssl_new"}) /\ w \notin In({"ssl_new"})
  BY <1>1, <1>3, Moves, Stays
<1>6. In({"wrap", "ssl_new", "construct"})' = In({"wrap", "ssl_new", "construct"})
  BY <1>1, <1>3, Stays
<1>7. /\ Cardinality(In({"add"})') = Cardinality(In({"add"})) - 1
      /\ Cardinality(In({"add"})) \in Nat /\ Cardinality(In({"add"})') \in Nat
  BY <1>1, <1>3, Moves, InFinite DEF One
<1>8. \A v \in Workers \ {w} : ssl'[v] = ssl[v]
  BY <1>1, <1>3 DEF TypeOK
<1>9. Cardinality(conns) \in Nat
  BY <1>1, FS_CardinalityType DEF Typed
<1>10. CountAgrees' /\ count' \in Nat
  BY <1>1, <1>3, <1>7, <1>9 DEF CountAgrees
<1>11. SlotsTaken'
  <2>1. /\ Cardinality(In({"wrap", "ssl_new", "construct"})) \in Nat
        /\ Cardinality(Workers) \in Nat
    BY InFinite
  <2>2. QED
    BY <1>1, <1>3, <1>6, <2>1, ConstantsAssumption DEF SlotsTaken, TypeOK
<1>12. RefsExact' /\ refs' \in [Contexts -> Nat]
  <2>1. \A x \in Contexts :
          /\ refs'[x] = Cardinality(UsedBy(x)) + Cardinality(Holders(x)') + Own(x)
          /\ refs'[x] \in Nat
    <3>1. TAKE x \in Contexts
    <3>2. /\ Cardinality(UsedBy(x)) \in Nat
          /\ IsFiniteSet(Holders(x)) /\ Cardinality(Holders(x)) \in Nat /\ Own(x) \in Nat
          /\ refs[x] = Cardinality(UsedBy(x)) + Cardinality(Holders(x)) + Own(x)
      BY <1>1, RefTerms DEF RefsExact
    <3>3. CASE x = ssl[w]
      <4>1. Holders(x)' = Holders(x) \ {w} /\ w \in Holders(x)
        BY <1>4, <1>8, <3>3 DEF Holders, In
      <4>2. /\ Cardinality(Holders(x)') = Cardinality(Holders(x)) - 1
            /\ Cardinality(Holders(x)') \in Nat
        BY <3>2, <4>1, FS_RemoveElement, FS_CardinalityType
      <4>3. refs'[x] = refs[x] - 1
        BY <1>1, <1>3, <3>3 DEF TypeOK
      <4>4. QED
        BY <3>2, <4>2, <4>3
    <3>4. CASE x # ssl[w]
      <4>1. Holders(x)' = Holders(x)
        BY <1>4, <1>8, <3>4 DEF Holders, In
      <4>2. refs'[x] = refs[x]
        BY <1>1, <1>3, <3>4 DEF TypeOK
      <4>3. QED
        BY <3>2, <4>1, <4>2
    <3>5. QED
      BY <3>3, <3>4
  <2>2. RefsExact'
    BY <1>3, <2>1, OwnKept DEF RefsExact, UsedBy
  <2>3. QED
    BY <1>1, <1>3, <2>1, <2>2 DEF TypeOK
<1>13. Typed' /\ SocketsOwned'
  BY <1>1, <1>2, <1>3, <1>10, <1>12, SocketClosed DEF Typed, TypeOK, Places
<1>14. QueueDrained'
  BY <1>1, <1>3, StillAwake
<1>15. Wrapping'
  BY <1>1, <1>3, <1>4, <1>5, <1>8, OwnKept DEF Wrapping, In
<1>16. QED
  BY <1>10, <1>11, <1>12, <1>13, <1>14, <1>15 DEF AdmissionInv, NothingLeaks

\* A connection ends and gives back the same three.
LEMMA CloseStep ==
  ASSUME AdmissionInv, NEW c \in conns, Close(c)
  PROVE  AdmissionInv'
<1>1. TypeOK /\ Typed /\ Wrapping /\ QueueDrained /\ SlotsTaken /\ SocketsOwned /\ CountAgrees /\ RefsExact
  BY DEF AdmissionInv, Typed, NothingLeaks
<1>2. /\ conns' = conns \ {c} /\ refs' = [refs EXCEPT ![c.ctx] = @ - 1]
      /\ count' = count - 1 /\ open' = open \ {c.fd}
      /\ UNCHANGED <<pc, cfd, ssl>> /\ UNCHANGED <<queue, edge, starved>>
      /\ UNCHANGED <<ctx_, made, main, old>>
  BY DEF Close, admitVars
<1>3. Holding' = Holding /\ \A P : In(P)' = In(P)
  BY <1>2 DEF Holding, In
<1>4. /\ IsFiniteSet(conns') /\ Cardinality(conns') = Cardinality(conns) - 1
      /\ Cardinality(conns) \in Nat /\ Cardinality(conns') \in Nat
  BY <1>1, <1>2, FS_RemoveElement, FS_CardinalityType DEF Typed
<1>5. CountAgrees' /\ count' \in Nat
  <2>1. Cardinality(In({"add"})) \in Nat
    BY InFinite
  <2>2. QED
    BY <1>1, <1>2, <1>3, <1>4, <2>1 DEF CountAgrees
<1>6. SlotsTaken'
  <2>1. /\ Cardinality(In({"wrap", "ssl_new", "construct"})) \in Nat
        /\ Cardinality(Workers) \in Nat
    BY InFinite
  <2>2. QED
    BY <1>1, <1>2, <1>3, <2>1, ConstantsAssumption DEF SlotsTaken, TypeOK
<1>7. RefsExact' /\ refs' \in [Contexts -> Nat]
  <2>1. \A x \in Contexts :
          /\ refs'[x] = Cardinality(UsedBy(x)') + Cardinality(Holders(x)) + Own(x)
          /\ refs'[x] \in Nat
    <3>1. TAKE x \in Contexts
    <3>2. /\ IsFiniteSet(UsedBy(x)) /\ Cardinality(UsedBy(x)) \in Nat
          /\ Cardinality(Holders(x)) \in Nat /\ Own(x) \in Nat
          /\ refs[x] = Cardinality(UsedBy(x)) + Cardinality(Holders(x)) + Own(x)
      BY <1>1, RefTerms DEF RefsExact
    <3>3. CASE x = c.ctx
      <4>1. UsedBy(x)' = UsedBy(x) \ {c} /\ c \in UsedBy(x)
        BY <1>2, <3>3 DEF UsedBy
      <4>2. /\ Cardinality(UsedBy(x)') = Cardinality(UsedBy(x)) - 1
            /\ Cardinality(UsedBy(x)') \in Nat
        BY <3>2, <4>1, FS_RemoveElement, FS_CardinalityType
      <4>3. refs'[x] = refs[x] - 1
        BY <1>1, <1>2, <3>3 DEF TypeOK
      <4>4. QED
        BY <3>2, <4>2, <4>3
    <3>4. CASE x # c.ctx
      <4>1. UsedBy(x)' = UsedBy(x)
        BY <1>2, <3>4 DEF UsedBy
      <4>2. refs'[x] = refs[x]
        BY <1>1, <1>2, <3>4 DEF TypeOK
      <4>3. QED
        BY <3>2, <4>1, <4>2
    <3>5. QED
      BY <3>3, <3>4
  <2>2. RefsExact'
    BY <1>2, <1>3, <2>1, OwnKept DEF RefsExact, Holders
  <2>3. QED
    BY <1>1, <1>2, <2>1, <2>2 DEF TypeOK
<1>8. TypeOK'
  BY <1>1, <1>2, <1>5, <1>7 DEF TypeOK
<1>9. Typed'
  BY <1>1, <1>2, <1>3, <1>4, <1>8 DEF Typed
<1>10. SocketsOwned'
  <2>1. {d.fd : d \in conns'} = {d.fd : d \in conns} \ {c.fd}
    BY <1>1, <1>2 DEF SocketsOwned
  <2>2. c.fd \notin {cfd[v] : v \in Holding}
    BY <1>1 DEF SocketsOwned
  <2>3. QED
    BY <1>1, <1>2, <1>3, <2>1, <2>2 DEF SocketsOwned
<1>11. QueueDrained'
  BY <1>1, <1>2 DEF QueueDrained
<1>12. Wrapping'
  BY <1>1, <1>2, <1>3, OwnKept DEF Wrapping
<1>13. QED
  BY <1>5, <1>6, <1>7, <1>9, <1>10, <1>11, <1>12 DEF AdmissionInv, NothingLeaks
-----------------------------------------------------------------------------
(* The invariant.                                                          *)

\* Nothing is open, queued or counted at start-up, and the first context has
\* one owner.
LEMMA AdmissionInvInit == Init => AdmissionInv
<1>1. SUFFICES ASSUME Init PROVE AdmissionInv
  OBVIOUS
<1>2. TypeOK
  BY <1>1, ConstantsAssumption DEF Init, TypeOK, Contexts, NoContext
<1>3. /\ \A P : "wait" \notin P => In(P) = {}
      /\ Holding = {}
  BY <1>1 DEF Init, In, Holding
<1>4. IsFiniteSet({}) /\ Cardinality({}) = 0
  BY FS_EmptySet
<1>5. Typed /\ Wrapping /\ QueueDrained
  BY <1>1, <1>2, <1>3, <1>4 DEF Init, Typed, Wrapping, Published, QueueDrained
<1>6. SlotsTaken
  <2>1. In({"wrap", "ssl_new", "construct"}) = {} /\ Cardinality(Workers) \in Nat \ {0}
    BY <1>3, InFinite
  <2>2. QED
    BY <1>1, <1>4, <2>1, ConstantsAssumption DEF Init, SlotsTaken
<1>7. SocketsOwned
  BY <1>1, <1>3 DEF Init, SocketsOwned
<1>8. CountAgrees
  <2>1. In({"add"}) = {}
    BY <1>3
  <2>2. QED
    BY <1>1, <1>4, <2>1 DEF Init, CountAgrees
<1>9. RefsExact
  <2>1. In({"construct", "add"}) = {}
    BY <1>3
  <2>2. \A x : UsedBy(x) = {} /\ Holders(x) = {}
    BY <1>1, <2>1 DEF Init, UsedBy, Holders
  <2>3. \A x \in Contexts : refs[x] = Own(x) /\ Own(x) \in Nat
    BY <1>1 DEF Init, Own, One
  <2>4. QED
    BY <1>4, <2>2, <2>3 DEF RefsExact
<1>10. QED
  BY <1>5, <1>6, <1>7, <1>8, <1>9 DEF AdmissionInv, NothingLeaks

\* Every step keeps the invariant.
LEMMA AdmissionInvNext ==
  ASSUME AdmissionInv, [Next]_vars
  PROVE  AdmissionInv'
<1>1. ASSUME NEW w \in Workers,
             \/ Arrive(w) \/ EpollWait(w)
             \/ AcceptDrained(w) \/ AcceptFails(w) \/ AcceptAborted(w) \/ Accept(w)
             \/ DropLimited(w) \/ DropOverCap(w) \/ PassCap(w)
             \/ WrapLock(w) \/ Wrapped(w) \/ WrapFails(w)
             \/ Construct(w) \/ Add(w) \/ AddFails(w)
      PROVE  AdmissionInv'
  BY <1>1, KernelStep, AcceptStep, DropStep, PassCapStep, WrapLockStep, WrappedStep,
     ConstructStep, AddStep, AddFailsStep
<1>2. ASSUME NEW c \in conns, Close(c)
      PROVE  AdmissionInv'
  BY <1>2, CloseStep
<1>3. CASE BuildCtx \/ BuildFails \/ Swap \/ FreeOld
  BY <1>3, ReloadStep
<1>4. CASE UNCHANGED vars
  <2>1. TypeOK' /\ QueueDrained'
    BY <1>4 DEF vars, AdmissionInv, Typed, TypeOK, QueueDrained
  <2>2. SameWork
    BY <1>4 DEF vars, SameWork, Holding, In
  <2>3. QED
    BY <1>4, <2>1, <2>2, Untouched DEF vars, tlsVars
<1>5. QED
  BY <1>1, <1>2, <1>3, <1>4 DEF Next

\* The inductive invariant holds throughout.
LEMMA AdmissionInvariant == Spec => []AdmissionInv
  BY AdmissionInvInit, AdmissionInvNext, PTL DEF Spec
-----------------------------------------------------------------------------
(* conn_limit.h's soft cap: however the listeners interleave, it is passed *)
(* by at most one connection per other worker.                             *)
THEOREM CapIsSoft == Spec => []SoftCap
<1>1. AdmissionInv => SoftCap
  <2>1. /\ Cardinality(In({"wrap", "ssl_new", "construct"})) \in Nat
        /\ Cardinality(Workers) \in Nat
    BY InFinite
  <2>2. QED
    BY <2>1, ConstantsAssumption DEF AdmissionInv, Typed, TypeOK, SlotsTaken, SoftCap
<1>2. QED
  BY <1>1, AdmissionInvariant, PTL

(* on_readable, add and reload: on every way in and out, each open socket  *)
(* has one owner, the counter counts the connections there are, and each   *)
(* context is referenced by exactly those who use it.                      *)
THEOREM NothingEverLeaks == Spec => []NothingLeaks
<1>1. AdmissionInv => NothingLeaks
  BY DEF AdmissionInv
<1>2. QED
  BY <1>1, AdmissionInvariant, PTL

(* wrap and reload: SSL_new is never given a context that has been freed.  *)
THEOREM ContextsOutliveWraps == Spec => []NoFreedContext
<1>1. AdmissionInv => NoFreedContext
  <2>1. SUFFICES ASSUME AdmissionInv, NEW w \in Workers, pc[w] = "ssl_new"
                 PROVE  refs[ssl[w]] > 0 /\ ssl[w] = ctx_
    BY DEF NoFreedContext
  <2>2. ssl[w] = ctx_ /\ ctx_ \in Contexts
    BY <2>1 DEF AdmissionInv, Typed, TypeOK, Wrapping, In
  <2>3. refs[ctx_] = Cardinality(UsedBy(ctx_)) + Cardinality(Holders(ctx_)) + Own(ctx_)
    BY <2>1, <2>2 DEF AdmissionInv, NothingLeaks, RefsExact
  <2>4. Cardinality(UsedBy(ctx_)) \in Nat /\ Cardinality(Holders(ctx_)) \in Nat
    BY <2>1, RefTerms DEF AdmissionInv
  <2>5. Own(ctx_) \in Nat \ {0}
    BY DEF Own, One
  <2>6. QED
    BY <2>2, <2>3, <2>4, <2>5
<1>2. QED
  BY <1>1, AdmissionInvariant, PTL

(* on_readable drains its edge-triggered queue: no worker sleeps on a      *)
(* queued connection unless it ran out of descriptors.                     *)
THEOREM QueuesDrained == Spec => []QueueDrained
<1>1. AdmissionInv => QueueDrained
  BY DEF AdmissionInv
<1>2. QED
  BY <1>1, AdmissionInvariant, PTL
=============================================================================
