-------------------------- MODULE SupervisorProofs --------------------------
(***************************************************************************)
(* Theorems about Supervisor, for every number of services and every value *)
(* of the timing constants.                                                *)
(***************************************************************************)
EXTENDS Supervisor, FiniteSetTheorems, SequenceTheorems, WellFoundedInduction, TLAPS

-----------------------------------------------------------------------------
(* The record operators.                                                   *)

\* prune_failures returns a sequence of the same ages, no longer than before.
LEMMA PruneType ==
  ASSUME NEW q \in Seq(0..(kFailureWindow + 1))
  PROVE  /\ PruneFailures(q) \in Seq(0..(kFailureWindow + 1))
         /\ Len(PruneFailures(q)) <= Len(q)
<1> DEFINE E == {i \in DOMAIN q : \A j \in 1..i : q[j] > kFailureWindow}
<1>1. IsFiniteSet(1..Len(q))
  BY FS_Interval
<1>2. E \in SUBSET (1..Len(q))
  OBVIOUS
<1>3. Cardinality(E) \in 0..Len(q)
  <2>1. IsFiniteSet(E) /\ Cardinality(E) <= Cardinality(1..Len(q))
    BY <1>1, <1>2, FS_Subset
  <2>2. Cardinality(E) \in Nat
    BY <2>1, FS_CardinalityType
  <2>3. Cardinality(1..Len(q)) = Len(q)
    <3>1. Len(q) \in Nat /\ 1 \in Int /\ Len(q) \in Int
      OBVIOUS
    <3>2. Cardinality(1..Len(q)) = IF 1 > Len(q) THEN 0 ELSE Len(q) - 1 + 1
      BY <3>1, FS_Interval
    <3>3. QED
      BY <3>1, <3>2
  <2>4. QED
    BY <2>1, <2>2, <2>3
<1>4. PruneFailures(q) = SubSeq(q, Cardinality(E) + 1, Len(q))
  BY DEF PruneFailures
<1> HIDE DEF E
<1>5. \A i \in (Cardinality(E) + 1)..Len(q) : q[i] \in 0..(kFailureWindow + 1)
  <2>1. Len(q) \in Nat /\ \A i \in 1..Len(q) : q[i] \in 0..(kFailureWindow + 1)
    BY LenProperties
  <2>2. \A i \in (Cardinality(E) + 1)..Len(q) : i \in 1..Len(q)
    BY <1>3, <2>1
  <2>3. QED
    BY <2>1, <2>2
<1>6. /\ SubSeq(q, Cardinality(E) + 1, Len(q)) \in Seq(0..(kFailureWindow + 1))
      /\ Len(SubSeq(q, Cardinality(E) + 1, Len(q))) <= Len(q)
  <2>1. Len(q) \in Nat /\ Cardinality(E) + 1 \in Int /\ Len(q) \in Int
    BY <1>3
  <2>2. /\ SubSeq(q, Cardinality(E) + 1, Len(q)) \in Seq(0..(kFailureWindow + 1))
        /\ Len(SubSeq(q, Cardinality(E) + 1, Len(q))) =
             IF Cardinality(E) + 1 <= Len(q) THEN Len(q) - (Cardinality(E) + 1) + 1 ELSE 0
    BY <1>5, <2>1, SubSeqProperties
  <2>3. QED
    BY <1>3, <2>1, <2>2
<1>7. QED
  BY <1>4, <1>6

\* What scheduling a relaunch makes of a record.
LEMMA ScheduleRestartType ==
  ASSUME NEW r \in ServiceRecord
  PROVE  /\ ScheduleRestart(r) \in ServiceRecord
         /\ ScheduleRestart(r).state = "Backoff"
         /\ ScheduleRestart(r).pid = r.pid
         /\ ScheduleRestart(r).recent = r.recent
         /\ ScheduleRestart(r).health = r.health
<1>1. NextBackoff(r) \in Nat
  BY ConstantsAssumption DEF NextBackoff, AtMost, ServiceRecord
<1>2. QED
  BY <1>1 DEF ScheduleRestart, ServiceRecord, ServiceStates

\* What a successful fork makes of a record.
LEMMA LaunchedType ==
  ASSUME NEW r \in ServiceRecord, NEW p \in Pids
  PROVE  /\ Launched(r, p) \in ServiceRecord
         /\ Launched(r, p).state = "Running"
         /\ Launched(r, p).pid = p
         /\ Launched(r, p).recent = r.recent
         /\ Launched(r, p).health = r.health
<1>1. 0 \in 0..kStableSec
  BY ConstantsAssumption
<1>2. QED
  BY <1>1 DEF Launched, ServiceRecord, ServiceStates

\* What an unexpected exit makes of a record: a service that is to be relaunched
\* has at most kMaxFailures failures left in its window.
LEMMA UnexpectedExitType ==
  ASSUME NEW s \in Services, NEW r \in ServiceRecord
  PROVE  LET u == UnexpectedExit(s, r) IN
         /\ u \in ServiceRecord
         /\ u.state \in {"Failed", "Quarantined", "Backoff"}
         /\ u.pid = r.pid
         /\ u.health = r.health
         /\ s \in Autorestart => u.state # "Failed"
         /\ u.state = "Backoff" => Len(u.recent) <= kMaxFailures
         /\ u.state = "Quarantined" => /\ Len(u.recent) > kMaxFailures
                                       /\ u.recent = PruneFailures(Append(r.recent, 0))
<1> DEFINE f == RecordFailure(r)
<1>1. Append(r.recent, 0) \in Seq(0..(kFailureWindow + 1))
  BY ConstantsAssumption DEF ServiceRecord
<1>2. /\ f \in ServiceRecord
      /\ f.pid = r.pid /\ f.health = r.health
      /\ f.recent = PruneFailures(Append(r.recent, 0))
  BY <1>1, PruneType DEF RecordFailure, ServiceRecord
<1> HIDE DEF f
<1>3. Len(f.recent) \in Nat
  BY <1>2 DEF ServiceRecord
<1>4. CASE s \notin Autorestart
  BY <1>2, <1>4 DEF UnexpectedExit, MarkDown, f, ServiceRecord, ServiceStates
<1>5. CASE s \in Autorestart /\ Len(f.recent) > kMaxFailures
  BY <1>2, <1>5 DEF UnexpectedExit, MarkDown, f, ServiceRecord, ServiceStates
<1>6. CASE s \in Autorestart /\ ~(Len(f.recent) > kMaxFailures)
  <2>1. UnexpectedExit(s, r) = ScheduleRestart(f)
    BY <1>6 DEF UnexpectedExit, f
  <2>2. QED
    BY <1>2, <1>3, <1>6, <2>1, ScheduleRestartType, ConstantsAssumption
<1>7. QED
  BY <1>4, <1>5, <1>6

\* A second more changes only the clocks of a record.
LEMMA AgedType ==
  ASSUME NEW r \in ServiceRecord
  PROVE  /\ Aged(r) \in ServiceRecord
         /\ Aged(r).pid = r.pid
         /\ Aged(r).state = r.state
         /\ Aged(r).health = r.health
         /\ Aged(r).wantsRestart = r.wantsRestart
         /\ Len(Aged(r).recent) = Len(r.recent)
         /\ \A i \in 1..Len(r.recent) :
              Aged(r).recent[i] = AtMost(r.recent[i] + 1, kFailureWindow + 1)
         /\ r.nextRestart = 0 => Aged(r).nextRestart = 0
<1> DEFINE q == [i \in DOMAIN r.recent |-> AtMost(r.recent[i] + 1, kFailureWindow + 1)]
<1>1. /\ q \in Seq(0..(kFailureWindow + 1))
      /\ Len(q) = Len(r.recent)
      /\ \A i \in 1..Len(r.recent) : q[i] = AtMost(r.recent[i] + 1, kFailureWindow + 1)
  <2>1. r.recent \in Seq(0..(kFailureWindow + 1))
    BY DEF ServiceRecord
  <2>2. \A i \in 1..Len(r.recent) :
          AtMost(r.recent[i] + 1, kFailureWindow + 1) \in 0..(kFailureWindow + 1)
    BY <2>1, ConstantsAssumption DEF AtMost
  <2>3. q = [i \in 1..Len(r.recent) |-> AtMost(r.recent[i] + 1, kFailureWindow + 1)]
    BY <2>1
  <2> HIDE DEF q
  <2>4. q \in [1..Len(r.recent) -> 0..(kFailureWindow + 1)]
    BY <2>2, <2>3
  <2>5. q \in Seq(0..(kFailureWindow + 1)) /\ Len(q) = Len(r.recent)
    <3>1. Len(r.recent) \in Nat
      BY <2>1
    <3>2. q \in Seq(0..(kFailureWindow + 1))
      BY <2>4, <3>1, SeqDef
    <3>3. DOMAIN q = 1..Len(q) /\ Len(q) \in Nat
      BY <3>2
    <3>4. QED
      BY <2>4, <3>1, <3>2, <3>3
  <2>6. QED
    BY <2>3, <2>5
<1>2. /\ CountDown(r.nextRestart) \in Nat
      /\ r.nextRestart = 0 => CountDown(r.nextRestart) = 0
  BY DEF CountDown, ServiceRecord
<1>3. AtMost(r.ran + 1, kStableSec) \in 0..kStableSec
  BY ConstantsAssumption DEF AtMost, ServiceRecord
<1>4. AtMost(r.sinceHealth + 1, HealthInterval) \in 0..HealthInterval
  BY ConstantsAssumption DEF AtMost, ServiceRecord
<1>5. /\ Aged(r).recent = q
      /\ Aged(r).nextRestart = CountDown(r.nextRestart)
      /\ Aged(r).ran = AtMost(r.ran + 1, kStableSec)
      /\ Aged(r).sinceHealth = AtMost(r.sinceHealth + 1, HealthInterval)
      /\ Aged(r).pid = r.pid /\ Aged(r).state = r.state
      /\ Aged(r).health = r.health /\ Aged(r).wantsRestart = r.wantsRestart
  BY DEF Aged, ServiceRecord
<1>6. Aged(r) \in ServiceRecord
  BY <1>1, <1>2, <1>3, <1>4 DEF Aged, ServiceRecord
<1>7. QED
  BY <1>1, <1>2, <1>5, <1>6

-----------------------------------------------------------------------------
(* Type correctness.                                                       *)

\* Either outcome of fork keeps the services, the processes and the snapshot
\* well typed.
LEMMA SpawnType ==
  ASSUME svc \in [Services -> ServiceRecord],
         NEW s \in Services, NEW r \in ServiceRecord,
         NEW pr \in [Pids -> ProcStates], NEW up \in [Services -> BOOLEAN],
         Spawn(s, r, pr, up)
  PROVE  /\ svc' \in [Services -> ServiceRecord]
         /\ proc' \in [Pids -> ProcStates]
         /\ upRunning' \in [Services -> BOOLEAN]
<1>1. ScheduleRestart(r) \in ServiceRecord /\ \A p \in Pids : Launched(r, p) \in ServiceRecord
  BY ScheduleRestartType, LaunchedType
<1>2. "run" \in ProcStates
  BY DEF ProcStates, Alive
<1>3. QED
  BY <1>1, <1>2 DEF Spawn

\* A signal keeps the process table well typed.
LEMMA SignalledType ==
  ASSUME proc \in [Pids -> ProcStates], NEW S, NEW sig \in {"term", "kill"}
  PROVE  Signalled(S, sig) \in [Pids -> ProcStates]
BY DEF Signalled, ProcStates, Alive

\* Reaping a child and what follows keep the types.
LEMMA HandleExitType ==
  ASSUME svc \in [Services -> ServiceRecord], upRunning \in [Services -> BOOLEAN],
         NEW s \in Services, NEW reaped \in [Pids -> ProcStates],
         HandleExit(s, reaped)
  PROVE  /\ svc' \in [Services -> ServiceRecord]
         /\ proc' \in [Pids -> ProcStates]
         /\ upRunning' \in [Services -> BOOLEAN]
<1> DEFINE r  == [svc[s] EXCEPT !.pid = NoPid, !.health = "unknown"]
           up == [upRunning EXCEPT ![s] = FALSE]
<1>1. r \in ServiceRecord
  BY DEF ServiceRecord
<1>2. up \in [Services -> BOOLEAN]
  OBVIOUS
<1> HIDE DEF r, up
<1>3. /\ [r EXCEPT !.state = "Stopped"] \in ServiceRecord
      /\ [r EXCEPT !.wantsRestart = FALSE, !.backoff = 0] \in ServiceRecord
      /\ UnexpectedExit(s, r) \in ServiceRecord
  <2>1. /\ [r EXCEPT !.state = "Stopped"] \in ServiceRecord
        /\ [r EXCEPT !.wantsRestart = FALSE, !.backoff = 0] \in ServiceRecord
    BY <1>1 DEF ServiceRecord, ServiceStates
  <2>2. QED
    BY <1>1, <2>1, UnexpectedExitType
<1>4. \/ /\ svc' = [svc EXCEPT ![s] = [r EXCEPT !.state = "Stopped"]]
         /\ proc' = reaped /\ upRunning' = up
      \/ Spawn(s, [r EXCEPT !.wantsRestart = FALSE, !.backoff = 0], reaped, up)
      \/ /\ svc' = [svc EXCEPT ![s] = UnexpectedExit(s, r)]
         /\ proc' = reaped /\ upRunning' = up
  BY DEF HandleExit, r, up
<1>5. QED
  BY <1>2, <1>3, <1>4, SpawnType

\* A non-empty set of naturals has a least element.
LEMMA LeastElement ==
  ASSUME NEW T, T \subseteq Nat, T # {}
  PROVE  \E m \in T : \A t \in T : m <= t
<1> DEFINE R == OpToRel(<, Nat)
<1>1. IsWellFoundedOn(R, Nat)
  BY NatLessThanWellFounded
<1>2. \A t, m \in Nat : t < m => <<t, m>> \in R
  BY DEF OpToRel
<1> HIDE DEF R
<1>3. PICK m \in T : \A t \in T : ~(<<t, m>> \in R)
  BY <1>1, WFMin
<1>4. \A t \in T : ~(t < m)
  BY <1>2, <1>3, Zenon
<1>5. QED
  BY <1>4

\* find_by_pid returns a service that holds the pid, or 0 when none does.
LEMMA FindByPidOwner ==
  ASSUME NEW p \in Pids
  PROVE  /\ FindByPid(p) # 0 => FindByPid(p) \in Services /\ svc[FindByPid(p)].pid = p
         /\ FindByPid(p) = 0 => \A s \in Services : svc[s].pid # p
<1> DEFINE owners == {s \in Services : svc[s].pid = p}
           first == CHOOSE s \in owners : \A t \in owners : s <= t
<1>1. FindByPid(p) = IF owners = {} THEN 0 ELSE first
  BY DEF FindByPid
<1>2. CASE owners = {}
  BY <1>1, <1>2
<1>3. CASE owners # {}
  <2>1. owners \subseteq Nat /\ \A s \in owners : s # 0
    BY ConstantsAssumption DEF Services
  <2>2. \E s \in owners : \A t \in owners : s <= t
    BY <1>3, <2>1, LeastElement
  <2>3. first \in owners
    BY <2>2
  <2> HIDE DEF first
  <2>4. QED
    BY <1>1, <1>3, <2>1, <2>3
<1>4. QED
  BY <1>2, <1>3

\* Every step keeps the types.
LEMMA TypeStep ==
  ASSUME TypeOK, [Next]_vars
  PROVE  TypeOK'
<1> USE DEF TypeOK, procVars, loopVars, tickVars, postVars, stopVars
<1>1. CASE Launch
  <2>1. at \in Services /\ svc[at] \in ServiceRecord
    BY <1>1 DEF Launch
  <2>2. Spawn(at, svc[at], proc, upRunning)
    BY <1>1 DEF Launch
  <2>3. /\ svc' \in [Services -> ServiceRecord]
        /\ proc' \in [Pids -> ProcStates]
        /\ upRunning' \in [Services -> BOOLEAN]
    BY <2>1, <2>2, SpawnType
  <2>4. QED
    BY <1>1, <2>1, <2>3, ConstantsAssumption DEF Launch, Services
<1>2. CASE Started
  BY <1>2 DEF Started
<1>3. CASE EpollWait
  BY <1>3 DEF EpollWait, Ready
<1>4. CASE BatchDone
  BY <1>4 DEF BatchDone
<1>5. CASE LoopExit
  BY <1>5 DEF LoopExit
<1>6. CASE DrainWakeup
  BY <1>6 DEF DrainWakeup
<1>7. CASE TasksDone
  BY <1>7 DEF TasksDone
<1>8. CASE DrainSignal
  BY <1>8 DEF DrainSignal
<1>9. CASE TickEnd
  BY <1>9, ConstantsAssumption DEF TickEnd
<1>10. CASE Ring
  BY <1>10 DEF Ring
<1>11. CASE ControlStop
  BY <1>11 DEF ControlStop
<1>12. CASE Finished
  BY <1>12 DEF Finished, vars
<1>13. CASE SwapTasks
  BY <1>13 DEF SwapTasks
<1>14. CASE RunRestart
  <2> DEFINE s == Head(local)
             r == [svc[s] EXCEPT !.recent = <<>>]
  <2>1. s \in Services
    BY <1>14 DEF RunRestart, Task, Shutdown
  <2>2. r \in ServiceRecord
    <3>1. svc[s] \in ServiceRecord /\ <<>> \in Seq(0..(kFailureWindow + 1))
      BY <2>1
    <3>2. QED
      BY <3>1 DEF ServiceRecord
  <2>3. /\ [r EXCEPT !.wantsRestart = TRUE] \in ServiceRecord
        /\ [r EXCEPT !.backoff = 0, !.wantsRestart = FALSE] \in ServiceRecord
    BY <2>2 DEF ServiceRecord
  <2>4. \/ /\ svc' = [svc EXCEPT ![s] = [r EXCEPT !.wantsRestart = TRUE]]
           /\ proc' = Signalled({s}, "term") /\ upRunning' = upRunning
        \/ Spawn(s, [r EXCEPT !.backoff = 0, !.wantsRestart = FALSE], proc, upRunning)
    BY <1>14 DEF RunRestart, DoRestart
  <2> HIDE DEF r
  <2>5. /\ svc' \in [Services -> ServiceRecord]
        /\ proc' \in [Pids -> ProcStates]
        /\ upRunning' \in [Services -> BOOLEAN]
    BY <2>1, <2>3, <2>4, SpawnType, SignalledType
  <2>6. local' \in Seq(Task)
    BY <1>14 DEF RunRestart
  <2>7. QED
    BY <1>14, <2>5, <2>6 DEF RunRestart
<1>15. CASE BeginShutdown
  <2>1. svc' \in [Services -> ServiceRecord]
    <3>1. \A s \in Services : [svc[s] EXCEPT !.state = "Stopped"] \in ServiceRecord
      <4>1. TAKE s \in Services
      <4>2. svc[s] \in ServiceRecord
        OBVIOUS
      <4> HIDE DEF TypeOK
      <4>3. QED
        BY <4>2 DEF ServiceRecord, ServiceStates
    <3>2. QED
      BY <1>15, <3>1 DEF BeginShutdown
  <2>2. proc' \in [Pids -> ProcStates]
    BY <1>15, SignalledType DEF BeginShutdown
  <2>3. killIn' \in 0..kGraceSec
    BY <1>15, ConstantsAssumption DEF BeginShutdown
  <2>4. running' \in BOOLEAN /\ wake' \in BOOLEAN
    BY <1>15 DEF BeginShutdown, FinishIfDrained
  <2>5. local' \in Seq(Task)
    BY <1>15 DEF BeginShutdown
  <2>6. QED
    BY <1>15, <2>1, <2>2, <2>3, <2>4, <2>5 DEF BeginShutdown
<1>16. CASE \E p \in Pids : Reap(p)
  <2>1. PICK p \in Pids : Reap(p)
    BY <1>16
  <2>2. [proc EXCEPT ![p] = "free"] \in [Pids -> ProcStates]
    BY DEF ProcStates
  <2>3. /\ svc' \in [Services -> ServiceRecord]
        /\ proc' \in [Pids -> ProcStates]
        /\ upRunning' \in [Services -> BOOLEAN]
    <3>1. CASE FindByPid(p) = 0
      BY <2>1, <2>2, <3>1 DEF Reap
    <3>2. CASE FindByPid(p) # 0
      BY <2>1, <2>2, <3>2, FindByPidOwner, HandleExitType DEF Reap
    <3>3. QED
      BY <3>1, <3>2
  <2>4. QED
    BY <2>1, <2>3 DEF Reap
<1>17. CASE ReapDone
  BY <1>17 DEF ReapDone, FinishIfDrained
<1>18. CASE TickBegin
  <2>1. at' \in 1..(NumServices + 1) /\ lag' \in 0..HealthInterval
    BY <1>18, ConstantsAssumption DEF TickBegin
  <2>2. dueBy' \subseteq Services /\ probeBy' \subseteq Services
    BY <1>18, ConstantsAssumption DEF TickBegin
  <2>3. QED
    BY <1>18, <2>1, <2>2 DEF TickBegin
<1>19. CASE TickShutdown
  <2>1. proc' \in [Pids -> ProcStates]
    BY <1>19, SignalledType DEF TickShutdown
  <2>2. running' \in BOOLEAN /\ wake' \in BOOLEAN
    BY <1>19 DEF TickShutdown, FinishIfDrained
  <2>3. QED
    BY <1>19, <2>1, <2>2 DEF TickShutdown
<1>20. CASE TickSpawn
  <2>1. at \in Services /\ svc[at] \in ServiceRecord
    BY <1>20 DEF TickSpawn
  <2>2. /\ svc' \in [Services -> ServiceRecord]
        /\ proc' \in [Pids -> ProcStates]
        /\ upRunning' \in [Services -> BOOLEAN]
    BY <1>20, <2>1, SpawnType DEF TickSpawn
  <2>3. QED
    BY <1>20, <2>1, <2>2 DEF TickSpawn
<1>21. CASE TickProbe
  <2>1. at \in Services
    BY <1>21 DEF TickProbe
  <2>2. \A h \in {"up", "down"} :
          [svc EXCEPT ![at].health = h, ![at].sinceHealth = lag] \in [Services -> ServiceRecord]
    <3>1. svc[at] \in ServiceRecord
      BY <2>1
    <3>2. \A h \in {"up", "down"} :
            [svc[at] EXCEPT !.health = h, !.sinceHealth = lag] \in ServiceRecord
      BY <3>1 DEF ServiceRecord
    <3>3. \A h : [svc EXCEPT ![at].health = h, ![at].sinceHealth = lag]
               = [svc EXCEPT ![at] = [svc[at] EXCEPT !.health = h, !.sinceHealth = lag]]
      BY <2>1
    <3>4. QED
      BY <2>1, <3>2, <3>3
  <2>3. svc' \in [Services -> ServiceRecord]
    BY <1>21, <2>2 DEF TickProbe
  <2>4. at' \in 1..(NumServices + 1)
    BY <1>21, <2>1, ConstantsAssumption DEF TickProbe, Services
  <2>5. QED
    BY <1>21, <2>3, <2>4 DEF TickProbe
<1>22. CASE \E s \in Services : PostRestart(s)
  BY <1>22 DEF PostRestart, Task
<1>23. CASE SupervisorStop
  BY <1>23 DEF SupervisorStop, Task
<1>24. CASE \E p \in Pids : ChildExits(p)
  BY <1>24 DEF ChildExits, ProcStates
<1>25. CASE TimePasses
  <2>1. svc' \in [Services -> ServiceRecord]
    BY <1>25, AgedType DEF TimePasses
  <2>2. lag' \in 0..HealthInterval
    BY <1>25, ConstantsAssumption DEF TimePasses, AtMost
  <2>3. killIn' \in 0..kGraceSec
    BY <1>25, ConstantsAssumption DEF TimePasses, CountDown
  <2>4. QED
    BY <1>25, <2>1, <2>2, <2>3 DEF TimePasses
<1>26. CASE UNCHANGED vars
  BY <1>26 DEF vars
<1>27. QED
  BY <1>1, <1>2, <1>3, <1>4, <1>5, <1>6, <1>7, <1>8, <1>9, <1>10, <1>11, <1>12, <1>13, <1>14, <1>15, <1>16, <1>17, <1>18, <1>19, <1>20, <1>21, <1>22, <1>23, <1>24, <1>25, <1>26
     DEF Next, LoopStep

\* The constructor leaves the services, and start() finds the loop, well typed.
LEMMA InitType == Init => TypeOK
<1>1. SUFFICES ASSUME Init PROVE TypeOK
  OBVIOUS
<1>2. FreshService \in ServiceRecord
  BY ConstantsAssumption DEF FreshService, ServiceRecord, ServiceStates
<1>3. svc \in [Services -> ServiceRecord]
  BY <1>1, <1>2 DEF Init
<1>4. proc \in [Pids -> ProcStates] /\ upRunning \in [Services -> BOOLEAN]
  BY <1>1 DEF Init, ProcStates
<1>5. at \in 1..(NumServices + 1) /\ lag \in 0..HealthInterval /\ killIn \in 0..kGraceSec
  BY <1>1, ConstantsAssumption DEF Init
<1>6. tasks \in Seq(Task) /\ local \in Seq(Task)
  BY <1>1 DEF Init
<1>7. QED
  BY <1>1, <1>3, <1>4, <1>5, <1>6 DEF Init, TypeOK

\* The supervisor's state keeps its types in every reachable state.
THEOREM TypeCorrect == Spec => []TypeOK
<1>1. Init => TypeOK
  BY InitType
<1>2. TypeOK /\ [Next]_vars => TypeOK'
  BY TypeStep
<1>3. QED
  BY <1>1, <1>2, PTL DEF Spec

-----------------------------------------------------------------------------
(* Children and their services.                                            *)

\* The two outcomes of spawn on a record without a child.
LEMMA SpawnEffect ==
  ASSUME svc \in [Services -> ServiceRecord],
         NEW s \in Services, NEW r \in ServiceRecord, r.pid = NoPid,
         NEW pr \in [Pids -> ProcStates], NEW up \in [Services -> BOOLEAN],
         Spawn(s, r, pr, up)
  PROVE  /\ svc' \in [Services -> ServiceRecord]
         /\ \A t \in Services : t # s => svc'[t] = svc[t]
         /\ svc'[s].recent = r.recent /\ svc'[s].health = r.health
         /\ \/ /\ proc' = pr /\ upRunning' = up
               /\ svc'[s].pid = NoPid /\ svc'[s].state = "Backoff"
            \/ \E p \in Pids : /\ pr[p] = "free"
                               /\ proc' = [pr EXCEPT ![p] = "run"]
                               /\ upRunning' = [up EXCEPT ![s] = TRUE]
                               /\ svc'[s].pid = p /\ svc'[s].state = "Running"
<1>1. svc' \in [Services -> ServiceRecord]
  BY SpawnType
<1>2. CASE proc' = pr /\ svc' = [svc EXCEPT ![s] = ScheduleRestart(r)] /\ upRunning' = up
  <2>1. svc'[s] = ScheduleRestart(r) /\ \A t \in Services : t # s => svc'[t] = svc[t]
    BY <1>2
  <2>2. QED
    BY <1>1, <1>2, <2>1, ScheduleRestartType
<1>3. CASE \E p \in Pids : /\ pr[p] = "free"
                           /\ proc' = [pr EXCEPT ![p] = "run"]
                           /\ svc' = [svc EXCEPT ![s] = Launched(r, p)]
                           /\ upRunning' = [up EXCEPT ![s] = TRUE]
  <2>1. PICK p \in Pids : /\ pr[p] = "free"
                          /\ proc' = [pr EXCEPT ![p] = "run"]
                          /\ svc' = [svc EXCEPT ![s] = Launched(r, p)]
                          /\ upRunning' = [up EXCEPT ![s] = TRUE]
    BY <1>3
  <2>2. svc'[s] = Launched(r, p) /\ \A t \in Services : t # s => svc'[t] = svc[t]
    BY <2>1
  <2>3. QED
    BY <1>1, <2>1, <2>2, LaunchedType
<1>4. QED
  BY <1>2, <1>3 DEF Spawn

\* A spawn on behalf of a service whose old child, if any, has been reaped in pr
\* keeps ownership, and the snapshot and the health verdict in step with it.
LEMMA SpawnKeepsOwnership ==
  ASSUME svc \in [Services -> ServiceRecord],
         NEW s \in Services, NEW r \in ServiceRecord, r.pid = NoPid, r.health = "unknown",
         NEW pr \in [Pids -> ProcStates], NEW up \in [Services -> BOOLEAN],
         Owns([svc EXCEPT ![s] = r], pr),
         RunningIffChild(svc), HealthOfChild, up[s] = FALSE,
         \A t \in Services : t # s => up[t] = (svc[t].pid # NoPid),
         Spawn(s, r, pr, up)
  PROVE  /\ Owns(svc', proc') /\ RunningIffChild(svc')
         /\ UptimeAgrees' /\ HealthOfChild'
<1> DEFINE sv == [svc EXCEPT ![s] = r]
<1>1. /\ svc' \in [Services -> ServiceRecord]
      /\ \A t \in Services : t # s => svc'[t] = svc[t]
      /\ svc'[s].health = "unknown"
      /\ \/ /\ proc' = pr /\ upRunning' = up
            /\ svc'[s].pid = NoPid /\ svc'[s].state = "Backoff"
         \/ \E p \in Pids : /\ pr[p] = "free"
                            /\ proc' = [pr EXCEPT ![p] = "run"]
                            /\ upRunning' = [up EXCEPT ![s] = TRUE]
                            /\ svc'[s].pid = p /\ svc'[s].state = "Running"
  BY SpawnEffect
<1>2. /\ sv[s].pid = NoPid
      /\ \A t \in Services : t # s => sv[t] = svc[t]
      /\ Owns(sv, pr)
  OBVIOUS
<1> HIDE DEF sv
<1>3. \A t \in Services : svc[t].pid \in Pids \cup {NoPid} /\ svc'[t].pid \in Pids \cup {NoPid}
  BY <1>1 DEF ServiceRecord
<1>4. HealthOfChild'
  BY <1>1 DEF HealthOfChild
<1>5. CASE /\ proc' = pr /\ upRunning' = up
           /\ svc'[s].pid = NoPid /\ svc'[s].state = "Backoff"
  <2>1. \A t \in Services : svc'[t].pid = sv[t].pid
    BY <1>1, <1>2, <1>5
  <2>2. Owns(svc', proc')
    BY <1>2, <1>5, <2>1 DEF Owns
  <2>3. RunningIffChild(svc') /\ UptimeAgrees'
    BY <1>1, <1>5 DEF RunningIffChild, UptimeAgrees
  <2>4. QED
    BY <1>4, <2>2, <2>3
<1>6. CASE \E p \in Pids : /\ pr[p] = "free"
                           /\ proc' = [pr EXCEPT ![p] = "run"]
                           /\ upRunning' = [up EXCEPT ![s] = TRUE]
                           /\ svc'[s].pid = p /\ svc'[s].state = "Running"
  <2>1. PICK p \in Pids : /\ pr[p] = "free"
                          /\ proc' = [pr EXCEPT ![p] = "run"]
                          /\ upRunning' = [up EXCEPT ![s] = TRUE]
                          /\ svc'[s].pid = p /\ svc'[s].state = "Running"
    BY <1>6
  <2>2. p # NoPid
    BY ConstantsAssumption
  <2>3. \A t \in Services : t # s => sv[t].pid # p
    BY <1>2, <2>1, <2>2 DEF Owns
  <2>4. \A t \in Services : svc'[t].pid = IF t = s THEN p ELSE sv[t].pid
    BY <1>1, <1>2, <2>1
  <2>5. \A q \in Pids : proc'[q] = IF q = p THEN "run" ELSE pr[q]
    BY <2>1
  <2>6. \A t \in Services : sv[t].pid \in Pids \cup {NoPid}
    BY <1>2, <1>3
  <2>7. Owns(svc', proc')
    <3>1. \A t \in Services : svc'[t].pid # NoPid => proc'[svc'[t].pid] # "free"
      BY <1>2, <2>4, <2>5, <2>6 DEF Owns
    <3>2. \A t, u \in Services : svc'[t].pid = svc'[u].pid /\ svc'[t].pid # NoPid => t = u
      BY <1>2, <2>3, <2>4 DEF Owns
    <3>3. \A q \in Pids : proc'[q] # "free" => \E t \in Services : svc'[t].pid = q
      BY <1>2, <2>1, <2>4, <2>5, ConstantsAssumption DEF Owns
    <3>4. QED
      BY <3>1, <3>2, <3>3 DEF Owns
  <2>8. RunningIffChild(svc')
    BY <1>1, <2>1, <2>2 DEF RunningIffChild
  <2>9. UptimeAgrees'
    <3>1. upRunning'[s] = TRUE /\ svc'[s].pid # NoPid
      BY <2>1, <2>2
    <3>2. \A t \in Services : t # s => upRunning'[t] = up[t] /\ svc'[t].pid = svc[t].pid
      BY <1>1, <2>1
    <3>3. QED
      BY <3>1, <3>2, Zenon DEF UptimeAgrees
  <2>10. QED
    BY <1>4, <2>7, <2>8, <2>9
<1>7. QED
  BY <1>1, <1>5, <1>6

\* The same for a service that has no child, on the process table as it is.
LEMMA SpawnWithoutChild ==
  ASSUME TypeOK, ChildInv, NEW s \in Services, svc[s].pid = NoPid,
         NEW r \in ServiceRecord, r.pid = NoPid, r.health = svc[s].health,
         Spawn(s, r, proc, upRunning)
  PROVE  /\ Owns(svc', proc') /\ RunningIffChild(svc')
         /\ UptimeAgrees' /\ HealthOfChild'
<1>1. r.health = "unknown" /\ HealthOfChild /\ RunningIffChild(svc)
  BY DEF ChildInv, HealthOfChild
<1>2. upRunning[s] = FALSE /\ \A t \in Services : upRunning[t] = (svc[t].pid # NoPid)
  BY Zenon DEF ChildInv, UptimeAgrees
<1>3. Owns([svc EXCEPT ![s] = r], proc)
  <2> DEFINE sv == [svc EXCEPT ![s] = r]
  <2>1. \A t \in Services : sv[t].pid = svc[t].pid
    BY DEF TypeOK
  <2> HIDE DEF sv
  <2>2. Owns(sv, proc)
    BY <2>1 DEF ChildInv, Owns
  <2>3. QED
    BY <2>2 DEF sv
<1>4. QED
  BY <1>1, <1>2, <1>3, SpawnKeepsOwnership DEF TypeOK

\* A signal never frees a process table entry, and never uses a free one.
LEMMA SignalledFree ==
  ASSUME NEW S, NEW sig \in {"term", "kill"}, NEW p \in Pids
  PROVE  /\ Signalled(S, sig)[p] = "free" <=> proc[p] = "free"
         /\ Signalled(S, sig)[p] = "zombie" <=> proc[p] = "zombie"
         /\ Signalled(S, sig)[p] = "run" => proc[p] = "run"
BY DEF Signalled, Alive

\* A step that changes neither pids, states nor health verdicts, and neither
\* frees nor allocates a process, keeps the invariant of the children.
LEMMA SamePidsKeepChildren ==
  ASSUME ChildInv, upRunning' = upRunning,
         \A s \in Services : /\ svc'[s].pid = svc[s].pid /\ svc'[s].state = svc[s].state
                             /\ svc'[s].health = svc[s].health,
         \A p \in Pids : proc'[p] = "free" <=> proc[p] = "free",
         \A s \in Services : svc[s].pid \in Pids \cup {NoPid}
  PROVE  /\ Owns(svc', proc') /\ RunningIffChild(svc')
         /\ UptimeAgrees' /\ HealthOfChild'
<1>1. Owns(svc', proc')
  BY DEF ChildInv, Owns
<1>2. RunningIffChild(svc') /\ HealthOfChild'
  BY DEF ChildInv, RunningIffChild, HealthOfChild
<1>3. UptimeAgrees'
  BY Zenon DEF ChildInv, UptimeAgrees
<1>4. QED
  BY <1>1, <1>2, <1>3

\* One turn of the waitpid loop keeps it.
LEMMA ReapKeepsChildren ==
  ASSUME TypeOK, ChildInv, NEW p \in Pids, Reap(p)
  PROVE  /\ Owns(svc', proc') /\ RunningIffChild(svc')
         /\ UptimeAgrees' /\ HealthOfChild'
<1> DEFINE s  == FindByPid(p)
           reaped == [proc EXCEPT ![p] = "free"]
           r  == [svc[s] EXCEPT !.pid = NoPid, !.health = "unknown"]
           up == [upRunning EXCEPT ![s] = FALSE]
           sv == [svc EXCEPT ![s] = r]
<1>1. p # NoPid /\ proc[p] = "zombie"
  BY ConstantsAssumption DEF Reap
<1>2. s \in Services /\ svc[s].pid = p
  <2>1. \E t \in Services : svc[t].pid = p
    BY <1>1 DEF ChildInv, Owns
  <2>2. QED
    BY <2>1, FindByPidOwner
<1>3. HandleExit(s, reaped)
  <2>1. s # 0
    BY <1>2, ConstantsAssumption DEF Services
  <2>2. QED
    BY <2>1 DEF Reap
<1>4. /\ r \in ServiceRecord /\ r.pid = NoPid /\ r.health = "unknown"
      /\ r.wantsRestart = svc[s].wantsRestart /\ r.recent = svc[s].recent
  <2>1. svc[s] \in ServiceRecord
    BY <1>2 DEF TypeOK
  <2>2. QED
    BY <2>1 DEF ServiceRecord
<1>5. /\ reaped \in [Pids -> ProcStates]
      /\ \A q \in Pids : reaped[q] = IF q = p THEN "free" ELSE proc[q]
  BY DEF TypeOK, ProcStates
<1>6. /\ up \in [Services -> BOOLEAN] /\ up[s] = FALSE
      /\ \A t \in Services : t # s => up[t] = upRunning[t]
  BY <1>2 DEF TypeOK
<1>7. \A t \in Services : t # s => up[t] = (svc[t].pid # NoPid)
  BY <1>6, Zenon DEF ChildInv, UptimeAgrees
<1>8. \A t \in Services : sv[t] = IF t = s THEN r ELSE svc[t]
  BY <1>2 DEF TypeOK
<1>9. HandleExit(s, reaped) =>
        \/ svc' = [svc EXCEPT ![s] = [r EXCEPT !.state = "Stopped"]] /\ proc' = reaped /\ upRunning' = up
        \/ Spawn(s, [r EXCEPT !.wantsRestart = FALSE, !.backoff = 0], reaped, up)
        \/ svc' = [svc EXCEPT ![s] = UnexpectedExit(s, r)] /\ proc' = reaped /\ upRunning' = up
  BY DEF HandleExit
<1> HIDE DEF s, reaped, r, up, sv
<1>10. Owns(sv, reaped)
  <2>1. \A t \in Services : svc[t].pid \in Pids \cup {NoPid}
    BY DEF TypeOK, ServiceRecord
  <2>2. \A t \in Services : t # s => svc[t].pid # p
    BY <1>1, <1>2 DEF ChildInv, Owns
  <2>3. \A t \in Services : sv[t].pid = IF t = s THEN NoPid ELSE svc[t].pid
    BY <1>4, <1>8
  <2>4. \A t \in Services : sv[t].pid # NoPid => reaped[sv[t].pid] # "free"
    BY <1>5, <2>1, <2>2, <2>3 DEF ChildInv, Owns
  <2>5. \A t, u \in Services : sv[t].pid = sv[u].pid /\ sv[t].pid # NoPid => t = u
    BY <2>3 DEF ChildInv, Owns
  <2>6. \A q \in Pids : reaped[q] # "free" => \E t \in Services : sv[t].pid = q
    BY <1>2, <1>5, <2>3 DEF ChildInv, Owns
  <2>7. QED
    BY <2>4, <2>5, <2>6 DEF Owns
<1>11. CASE Spawn(s, [r EXCEPT !.wantsRestart = FALSE, !.backoff = 0], reaped, up)
  <2> DEFINE rr == [r EXCEPT !.wantsRestart = FALSE, !.backoff = 0]
  <2>1. rr \in ServiceRecord /\ rr.pid = NoPid /\ rr.health = "unknown"
    BY <1>4 DEF ServiceRecord
  <2>2. Owns([svc EXCEPT ![s] = rr], reaped)
    <3> DEFINE sw == [svc EXCEPT ![s] = rr]
    <3>1. \A t \in Services : sw[t].pid = sv[t].pid
      BY <1>2, <1>4, <1>8, <2>1 DEF TypeOK
    <3> HIDE DEF sw
    <3>2. Owns(sw, reaped)
      BY <1>10, <3>1 DEF Owns
    <3>3. QED
      BY <3>2 DEF sw
  <2> HIDE DEF rr
  <2>3. Spawn(s, rr, reaped, up)
    BY <1>11 DEF rr
  <2>4. RunningIffChild(svc) /\ HealthOfChild
    BY DEF ChildInv
  <2>5. svc \in [Services -> ServiceRecord]
    BY DEF TypeOK
  <2>6. QED
    BY <1>2, <1>5, <1>6, <1>7, <2>1, <2>2, <2>3, <2>4, <2>5, SpawnKeepsOwnership
<1>12. ASSUME NEW q \in ServiceRecord, q.pid = NoPid, q.health = "unknown", q.state # "Running",
              svc' = [svc EXCEPT ![s] = q], proc' = reaped, upRunning' = up
       PROVE  /\ Owns(svc', proc') /\ RunningIffChild(svc')
              /\ UptimeAgrees' /\ HealthOfChild'
  <2>1. \A t \in Services : svc'[t] = IF t = s THEN q ELSE svc[t]
    BY <1>2, <1>12 DEF TypeOK
  <2>2. \A t \in Services : svc'[t].pid = sv[t].pid
    BY <1>4, <1>8, <1>12, <2>1
  <2>3. Owns(svc', proc')
    BY <1>10, <1>12, <2>2 DEF Owns
  <2>4. RunningIffChild(svc') /\ HealthOfChild'
    BY <1>12, <2>1 DEF ChildInv, RunningIffChild, HealthOfChild
  <2>5. UptimeAgrees'
    <3>1. svc'[s].pid = NoPid /\ upRunning'[s] = FALSE
      BY <1>2, <1>6, <1>12, <2>1
    <3>2. \A t \in Services : t # s => svc'[t].pid = svc[t].pid /\ upRunning'[t] = up[t]
      BY <1>12, <2>1
    <3>3. QED
      BY <1>7, <3>1, <3>2, Zenon DEF UptimeAgrees
  <2>6. QED
    BY <2>3, <2>4, <2>5
<1>13. CASE svc' = [svc EXCEPT ![s] = [r EXCEPT !.state = "Stopped"]] /\ proc' = reaped /\ upRunning' = up
  <2>1. /\ [r EXCEPT !.state = "Stopped"] \in ServiceRecord
        /\ [r EXCEPT !.state = "Stopped"].pid = NoPid
        /\ [r EXCEPT !.state = "Stopped"].health = "unknown"
        /\ [r EXCEPT !.state = "Stopped"].state # "Running"
    BY <1>4 DEF ServiceRecord, ServiceStates
  <2>2. QED
    BY <1>12, <1>13, <2>1
<1>14. CASE svc' = [svc EXCEPT ![s] = UnexpectedExit(s, r)] /\ proc' = reaped /\ upRunning' = up
  <2>1. /\ UnexpectedExit(s, r) \in ServiceRecord
        /\ UnexpectedExit(s, r).pid = NoPid
        /\ UnexpectedExit(s, r).health = "unknown"
        /\ UnexpectedExit(s, r).state # "Running"
    BY <1>2, <1>4, UnexpectedExitType
  <2>2. QED
    BY <1>12, <1>14, <2>1
<1>15. QED
  BY <1>3, <1>9, <1>11, <1>13, <1>14

\* Every step keeps the invariant of the children.
LEMMA ChildStep ==
  ASSUME TypeOK, TypeOK', ChildInv, [Next]_vars
  PROVE  ChildInv'
<1> DEFINE Kept == /\ Owns(svc', proc') /\ RunningIffChild(svc')
                   /\ UptimeAgrees' /\ HealthOfChild'
<1>1. \A s \in Services : svc[s] \in ServiceRecord /\ svc[s].pid \in Pids \cup {NoPid}
  BY DEF TypeOK, ServiceRecord
<1>2. CASE UNCHANGED <<svc, proc, upRunning>> /\ (pc' = "launch" => pc = "launch" /\ at' = at)
  <2>1. Kept
    BY <1>1, <1>2, SamePidsKeepChildren
  <2>2. NotLaunchedYet'
    BY <1>2 DEF ChildInv, NotLaunchedYet
  <2>3. QED
    BY <2>1, <2>2 DEF ChildInv
<1>3. CASE Launch
  <2>1. at \in Services /\ svc[at].state = "Stopped" /\ Spawn(at, svc[at], proc, upRunning)
    BY <1>3 DEF Launch, ChildInv, NotLaunchedYet, Services
  <2>2. svc[at].pid = NoPid
    BY <2>1 DEF ChildInv, RunningIffChild
  <2>3. Kept
    BY <1>1, <2>1, <2>2, SpawnWithoutChild
  <2>4. \A t \in Services : t # at => svc'[t] = svc[t]
    BY <1>1, <2>1, <2>2, SpawnEffect DEF TypeOK
  <2>5. NotLaunchedYet'
    BY <1>3, <2>1, <2>4 DEF ChildInv, NotLaunchedYet, Launch, Services
  <2>6. QED
    BY <2>3, <2>5 DEF ChildInv
<1>4. CASE TickSpawn /\ svc[at].state = "Backoff" /\ at \in dueBy
  <2>1. at \in Services /\ Spawn(at, svc[at], proc, upRunning) /\ pc' # "launch"
    BY <1>4 DEF TickSpawn
  <2>2. svc[at].pid = NoPid
    BY <1>4, <2>1 DEF ChildInv, RunningIffChild
  <2>3. Kept
    BY <1>1, <2>1, <2>2, SpawnWithoutChild
  <2>4. QED
    BY <2>1, <2>3 DEF ChildInv, NotLaunchedYet
<1>5. CASE RunRestart
  <2> DEFINE s == Head(local)
             r == [svc[s] EXCEPT !.recent = <<>>]
  <2>1. s \in Services /\ pc' # "launch"
    BY <1>5 DEF RunRestart, Task, Shutdown, TypeOK, loopVars
  <2>2. /\ r \in ServiceRecord /\ r.pid = svc[s].pid
        /\ r.health = svc[s].health /\ r.state = svc[s].state
    <3>1. <<>> \in Seq(0..(kFailureWindow + 1))
      OBVIOUS
    <3>2. QED
      BY <1>1, <2>1, <3>1 DEF ServiceRecord
  <2>3. \/ /\ svc' = [svc EXCEPT ![s] = [r EXCEPT !.wantsRestart = TRUE]]
           /\ proc' = Signalled({s}, "term") /\ upRunning' = upRunning
        \/ /\ r.pid = NoPid
           /\ Spawn(s, [r EXCEPT !.backoff = 0, !.wantsRestart = FALSE], proc, upRunning)
    BY <1>5 DEF RunRestart, DoRestart
  <2> HIDE DEF s, r
  <2>4. CASE /\ r.pid = NoPid
             /\ Spawn(s, [r EXCEPT !.backoff = 0, !.wantsRestart = FALSE], proc, upRunning)
    <3> DEFINE rr == [r EXCEPT !.backoff = 0, !.wantsRestart = FALSE]
    <3>1. rr \in ServiceRecord /\ rr.pid = NoPid /\ rr.health = svc[s].health
      BY <2>2, <2>4 DEF ServiceRecord
    <3>2. QED
      BY <2>1, <2>2, <2>4, <3>1, SpawnWithoutChild DEF ChildInv, NotLaunchedYet
  <2>5. CASE /\ svc' = [svc EXCEPT ![s] = [r EXCEPT !.wantsRestart = TRUE]]
             /\ proc' = Signalled({s}, "term") /\ upRunning' = upRunning
    <3> DEFINE rr == [r EXCEPT !.wantsRestart = TRUE]
    <3>1. rr.pid = svc[s].pid /\ rr.health = svc[s].health /\ rr.state = svc[s].state
      BY <2>2 DEF ServiceRecord
    <3>2. \A t \in Services : svc'[t] = IF t = s THEN rr ELSE svc[t]
      BY <2>1, <2>5 DEF TypeOK
    <3> HIDE DEF rr
    <3>3. \A t \in Services : /\ svc'[t].pid = svc[t].pid /\ svc'[t].state = svc[t].state
                              /\ svc'[t].health = svc[t].health
      BY <3>1, <3>2
    <3>4. \A p \in Pids : proc'[p] = "free" <=> proc[p] = "free"
      BY <2>5, SignalledFree
    <3>5. Kept
      BY <1>1, <2>5, <3>3, <3>4, SamePidsKeepChildren
    <3>6. QED
      BY <2>1, <3>5 DEF ChildInv, NotLaunchedYet
  <2>6. QED
    BY <2>3, <2>4, <2>5
<1>6. CASE BeginShutdown
  <2>1. pc' # "launch" /\ upRunning' = upRunning /\ proc' = Signalled(Services, "term")
    BY <1>6 DEF BeginShutdown
  <2>2. \A t \in Services : svc'[t] = IF svc[t].pid # NoPid THEN svc[t]
                                      ELSE [svc[t] EXCEPT !.state = "Stopped"]
    BY <1>6 DEF BeginShutdown
  <2>3. \A t \in Services : /\ svc'[t].pid = svc[t].pid /\ svc'[t].health = svc[t].health
                            /\ svc[t].pid # NoPid => svc'[t].state = svc[t].state
                            /\ svc[t].pid = NoPid => svc'[t].state = "Stopped"
    BY <1>1, <2>2 DEF ServiceRecord
  <2>4. \A p \in Pids : proc'[p] = "free" <=> proc[p] = "free"
    BY <2>1, SignalledFree
  <2>5. Owns(svc', proc')
    BY <1>1, <2>3, <2>4 DEF ChildInv, Owns
  <2>6. RunningIffChild(svc') /\ HealthOfChild'
    BY <2>3 DEF ChildInv, RunningIffChild, HealthOfChild
  <2>7. UptimeAgrees'
    BY <2>1, <2>3, Zenon DEF ChildInv, UptimeAgrees
  <2>8. QED
    BY <2>1, <2>5, <2>6, <2>7 DEF ChildInv, NotLaunchedYet
<1>7. CASE \E p \in Pids : Reap(p)
  <2>1. PICK p \in Pids : Reap(p)
    BY <1>7
  <2>2. pc' # "launch"
    BY <2>1 DEF Reap, loopVars
  <2>3. QED
    BY <2>1, <2>2, ReapKeepsChildren DEF ChildInv, NotLaunchedYet
<1>8. CASE TickShutdown
  <2>1. pc' # "launch" /\ UNCHANGED <<svc, upRunning>>
    BY <1>8 DEF TickShutdown
  <2>2. \A p \in Pids : proc'[p] = "free" <=> proc[p] = "free"
    BY <1>8, SignalledFree DEF TickShutdown
  <2>3. QED
    BY <1>1, <2>1, <2>2, SamePidsKeepChildren DEF ChildInv, NotLaunchedYet
<1>9. CASE TickProbe
  <2>1. at \in Services /\ pc' # "launch" /\ UNCHANGED <<upRunning, proc>>
    BY <1>9 DEF TickProbe, TypeOK, procVars
  <2>2. \/ svc' = svc
        \/ /\ svc[at].pid # NoPid
           /\ \E h \in {"up", "down"} :
                svc' = [svc EXCEPT ![at].health = h, ![at].sinceHealth = lag]
    BY <1>9 DEF TickProbe
  <2>3. \A t \in Services : /\ svc'[t].pid = svc[t].pid /\ svc'[t].state = svc[t].state
                            /\ svc'[t].health # svc[t].health => svc[t].pid # NoPid
    <3>1. CASE svc' = svc
      BY <3>1
    <3>2. CASE svc[at].pid # NoPid /\ svc' # svc
      <4>1. PICK h \in {"up", "down"} :
              svc' = [svc EXCEPT ![at].health = h, ![at].sinceHealth = lag]
        BY <2>2, <3>2
      <4>2. svc'[at] = [svc[at] EXCEPT !.health = h, !.sinceHealth = lag]
        BY <2>1, <4>1 DEF TypeOK
      <4>3. svc'[at].pid = svc[at].pid /\ svc'[at].state = svc[at].state
        BY <1>1, <2>1, <4>2 DEF ServiceRecord
      <4>4. \A t \in Services : t # at => svc'[t] = svc[t]
        BY <4>1 DEF TypeOK
      <4>5. QED
        BY <3>2, <4>3, <4>4
    <3>3. QED
      BY <2>2, <3>1, <3>2
  <2>4. Owns(svc', proc')
    BY <1>1, <2>1, <2>3 DEF ChildInv, Owns
  <2>5. RunningIffChild(svc') /\ HealthOfChild'
    BY <2>3 DEF ChildInv, RunningIffChild, HealthOfChild
  <2>6. UptimeAgrees'
    BY <2>1, <2>3, Zenon DEF ChildInv, UptimeAgrees
  <2>7. QED
    BY <2>1, <2>4, <2>5, <2>6 DEF ChildInv, NotLaunchedYet
<1>10. CASE \E p \in Pids : ChildExits(p)
  <2>1. PICK p \in Pids : ChildExits(p)
    BY <1>10
  <2>2. UNCHANGED <<svc, upRunning, pc, at>>
    BY <2>1 DEF ChildExits, loopVars, tickVars
  <2>3. \A q \in Pids : proc'[q] = "free" <=> proc[q] = "free"
    BY <2>1 DEF ChildExits, Alive, TypeOK
  <2>4. Kept
    BY <1>1, <2>2, <2>3, SamePidsKeepChildren
  <2>5. NotLaunchedYet'
    BY <2>2 DEF ChildInv, NotLaunchedYet
  <2>6. QED
    BY <2>4, <2>5 DEF ChildInv
<1>11. CASE TimePasses
  <2>1. /\ UNCHANGED <<proc, upRunning, pc, at>>
        /\ \A t \in Services : svc'[t] = Aged(svc[t])
    BY <1>11 DEF TimePasses, loopVars, procVars
  <2>2. \A t \in Services : /\ svc'[t].pid = svc[t].pid /\ svc'[t].state = svc[t].state
                            /\ svc'[t].health = svc[t].health
                            /\ Len(svc'[t].recent) = Len(svc[t].recent)
    BY <1>1, <2>1, AgedType
  <2>3. Kept
    BY <1>1, <2>1, <2>2, SamePidsKeepChildren
  <2>4. \A t \in Services : svc[t].recent = <<>> => svc'[t].recent = <<>>
    <3>1. \A t \in Services : svc'[t].recent \in Seq(0..(kFailureWindow + 1))
      BY DEF TypeOK, ServiceRecord
    <3>2. QED
      BY <2>2, <3>1, EmptySeq
  <2>5. NotLaunchedYet'
    BY <2>1, <2>2, <2>4 DEF ChildInv, NotLaunchedYet
  <2>6. QED
    BY <2>3, <2>5 DEF ChildInv
<1>12. CASE TickSpawn /\ ~(svc[at].state = "Backoff" /\ at \in dueBy)
  <2>1. UNCHANGED <<svc, proc, upRunning>> /\ pc' # "launch"
    BY <1>12 DEF TickSpawn
  <2>2. QED
    BY <1>2, <2>1
<1>13. CASE \/ Started \/ EpollWait \/ BatchDone \/ LoopExit \/ DrainWakeup \/ SwapTasks
            \/ TasksDone \/ DrainSignal \/ ReapDone \/ TickBegin \/ TickEnd
            \/ (\E s \in Services : PostRestart(s)) \/ Ring \/ ControlStop \/ SupervisorStop
            \/ Finished \/ UNCHANGED vars
  <2>1. /\ UNCHANGED <<svc, proc, upRunning>>
        /\ pc' = "launch" => pc = "launch" /\ at' = at
    BY <1>13 DEF Started, EpollWait, BatchDone, LoopExit, DrainWakeup, SwapTasks, TasksDone,
       DrainSignal, ReapDone, TickBegin, TickEnd, PostRestart, Ring, ControlStop,
       SupervisorStop, Finished, vars, procVars, loopVars, tickVars
  <2>2. QED
    BY <1>2, <2>1
<1>14. QED
  BY <1>3, <1>4, <1>5, <1>6, <1>7, <1>8, <1>9, <1>10, <1>11, <1>12, <1>13 DEF Next, LoopStep

-----------------------------------------------------------------------------
(* Shutdown.                                                               *)

\* A launch can only happen while castle is not shutting down and the loop has
\* not been stopped; it then keeps the invariant of the shutdown.
LEMMA NotStopping ==
  ASSUME StopInv, ~shuttingDown
  PROVE  running /\ pc # "exited"
BY DEF StopInv, StopDrained

\* Every step keeps the invariant of the shutdown.
LEMMA StopStep ==
  ASSUME TypeOK, TypeOK', ChildInv, StopInv, [Next]_vars
  PROVE  StopInv'
<1> USE DEF procVars, loopVars, tickVars, postVars, stopVars
<1>1. CASE /\ ~shuttingDown /\ ~shuttingDown' /\ running' = running /\ UNCHANGED <<tasks, local, main>>
           /\ pc' = pc \/ (pc = "tick" /\ pc' = "probe")
  BY <1>1, NotStopping DEF StopInv, ShutdownLast, StopDrained, ShutdownSignalsAll
<1>2. CASE Launch
  <2>1. ~shuttingDown
    BY <1>2 DEF Launch, StopInv, ShutdownLast
  <2>2. QED
    <3>1. UNCHANGED <<shuttingDown, running, tasks, local, main, pc>>
      BY <1>2 DEF Launch
    <3>2. QED
      BY <1>1, <2>1, <3>1
<1>3. CASE TickSpawn
  <2>1. ~shuttingDown
    BY <1>3 DEF TickSpawn, StopInv, StopDrained
  <2>2. QED
    BY <1>1, <1>3, <2>1 DEF TickSpawn
<1>4. CASE RunRestart
  <2>1. ~shuttingDown /\ running /\ pc' = "tasks"
    BY <1>4, NotStopping DEF RunRestart, StopInv, ShutdownLast
  <2>2. /\ local \in Seq(Task) /\ local # <<>> /\ local' = Tail(local)
        /\ UNCHANGED <<tasks, main, running, shuttingDown>>
    BY <1>4 DEF RunRestart, TypeOK
  <2>3. /\ Len(local') = Len(local) - 1 /\ Len(local) \in Nat
        /\ \A i \in 1..Len(local') : local'[i] = local[i + 1]
    BY <2>2
  <2>4. ShutdownLast'
    <3>1. \A i \in 1..Len(local') : i + 1 \in 1..Len(local) /\ local'[i] = local[i + 1]
      BY <2>3
    <3>2. \A i \in 1..Len(local') : local'[i] = Shutdown => i = Len(local') /\ tasks' = <<>>
      <4>1. SUFFICES ASSUME NEW i \in 1..Len(local'), local'[i] = Shutdown
                     PROVE  i = Len(local') /\ tasks' = <<>>
        OBVIOUS
      <4>2. i + 1 = Len(local) /\ tasks = <<>>
        BY <3>1, <4>1 DEF StopInv, ShutdownLast
      <4>3. i = Len(local')
        BY <2>3, <4>1, <4>2
      <4>4. tasks' = <<>>
        BY <2>2, <4>2
      <4>5. QED
        BY <4>3, <4>4
    <3>3. main' # "joining" => \A i \in 1..Len(local') : local'[i] # Shutdown
      BY <2>2, <3>1 DEF StopInv, ShutdownLast
    <3>4. ~shuttingDown' /\ pc' = "tasks" /\ main' # "starting"
      BY <1>4, <2>1, <2>2 DEF RunRestart, StopInv, ShutdownLast
    <3>5. QED
      BY <2>2, <3>2, <3>3, <3>4 DEF StopInv, ShutdownLast
  <2>5. StopDrained' /\ ShutdownSignalsAll'
    BY <2>1, <2>2 DEF StopDrained, ShutdownSignalsAll
  <2>6. QED
    BY <2>4, <2>5 DEF StopInv
<1>5. CASE BeginShutdown
  <2>1. /\ local \in Seq(Task) /\ local # <<>> /\ local[1] = Shutdown /\ pc = "tasks" /\ pc' = "tasks"
        /\ UNCHANGED <<tasks, main>> /\ shuttingDown' = TRUE /\ local' = Tail(local)
    BY <1>5 DEF BeginShutdown, TypeOK
  <2>2. Len(local) = 1 /\ tasks = <<>> /\ main = "joining"
    BY <2>1 DEF StopInv, ShutdownLast
  <2>3. local' = <<>>
    BY <2>1, <2>2
  <2>4. ShutdownLast'
    <3>1. /\ pc' = "tasks" /\ main' = "joining" /\ local' = <<>> /\ tasks' = <<>>
          /\ Len(local') = 0 /\ Len(tasks') = 0
      BY <2>1, <2>2, <2>3
    <3>2. QED
      BY <3>1 DEF ShutdownLast
  <2>5. ~shuttingDown
    BY <2>1 DEF StopInv, ShutdownLast
  <2>6. \A s \in Services : svc'[s].pid = svc[s].pid
    <3>1. \A s \in Services : svc[s] \in ServiceRecord
      BY DEF TypeOK
    <3>2. QED
      BY <1>5, <3>1 DEF BeginShutdown, ServiceRecord
  <2>7. StopDrained'
    BY <1>5, <2>1, <2>5, <2>6, NotStopping DEF BeginShutdown, FinishIfDrained, Drained, StopDrained
  <2>8. ShutdownSignalsAll'
    <3>1. SUFFICES ASSUME NEW p \in Pids, proc'[p] = "run" PROVE FALSE
      BY DEF ShutdownSignalsAll
    <3>2. proc' = Signalled(Services, "term")
      BY <1>5 DEF BeginShutdown
    <3>3. proc[p] = "run"
      BY <3>1, <3>2, SignalledFree
    <3>4. \E s \in Services : svc[s].pid = p
      BY <3>3 DEF ChildInv, Owns
    <3>5. proc'[p] = "term"
      BY <3>2, <3>3, <3>4 DEF Signalled, Alive
    <3>6. QED
      BY <3>1, <3>5
  <2>9. QED
    BY <2>4, <2>7, <2>8 DEF StopInv
<1>6. CASE \E p \in Pids : Reap(p)
  <2>1. PICK p \in Pids : Reap(p)
    BY <1>6
  <2>2. UNCHANGED <<tasks, local, main, running, pc, shuttingDown>> /\ pc = "reap" /\ proc[p] = "zombie"
    BY <2>1 DEF Reap
  <2>3. running
    <3>1. \E s \in Services : svc[s].pid = p
      BY <2>2 DEF ChildInv, Owns
    <3>2. ~Drained
      BY <3>1, ConstantsAssumption DEF Drained
    <3>3. QED
      BY <3>2 DEF StopInv, StopDrained
  <2>4. shuttingDown => \A q \in Pids : proc'[q] # "run"
    <3>1. SUFFICES ASSUME shuttingDown PROVE \A q \in Pids : proc'[q] # "run"
      OBVIOUS
    <3>2. proc' = [proc EXCEPT ![p] = "free"]
      BY <2>1, <3>1 DEF Reap, HandleExit
    <3>3. QED
      BY <3>1, <3>2 DEF StopInv, ShutdownSignalsAll, TypeOK
  <2>5. QED
    BY <2>2, <2>3, <2>4 DEF StopInv, ShutdownLast, StopDrained, ShutdownSignalsAll
<1>7. CASE ReapDone \/ TickShutdown
  <2>1. /\ UNCHANGED <<svc, tasks, local, main, shuttingDown>>
        /\ pc \in {"reap", "dispatch"} /\ pc' = "dispatch"
        /\ \/ UNCHANGED running
           \/ shuttingDown /\ running' = (running /\ ~Drained)
    BY <1>7 DEF ReapDone, TickShutdown, FinishIfDrained
  <2>2. \A p \in Pids : proc'[p] = "run" => proc[p] = "run"
    BY <1>7, SignalledFree DEF ReapDone, TickShutdown
  <2>3. ShutdownLast' /\ ShutdownSignalsAll'
    BY <2>1, <2>2 DEF StopInv, ShutdownLast, ShutdownSignalsAll
  <2>4. StopDrained'
    BY <2>1 DEF StopInv, StopDrained, Drained, TypeOK
  <2>5. QED
    BY <2>3, <2>4 DEF StopInv
<1>8. CASE SwapTasks
  <2>1. /\ local = <<>> /\ local' = tasks /\ tasks' = <<>> /\ pc' = "tasks" /\ pc = "swap"
        /\ UNCHANGED <<svc, proc, main, shuttingDown, running>>
    BY <1>8 DEF SwapTasks, StopInv, ShutdownLast
  <2>2. ShutdownLast'
    BY <2>1 DEF StopInv, ShutdownLast
  <2>3. StopDrained' /\ ShutdownSignalsAll'
    BY <2>1 DEF StopInv, StopDrained, ShutdownSignalsAll, Drained
  <2>4. QED
    BY <2>2, <2>3 DEF StopInv
<1>9. CASE \E s \in Services : PostRestart(s)
  <2>1. PICK s \in Services : PostRestart(s)
    BY <1>9
  <2>2. /\ tasks \in Seq(Task) /\ tasks' = Append(tasks, s) /\ s # Shutdown /\ main = "serving"
        /\ UNCHANGED <<svc, proc, local, main, shuttingDown, running, pc>>
    BY <2>1, ConstantsAssumption DEF PostRestart, TypeOK, Services, Shutdown
  <2>3. /\ Len(tasks') = Len(tasks) + 1 /\ Len(tasks) \in Nat
        /\ \A i \in 1..Len(tasks') : tasks'[i] = IF i = Len(tasks') THEN s ELSE tasks[i]
    BY <2>2
  <2>4. ShutdownLast'
    BY <2>2, <2>3 DEF StopInv, ShutdownLast
  <2>5. StopDrained' /\ ShutdownSignalsAll'
    BY <2>2 DEF StopInv, StopDrained, ShutdownSignalsAll, Drained
  <2>6. QED
    BY <2>4, <2>5 DEF StopInv
<1>10. CASE SupervisorStop
  <2>1. /\ tasks \in Seq(Task) /\ tasks' = Append(tasks, Shutdown)
        /\ main = "controlStopped" /\ main' = "joining"
        /\ UNCHANGED <<svc, proc, local, shuttingDown, running, pc>>
    BY <1>10 DEF SupervisorStop, TypeOK
  <2>2. /\ Len(tasks') = Len(tasks) + 1 /\ Len(tasks) \in Nat
        /\ \A i \in 1..Len(tasks') : tasks'[i] = IF i = Len(tasks') THEN Shutdown ELSE tasks[i]
    BY <2>1
  <2>3. ShutdownLast'
    BY <2>1, <2>2 DEF StopInv, ShutdownLast
  <2>4. StopDrained' /\ ShutdownSignalsAll'
    BY <2>1 DEF StopInv, StopDrained, ShutdownSignalsAll, Drained
  <2>5. QED
    BY <2>3, <2>4 DEF StopInv
<1>11. CASE \E p \in Pids : ChildExits(p)
  <2>1. PICK p \in Pids : ChildExits(p)
    BY <1>11
  <2>2. /\ UNCHANGED <<svc, tasks, local, main, shuttingDown, running, pc>>
        /\ \A q \in Pids : proc'[q] = "run" => proc[q] = "run"
    BY <2>1 DEF ChildExits, TypeOK
  <2>3. QED
    BY <2>2 DEF StopInv, ShutdownLast, StopDrained, ShutdownSignalsAll, Drained
<1>12. CASE TimePasses \/ TickProbe
  <2>1. UNCHANGED <<tasks, local, main, shuttingDown, running, proc>>
    BY <1>12 DEF TimePasses, TickProbe
  <2>2. pc' = pc \/ (pc = "probe" /\ pc' = "tick")
    BY <1>12 DEF TimePasses, TickProbe
  <2>3. Drained => Drained'
    <3>1. CASE TimePasses
      BY <3>1, AgedType DEF TimePasses, Drained, TypeOK
    <3>2. CASE TickProbe
      BY <3>2 DEF TickProbe, Drained, TypeOK
    <3>3. QED
      BY <1>12, <3>1, <3>2
  <2>4. QED
    BY <2>1, <2>2, <2>3 DEF StopInv, ShutdownLast, StopDrained, ShutdownSignalsAll
<1>13. CASE \/ Started \/ EpollWait \/ BatchDone \/ LoopExit \/ DrainWakeup
            \/ TasksDone \/ DrainSignal \/ TickBegin \/ TickEnd
            \/ Ring \/ ControlStop \/ Finished \/ UNCHANGED vars
  <2>1. UNCHANGED <<svc, proc, tasks, local, shuttingDown, running>>
    BY <1>13 DEF Started, EpollWait, BatchDone, LoopExit, DrainWakeup, TasksDone,
       DrainSignal, TickBegin, TickEnd, Ring, ControlStop, Finished, vars
  <2>2. ShutdownSignalsAll' /\ (Drained => Drained')
    BY <2>1 DEF StopInv, ShutdownSignalsAll, Drained
  <2>3. StopDrained'
    BY <1>13, <2>1, <2>2 DEF StopInv, StopDrained, Started, EpollWait, BatchDone, LoopExit,
       DrainWakeup, TasksDone, DrainSignal, TickBegin, TickEnd, Ring, ControlStop, Finished, vars
  <2>4. ShutdownLast'
    <3>1. /\ (pc' = "launch") <=> (main' = "starting")
          /\ local # <<>> => pc' = "tasks"
          /\ main' = "joining" <=> main = "joining"
      BY <1>13 DEF StopInv, ShutdownLast, Started, EpollWait, BatchDone, LoopExit,
         DrainWakeup, TasksDone, DrainSignal, TickBegin, TickEnd, Ring, ControlStop, Finished, vars
    <3>2. QED
      BY <2>1, <3>1 DEF StopInv, ShutdownLast
  <2>5. QED
    BY <2>2, <2>3, <2>4 DEF StopInv
<1>14. QED
  BY <1>2, <1>3, <1>4, <1>5, <1>6, <1>7, <1>8, <1>9, <1>10, <1>11, <1>12, <1>13 DEF Next, LoopStep

-----------------------------------------------------------------------------
(* Nothing is lost between the kernel, the poster and the loop.            *)

\* Every step keeps an unreaped exit announced and a queued task announced.
LEMMA NothingLostStep ==
  ASSUME TypeOK, TypeOK', NoLostExit, NoLostTask, [Next]_vars
  PROVE  NoLostExit' /\ NoLostTask'
<1> USE DEF procVars, loopVars, tickVars, postVars, stopVars
<1>1. NoLostTask'
  BY DEF NoLostTask, TypeOK, Next, LoopStep, Launch, Started, EpollWait, BatchDone, LoopExit,
     DrainWakeup, SwapTasks, TasksDone, RunRestart, BeginShutdown, DrainSignal, Reap, ReapDone,
     TickBegin, TickShutdown, TickSpawn, TickProbe, TickEnd, PostRestart, Ring, ControlStop,
     SupervisorStop, ChildExits, TimePasses, Finished, FinishIfDrained, vars
<1>2. CASE \E p \in Pids : ChildExits(p)
  BY <1>1, <1>2 DEF NoLostExit, ChildExits
<1>3. CASE ReapDone \/ DrainSignal \/ (\E p \in Pids : Reap(p))
  BY <1>1, <1>3 DEF NoLostExit, ReapDone, DrainSignal, Reap
<1>4. CASE /\ UNCHANGED sigPending /\ (pc = "reap" => pc' = "reap")
           /\ \A p \in Pids : proc'[p] = "zombie" => proc[p] = "zombie"
  BY <1>1, <1>4 DEF NoLostExit
<1>5. ASSUME NEW s, NEW r, Spawn(s, r, proc, upRunning)
      PROVE  \A p \in Pids : proc'[p] = "zombie" => proc[p] = "zombie"
  BY <1>5 DEF Spawn, TypeOK
<1>6. CASE Launch \/ TickSpawn
  <2>1. \A p \in Pids : proc'[p] = "zombie" => proc[p] = "zombie"
    BY <1>5, <1>6 DEF Launch, TickSpawn
  <2>2. QED
    BY <1>4, <1>6, <2>1 DEF Launch, TickSpawn
<1>7. CASE RunRestart
  <2>1. \A p \in Pids : proc'[p] = "zombie" => proc[p] = "zombie"
    BY <1>5, <1>7, SignalledFree DEF RunRestart, DoRestart
  <2>2. QED
    BY <1>4, <1>7, <2>1 DEF RunRestart
<1>8. CASE BeginShutdown \/ TickShutdown
  <2>1. \A p \in Pids : proc'[p] = "zombie" => proc[p] = "zombie"
    BY <1>8, SignalledFree DEF BeginShutdown, TickShutdown
  <2>2. QED
    BY <1>4, <1>8, <2>1 DEF BeginShutdown, TickShutdown
<1>9. CASE \/ Started \/ EpollWait \/ BatchDone \/ LoopExit \/ DrainWakeup \/ SwapTasks
           \/ TasksDone \/ TickBegin \/ TickProbe \/ TickEnd
           \/ (\E s \in Services : PostRestart(s)) \/ Ring \/ ControlStop \/ SupervisorStop
           \/ TimePasses \/ Finished \/ UNCHANGED vars
  BY <1>4, <1>9 DEF Started, EpollWait, BatchDone, LoopExit, DrainWakeup, SwapTasks,
     TasksDone, TickBegin, TickProbe, TickEnd, PostRestart, Ring, ControlStop,
     SupervisorStop, TimePasses, Finished, vars
<1>10. QED
  BY <1>2, <1>3, <1>6, <1>7, <1>8, <1>9 DEF Next, LoopStep

-----------------------------------------------------------------------------
(* The theorems.                                                           *)

\* The inductive invariant: types, children, shutdown, and nothing lost.
SafetyInv == TypeOK /\ ChildInv /\ StopInv /\ NoLostExit /\ NoLostTask

\* It holds when start() begins.
LEMMA SafetyInvInit == Init => SafetyInv
<1>1. SUFFICES ASSUME Init PROVE SafetyInv
  OBVIOUS
<1>2. TypeOK
  BY <1>1, InitType
<1>3. \A s \in Services : /\ svc[s].pid = NoPid /\ svc[s].state = "Stopped"
                          /\ svc[s].recent = <<>> /\ svc[s].health = "unknown"
  BY <1>1 DEF Init, FreshService
<1>4. ChildInv
  <2>1. Owns(svc, proc) /\ RunningIffChild(svc) /\ NotLaunchedYet /\ HealthOfChild
    BY <1>1, <1>3 DEF Init, Owns, RunningIffChild, NotLaunchedYet, HealthOfChild
  <2>2. UptimeAgrees
    BY <1>1, <1>3 DEF Init, UptimeAgrees
  <2>3. QED
    BY <2>1, <2>2 DEF ChildInv
<1>5. StopInv
  BY <1>1 DEF Init, StopInv, ShutdownLast, StopDrained, ShutdownSignalsAll
<1>6. NoLostExit /\ NoLostTask
  BY <1>1 DEF Init, NoLostExit, NoLostTask
<1>7. QED
  BY <1>2, <1>4, <1>5, <1>6 DEF SafetyInv

\* No step of any thread or of the kernel breaks it.
LEMMA SafetyInvStep == SafetyInv /\ [Next]_vars => SafetyInv'
BY TypeStep, ChildStep, StopStep, NothingLostStep DEF SafetyInv

\* So it holds in every reachable state.
LEMMA SafetyInvHolds == Spec => []SafetyInv
BY SafetyInvInit, SafetyInvStep, PTL DEF Spec

\* Every child that is not reaped belongs to exactly one service and every pid a
\* service holds is an unreaped child, in every reachable state: what spawn,
\* on_sigchld, do_restart, on_tick and begin_shutdown rely on when they kill.
\* Exactly the services in state Running hold one, failed forks included.
THEOREM ChildrenOwned == Spec => []OneOwnerPerChild
<1>1. SafetyInv => OneOwnerPerChild
  <2>1. \A p \in Pids : p # NoPid
    BY ConstantsAssumption
  <2>2. QED
    BY <2>1 DEF SafetyInv, ChildInv, Owns, RunningIffChild, OneOwnerPerChild
<1>2. QED
  BY <1>1, SafetyInvHolds, PTL

\* No exit of a child and no posted task is ever left unannounced to the loop.
THEOREM NothingLost == Spec => [](NoLostExit /\ NoLostTask)
<1>1. SafetyInv => NoLostExit /\ NoLostTask
  BY DEF SafetyInv
<1>2. QED
  BY <1>1, SafetyInvHolds, PTL

\* The uptime snapshot and the health verdict follow the child.
THEOREM ReportsFollowChild == Spec => [](UptimeAgrees /\ HealthOfChild)
<1>1. SafetyInv => UptimeAgrees /\ HealthOfChild
  BY DEF SafetyInv, ChildInv
<1>2. QED
  BY <1>1, SafetyInvHolds, PTL

\* During shutdown every child has been signalled, and the supervisor's thread
\* ends only when every child has been reaped.
THEOREM CleanShutdown == Spec => [](ShutdownSignalsAll /\ NoOrphans)
<1>1. SafetyInv => ShutdownSignalsAll /\ NoOrphans
  <2>1. SUFFICES ASSUME SafetyInv, pc = "exited", NEW p \in Pids, proc[p] # "free"
                 PROVE  FALSE
    BY DEF SafetyInv, StopInv, NoOrphans
  <2>2. Drained
    BY <2>1 DEF SafetyInv, StopInv, StopDrained
  <2>3. PICK s \in Services : svc[s].pid = p
    BY <2>1 DEF SafetyInv, ChildInv, Owns
  <2>4. QED
    BY <2>2, <2>3, ConstantsAssumption DEF Drained
<1>2. QED
  BY <1>1, SafetyInvHolds, PTL

-----------------------------------------------------------------------------
(* The circuit breaker.                                                    *)

\* Pruning keeps the newest failure and leaves the oldest one in the window,
\* provided the newest is in it.
LEMMA PruneWindow ==
  ASSUME NEW q \in Seq(0..(kFailureWindow + 1)), Len(q) >= 1, q[Len(q)] <= kFailureWindow
  PROVE  LET z == PruneFailures(q) IN
         Len(z) >= 1 /\ z[1] <= kFailureWindow /\ z[Len(z)] = q[Len(q)]
<1> DEFINE T == {i \in 1..Len(q) : q[i] <= kFailureWindow}
           E == {i \in DOMAIN q : \A j \in 1..i : q[j] > kFailureWindow}
<1>1. Len(q) \in Nat /\ DOMAIN q = 1..Len(q) /\ \A i \in 1..Len(q) : q[i] \in Int
  BY LenProperties, ConstantsAssumption
<1>2. T \subseteq Nat /\ T # {}
  BY <1>1
<1>3. PICK m \in T : \A i \in T : m <= i
  BY <1>2, LeastElement
<1>4. m \in 1..Len(q) /\ q[m] <= kFailureWindow /\ m \in Nat
  BY <1>1
<1>5. E = 1..(m - 1)
  <2>1. \A i \in 1..(m - 1) : i \in 1..Len(q) /\ q[i] > kFailureWindow
    <3>1. \A i \in 1..(m - 1) : i \in 1..Len(q) /\ i \notin T
      BY <1>1, <1>3, <1>4
    <3>2. QED
      BY <1>1, <3>1, ConstantsAssumption
  <2>2. \A i \in 1..(m - 1) : i \in E
    <3>1. TAKE i \in 1..(m - 1)
    <3>2. \A j \in 1..i : j \in 1..(m - 1)
      BY <1>4
    <3>3. QED
      BY <1>1, <2>1, <3>2
  <2>3. \A i \in E : i \in 1..(m - 1)
    <3>1. SUFFICES ASSUME NEW i \in E, i \notin 1..(m - 1) PROVE FALSE
      OBVIOUS
    <3>2. i \in 1..Len(q) /\ m \in 1..i
      BY <1>1, <1>4, <3>1
    <3>3. q[m] > kFailureWindow
      BY <3>1, <3>2
    <3>4. QED
      BY <1>1, <1>4, <3>3, ConstantsAssumption
  <2> HIDE DEF E
  <2>4. QED
    BY <2>2, <2>3
<1>6. Cardinality(E) = m - 1
  <2>1. Cardinality(1..(m - 1)) = IF 1 > m - 1 THEN 0 ELSE m - 1 - 1 + 1
    BY <1>4, FS_Interval
  <2>2. Cardinality(1..(m - 1)) = m - 1
    BY <1>4, <2>1
  <2> HIDE DEF E
  <2>3. QED
    BY <1>5, <2>2
<1>7. PruneFailures(q) = SubSeq(q, Cardinality(E) + 1, Len(q))
  BY DEF PruneFailures
<1> HIDE DEF E, T
<1>8. PruneFailures(q) = SubSeq(q, m, Len(q))
  BY <1>4, <1>6, <1>7
<1>9. /\ Len(SubSeq(q, m, Len(q))) = Len(q) - m + 1
      /\ \A i \in 1..(Len(q) - m + 1) : SubSeq(q, m, Len(q))[i] = q[m + i - 1]
  <2>1. m \in Int /\ Len(q) \in Int /\ m <= Len(q) /\ \A i \in m..Len(q) : q[i] \in Int
    BY <1>1, <1>4
  <2>2. QED
    BY <2>1, SubSeqProperties
<1>10. QED
  <2>1. 1 \in 1..(Len(q) - m + 1) /\ Len(q) - m + 1 \in 1..(Len(q) - m + 1)
    BY <1>1, <1>4
  <2>2. /\ SubSeq(q, m, Len(q))[1] = q[m]
        /\ SubSeq(q, m, Len(q))[Len(q) - m + 1] = q[Len(q)]
    BY <1>1, <1>4, <1>9, <2>1
  <2>3. QED
    BY <1>1, <1>4, <1>8, <1>9, <2>2

\* The failures of a quarantined service: enough of them, within one window.
Earned(q) == Len(q) > kMaxFailures /\ q[1] - q[Len(q)] <= kFailureWindow

\* A breaker that trips has earned it.
LEMMA TripEarned ==
  ASSUME NEW q \in Seq(0..(kFailureWindow + 1)), Len(PruneFailures(Append(q, 0))) > kMaxFailures
  PROVE  Earned(PruneFailures(Append(q, 0)))
<1> DEFINE a == Append(q, 0)
           z == PruneFailures(a)
<1>1. a \in Seq(0..(kFailureWindow + 1)) /\ Len(a) >= 1 /\ a[Len(a)] = 0
  BY ConstantsAssumption
<1> HIDE DEF a
<1>2. Len(z) >= 1 /\ z[1] <= kFailureWindow /\ z[Len(z)] = 0
  BY <1>1, PruneWindow, ConstantsAssumption
<1>3. z \in Seq(0..(kFailureWindow + 1))
  BY <1>1, PruneType
<1> HIDE DEF z
<1>4. z[1] \in 0..(kFailureWindow + 1) /\ Len(z) \in Nat
  <2>1. z \in [1..Len(z) -> 0..(kFailureWindow + 1)] /\ Len(z) \in Nat
    BY <1>3, LenProperties
  <2>2. 1 \in 1..Len(z)
    BY <1>2, <2>1
  <2>3. QED
    BY <2>1, <2>2
<1>5. z[1] - z[Len(z)] <= kFailureWindow
  BY <1>2, <1>4, ConstantsAssumption
<1>6. QED
  BY <1>5 DEF Earned, z, a

\* Ageing does not undo it.
LEMMA AgedEarned ==
  ASSUME NEW r \in ServiceRecord, Earned(r.recent)
  PROVE  Earned(Aged(r).recent)
<1> DEFINE q == r.recent
           z == Aged(r).recent
<1>1. q \in Seq(0..(kFailureWindow + 1)) /\ Len(q) > kMaxFailures /\ q[1] - q[Len(q)] <= kFailureWindow
  BY DEF Earned, ServiceRecord
<1>2. /\ Len(z) = Len(q)
      /\ \A i \in 1..Len(q) : z[i] = AtMost(q[i] + 1, kFailureWindow + 1)
  BY AgedType
<1> HIDE DEF q, z
<1>3. Len(q) \in Nat /\ 1 \in 1..Len(q) /\ Len(q) \in 1..Len(q)
  BY <1>1, ConstantsAssumption
<1>4. q[1] \in 0..(kFailureWindow + 1) /\ q[Len(q)] \in 0..(kFailureWindow + 1)
  <2>1. q \in [1..Len(q) -> 0..(kFailureWindow + 1)]
    BY <1>1, LenProperties
  <2>2. QED
    BY <1>3, <2>1
<1>5. z[1] - z[Len(z)] <= kFailureWindow
  BY <1>1, <1>2, <1>3, <1>4, ConstantsAssumption DEF AtMost
<1>6. QED
  BY <1>1, <1>2, <1>5 DEF Earned, q, z

\* Both, for one service.
BreakerOk(s, r) ==
  /\ s \in Autorestart => r.state # "Failed"
  /\ s \in Autorestart /\ r.state \in {"Running", "Backoff"} => Len(r.recent) <= kMaxFailures
  /\ r.state = "Quarantined" => Earned(r.recent)

BreakersOk == \A s \in Services : BreakerOk(s, svc[s])

\* A spawn on a record within the breaker's bound keeps the breaker.
LEMMA SpawnBreaker ==
  ASSUME TypeOK, BreakersOk, NEW s \in Services, NEW r \in ServiceRecord, r.pid = NoPid,
         s \in Autorestart => Len(r.recent) <= kMaxFailures,
         NEW pr \in [Pids -> ProcStates], NEW up \in [Services -> BOOLEAN],
         Spawn(s, r, pr, up)
  PROVE  BreakersOk'
<1>1. /\ \A t \in Services : t # s => svc'[t] = svc[t]
      /\ svc'[s].recent = r.recent
      /\ svc'[s].state \in {"Running", "Backoff"}
  BY SpawnEffect DEF TypeOK
<1>2. QED
  BY <1>1 DEF BreakersOk, BreakerOk

\* Every step keeps the breaker.
LEMMA BreakerStep ==
  ASSUME TypeOK, ChildInv, BreakersOk, [Next]_vars
  PROVE  BreakersOk'
<1> USE DEF procVars, loopVars, tickVars, postVars, stopVars
<1>1. \A s \in Services : svc[s] \in ServiceRecord /\ svc[s].recent \in Seq(0..(kFailureWindow + 1))
  BY DEF TypeOK, ServiceRecord
<1>2. Len(<<>>) <= kMaxFailures
  BY ConstantsAssumption
<1>3. CASE Launch
  <2>1. /\ at \in Services /\ svc[at].state = "Stopped" /\ svc[at].recent = <<>>
        /\ Spawn(at, svc[at], proc, upRunning)
    BY <1>3 DEF Launch, ChildInv, NotLaunchedYet, Services
  <2>2. svc[at].pid = NoPid
    BY <2>1 DEF ChildInv, RunningIffChild
  <2>3. QED
    BY <1>1, <1>2, <2>1, <2>2, SpawnBreaker DEF TypeOK
<1>4. CASE TickSpawn /\ svc[at].state = "Backoff" /\ at \in dueBy
  <2>1. at \in Services /\ Spawn(at, svc[at], proc, upRunning)
    BY <1>4 DEF TickSpawn
  <2>2. svc[at].pid = NoPid
    BY <1>4, <2>1 DEF ChildInv, RunningIffChild
  <2>3. at \in Autorestart => Len(svc[at].recent) <= kMaxFailures
    BY <1>4, <2>1 DEF BreakersOk, BreakerOk
  <2>4. QED
    BY <1>1, <2>1, <2>2, <2>3, SpawnBreaker DEF TypeOK
<1>5. CASE RunRestart
  <2> DEFINE s == Head(local)
             r == [svc[s] EXCEPT !.recent = <<>>]
  <2>1. s \in Services
    BY <1>5 DEF RunRestart, Task, Shutdown, TypeOK
  <2>2. r \in ServiceRecord /\ r.pid = svc[s].pid /\ r.recent = <<>> /\ r.state = svc[s].state
    <3>1. <<>> \in Seq(0..(kFailureWindow + 1))
      OBVIOUS
    <3>2. QED
      BY <1>1, <2>1, <3>1 DEF ServiceRecord
  <2>3. \/ /\ svc' = [svc EXCEPT ![s] = [r EXCEPT !.wantsRestart = TRUE]]
           /\ r.pid # NoPid
        \/ /\ r.pid = NoPid
           /\ Spawn(s, [r EXCEPT !.backoff = 0, !.wantsRestart = FALSE], proc, upRunning)
    BY <1>5 DEF RunRestart, DoRestart
  <2> HIDE DEF s, r
  <2>4. CASE /\ r.pid = NoPid
             /\ Spawn(s, [r EXCEPT !.backoff = 0, !.wantsRestart = FALSE], proc, upRunning)
    <3> DEFINE rr == [r EXCEPT !.backoff = 0, !.wantsRestart = FALSE]
    <3>1. rr \in ServiceRecord /\ rr.pid = NoPid /\ rr.recent = <<>>
      BY <2>2, <2>4 DEF ServiceRecord
    <3>2. Spawn(s, rr, proc, upRunning)
      BY <2>4
    <3> HIDE DEF rr
    <3>3. QED
      BY <1>2, <2>1, <3>1, <3>2, SpawnBreaker DEF TypeOK
  <2>5. CASE /\ svc' = [svc EXCEPT ![s] = [r EXCEPT !.wantsRestart = TRUE]]
             /\ r.pid # NoPid
    <3> DEFINE rr == [r EXCEPT !.wantsRestart = TRUE]
    <3>1. rr.recent = <<>> /\ rr.state = svc[s].state
      BY <2>2 DEF ServiceRecord
    <3>2. svc[s].state = "Running"
      BY <2>1, <2>2, <2>5 DEF ChildInv, RunningIffChild
    <3>3. \A t \in Services : svc'[t] = IF t = s THEN rr ELSE svc[t]
      BY <2>1, <2>5 DEF TypeOK
    <3> HIDE DEF rr
    <3>4. QED
      BY <1>2, <3>1, <3>2, <3>3 DEF BreakersOk, BreakerOk
  <2>6. QED
    BY <2>3, <2>4, <2>5
<1>6. CASE BeginShutdown
  <2>1. \A t \in Services : \/ svc'[t] = svc[t]
                            \/ svc'[t] = [svc[t] EXCEPT !.state = "Stopped"]
    BY <1>6 DEF BeginShutdown
  <2>2. \A t \in Services : svc'[t] = svc[t] \/ svc'[t].state = "Stopped"
    BY <1>1, <2>1 DEF ServiceRecord
  <2>3. QED
    BY <2>2 DEF BreakersOk, BreakerOk
<1>7. CASE \E p \in Pids : Reap(p)
  <2>1. PICK p \in Pids : Reap(p)
    BY <1>7
  <2> DEFINE s  == FindByPid(p)
             reaped == [proc EXCEPT ![p] = "free"]
             r  == [svc[s] EXCEPT !.pid = NoPid, !.health = "unknown"]
             up == [upRunning EXCEPT ![s] = FALSE]
  <2>2. CASE s = 0
    BY <2>1, <2>2 DEF Reap, BreakersOk
  <2>3. CASE s # 0
    <3>1. s \in Services /\ svc[s].pid = p /\ p # NoPid
      BY <2>3, FindByPidOwner, ConstantsAssumption
    <3>2. \/ svc' = [svc EXCEPT ![s] = [r EXCEPT !.state = "Stopped"]]
          \/ Spawn(s, [r EXCEPT !.wantsRestart = FALSE, !.backoff = 0], reaped, up)
          \/ svc' = [svc EXCEPT ![s] = UnexpectedExit(s, r)]
      BY <2>1, <2>3 DEF Reap, HandleExit
    <3>3. /\ reaped \in [Pids -> ProcStates] /\ up \in [Services -> BOOLEAN]
      BY <3>1 DEF TypeOK, ProcStates
    <3>4. r \in ServiceRecord /\ r.pid = NoPid /\ r.recent = svc[s].recent
      BY <1>1, <3>1 DEF ServiceRecord
    <3>5. svc[s].state = "Running"
      BY <3>1 DEF ChildInv, RunningIffChild
    <3>6. s \in Autorestart => Len(svc[s].recent) <= kMaxFailures
      BY <3>1, <3>5 DEF BreakersOk, BreakerOk
    <3> HIDE DEF s, r, reaped, up
    <3>7. CASE svc' = [svc EXCEPT ![s] = [r EXCEPT !.state = "Stopped"]]
      <4>1. \A t \in Services : svc'[t] = IF t = s THEN [r EXCEPT !.state = "Stopped"] ELSE svc[t]
        BY <3>1, <3>7 DEF TypeOK
      <4>2. svc'[s].state = "Stopped"
        BY <3>1, <3>4, <4>1 DEF ServiceRecord
      <4>3. QED
        BY <4>1, <4>2 DEF BreakersOk, BreakerOk
    <3>8. CASE Spawn(s, [r EXCEPT !.wantsRestart = FALSE, !.backoff = 0], reaped, up)
      <4> DEFINE rr == [r EXCEPT !.wantsRestart = FALSE, !.backoff = 0]
      <4>1. rr \in ServiceRecord /\ rr.pid = NoPid /\ rr.recent = svc[s].recent
        BY <3>4 DEF ServiceRecord
      <4>2. Spawn(s, rr, reaped, up)
        BY <3>8
      <4> HIDE DEF rr
      <4>3. QED
        BY <3>1, <3>3, <3>6, <4>1, <4>2, SpawnBreaker
    <3>9. CASE svc' = [svc EXCEPT ![s] = UnexpectedExit(s, r)]
      <4> DEFINE u == UnexpectedExit(s, r)
      <4>1. \A t \in Services : svc'[t] = IF t = s THEN u ELSE svc[t]
        BY <3>1, <3>9 DEF TypeOK
      <4>2. /\ u.state \in {"Failed", "Quarantined", "Backoff"}
            /\ s \in Autorestart => u.state # "Failed"
            /\ u.state = "Backoff" => Len(u.recent) <= kMaxFailures
            /\ u.state = "Quarantined" => /\ Len(u.recent) > kMaxFailures
                                          /\ u.recent = PruneFailures(Append(r.recent, 0))
        BY <3>1, <3>4, UnexpectedExitType
      <4> HIDE DEF u
      <4>3. r.recent \in Seq(0..(kFailureWindow + 1))
        BY <3>4 DEF ServiceRecord
      <4>4. u.state = "Quarantined" => Earned(u.recent)
        BY <4>2, <4>3, TripEarned
      <4>5. QED
        BY <4>1, <4>2, <4>4 DEF BreakersOk, BreakerOk
    <3>10. QED
      BY <3>2, <3>7, <3>8, <3>9
  <2>4. QED
    BY <2>2, <2>3
<1>8. CASE TickProbe
  <2>1. \A t \in Services : svc'[t].state = svc[t].state /\ svc'[t].recent = svc[t].recent
    <3>1. CASE svc' = svc
      BY <3>1
    <3>2. CASE svc' # svc
      <4>1. at \in Services
        BY <1>8 DEF TickProbe, TypeOK
      <4>2. PICK h \in {"up", "down"} :
              svc' = [svc EXCEPT ![at].health = h, ![at].sinceHealth = lag]
        BY <1>8, <3>2 DEF TickProbe
      <4>3. svc'[at] = [svc[at] EXCEPT !.health = h, !.sinceHealth = lag]
        BY <4>1, <4>2 DEF TypeOK
      <4>4. svc'[at].recent = svc[at].recent /\ svc'[at].state = svc[at].state
        BY <1>1, <4>1, <4>3 DEF ServiceRecord
      <4>5. \A t \in Services : t # at => svc'[t] = svc[t]
        BY <4>2 DEF TypeOK
      <4>6. QED
        BY <4>4, <4>5
    <3>3. QED
      BY <3>1, <3>2
  <2>2. QED
    BY <2>1 DEF BreakersOk, BreakerOk
<1>9. CASE TimePasses
  <2>1. \A t \in Services : svc'[t] = Aged(svc[t])
    BY <1>9 DEF TimePasses
  <2>2. \A t \in Services : /\ svc'[t].state = svc[t].state
                            /\ Len(svc'[t].recent) = Len(svc[t].recent)
                            /\ Earned(svc[t].recent) => Earned(svc'[t].recent)
    BY <1>1, <2>1, AgedType, AgedEarned
  <2>3. QED
    BY <2>2 DEF BreakersOk, BreakerOk
<1>10. CASE svc' = svc
  BY <1>10 DEF BreakersOk
<1>11. CASE TickSpawn /\ ~(svc[at].state = "Backoff" /\ at \in dueBy)
  BY <1>10, <1>11 DEF TickSpawn
<1>12. CASE \/ Started \/ EpollWait \/ BatchDone \/ LoopExit \/ DrainWakeup \/ SwapTasks
            \/ TasksDone \/ DrainSignal \/ ReapDone \/ TickBegin \/ TickShutdown \/ TickEnd
            \/ (\E s \in Services : PostRestart(s)) \/ Ring \/ ControlStop \/ SupervisorStop
            \/ (\E p \in Pids : ChildExits(p)) \/ Finished \/ UNCHANGED vars
  BY <1>10, <1>12 DEF Started, EpollWait, BatchDone, LoopExit, DrainWakeup, SwapTasks, TasksDone,
     DrainSignal, ReapDone, TickBegin, TickShutdown, TickEnd, PostRestart, Ring, ControlStop,
     SupervisorStop, ChildExits, Finished, vars
<1>13. QED
  BY <1>3, <1>4, <1>5, <1>6, <1>7, <1>8, <1>9, <1>11, <1>12 DEF Next, LoopStep

\* The circuit breaker, both ways: a service that is up or will be relaunched has
\* had at most kMaxFailures failures in the window, and a quarantined one has had
\* more than that within one window.
THEOREM BreakerCorrect == Spec => [](BreakerHolds /\ QuarantineEarned)
<1>1. Init => BreakersOk
  BY DEF Init, FreshService, BreakersOk, BreakerOk
<1>2. SafetyInv /\ BreakersOk /\ [Next]_vars => BreakersOk'
  BY BreakerStep DEF SafetyInv
<1>3. BreakersOk => BreakerHolds /\ QuarantineEarned
  BY ConstantsAssumption DEF BreakersOk, BreakerOk, BreakerHolds, QuarantineEarned, Earned
<1>4. QED
  BY <1>1, <1>2, <1>3, SafetyInvHolds, PTL DEF Spec

-----------------------------------------------------------------------------
(* Relaunches.                                                             *)

\* What on_tick found due stays due until it comes to it.
LEMMA DueStep ==
  ASSUME SafetyInv, DueStillDue, [Next]_vars
  PROVE  DueStillDue'
<1> USE DEF procVars, loopVars, tickVars, postVars, stopVars
<1>1. /\ svc \in [Services -> ServiceRecord] /\ dueBy \subseteq Services
      /\ \A s \in Services : svc[s] \in ServiceRecord
      /\ \A s \in Services : s \in Int
      /\ at \in Int /\ (pc = "probe" => at \in Services)
  BY ConstantsAssumption DEF SafetyInv, TypeOK, Services
<1>2. CASE pc' \notin {"tick", "probe"}
  BY <1>2 DEF DueStillDue
<1>3. CASE UNCHANGED <<svc, pc, at, dueBy>>
  BY <1>3 DEF DueStillDue
<1>4. CASE TickBegin
  BY <1>4 DEF TickBegin, DueStillDue
<1>5. CASE TickSpawn
  <2>1. at \in Services /\ UNCHANGED <<at, dueBy>> /\ pc = "tick" /\ pc' = "probe"
    BY <1>5 DEF TickSpawn
  <2>2. \A t \in Services : t # at => svc'[t] = svc[t]
    BY <1>1, <1>5 DEF TickSpawn, Spawn
  <2>3. \A t \in dueBy : t > at => t >= at /\ t # at
    BY <1>1
  <2>4. QED
    BY <1>1, <2>1, <2>2, <2>3 DEF DueStillDue
<1>6. CASE TickProbe
  <2>1. at \in Services /\ at' = at + 1 /\ UNCHANGED dueBy /\ pc = "probe" /\ pc' = "tick"
    BY <1>1, <1>6 DEF TickProbe
  <2>2. \A t \in Services : t # at => svc'[t] = svc[t]
    BY <1>1, <1>6 DEF TickProbe
  <2>3. \A t \in dueBy : t >= at' => t > at /\ t # at
    BY <1>1, <2>1
  <2>4. QED
    BY <1>1, <2>1, <2>2, <2>3 DEF DueStillDue
<1>7. CASE TimePasses
  <2>1. UNCHANGED <<pc, at, dueBy>> /\ \A t \in Services : svc'[t] = Aged(svc[t])
    BY <1>7 DEF TimePasses
  <2>2. \A t \in Services : svc[t].nextRestart = 0 => svc'[t].nextRestart = 0
    BY <1>1, <2>1, AgedType
  <2>3. QED
    BY <1>1, <2>1, <2>2 DEF DueStillDue
<1>8. CASE \/ Launch \/ Started \/ EpollWait \/ BatchDone \/ LoopExit \/ DrainWakeup \/ SwapTasks
           \/ TasksDone \/ RunRestart \/ BeginShutdown \/ DrainSignal \/ (\E p \in Pids : Reap(p))
           \/ ReapDone \/ TickShutdown \/ TickEnd
  <2>1. pc' \notin {"tick", "probe"}
    BY <1>8 DEF Launch, Started, EpollWait, BatchDone, LoopExit, DrainWakeup, SwapTasks, TasksDone,
       RunRestart, BeginShutdown, DrainSignal, Reap, ReapDone, TickShutdown, TickEnd
  <2>2. QED
    BY <1>2, <2>1
<1>9. CASE \/ (\E s \in Services : PostRestart(s)) \/ Ring \/ ControlStop \/ SupervisorStop
           \/ (\E p \in Pids : ChildExits(p)) \/ Finished \/ UNCHANGED vars
  BY <1>3, <1>9 DEF PostRestart, Ring, ControlStop, SupervisorStop, ChildExits, Finished, vars
<1>10. QED
  BY <1>4, <1>5, <1>6, <1>7, <1>8, <1>9 DEF Next, LoopStep

\* Why a service may be given a new child.
Justified(s) ==
  /\ ~shuttingDown
  /\ \/ pc = "launch"
     \/ svc[s].state = "Backoff" /\ svc[s].nextRestart = 0
     \/ svc[s].state = "Running" /\ svc[s].wantsRestart
     \/ pc = "tasks" /\ Head(local) = s

\* A step that gives a service a new child is justified.
LEMMA RelaunchStep ==
  ASSUME SafetyInv, DueStillDue, [Next]_vars,
         NEW s \in Services, svc'[s].pid # NoPid, svc'[s].pid # svc[s].pid
  PROVE  Justified(s)
<1> USE DEF procVars, loopVars, tickVars, postVars, stopVars
<1>1. /\ svc \in [Services -> ServiceRecord]
      /\ \A t \in Services : svc[t] \in ServiceRecord
      /\ TypeOK /\ ChildInv /\ StopInv
  BY DEF SafetyInv, TypeOK
<1>2. ASSUME NEW t \in Services, NEW r, NEW pr, NEW up, Spawn(t, r, pr, up)
      PROVE  t = s
  BY <1>1, <1>2 DEF Spawn
<1>3. CASE Launch
  BY <1>1, <1>3 DEF Launch, Justified, StopInv, ShutdownLast
<1>4. CASE TickSpawn
  <2>1. at \in Services /\ svc[at].state = "Backoff" /\ at \in dueBy /\ pc = "tick"
        /\ Spawn(at, svc[at], proc, upRunning)
    BY <1>4 DEF TickSpawn
  <2>2. at = s
    BY <1>2, <2>1
  <2>3. svc[s].nextRestart = 0
    BY <2>1, <2>2, ConstantsAssumption DEF DueStillDue, Services
  <2>4. ~shuttingDown
    BY <1>1, <2>1 DEF StopInv, StopDrained
  <2>5. QED
    BY <2>1, <2>2, <2>3, <2>4 DEF Justified
<1>5. CASE RunRestart
  <2> DEFINE h == Head(local)
             r == [svc[h] EXCEPT !.recent = <<>>]
  <2>1. h \in Services /\ pc = "tasks" /\ local # <<>>
    BY <1>1, <1>5 DEF RunRestart, Task, Shutdown, TypeOK
  <2>2. ~shuttingDown
    BY <1>1, <2>1 DEF StopInv, ShutdownLast
  <2>3. \/ svc' = [svc EXCEPT ![h] = [r EXCEPT !.wantsRestart = TRUE]]
        \/ Spawn(h, [r EXCEPT !.backoff = 0, !.wantsRestart = FALSE], proc, upRunning)
    BY <1>5 DEF RunRestart, DoRestart
  <2>4. h = s
    BY <1>1, <1>2, <2>1, <2>3
  <2>5. QED
    BY <2>1, <2>2, <2>4 DEF Justified
<1>6. CASE \E p \in Pids : Reap(p)
  <2>1. PICK p \in Pids : Reap(p)
    BY <1>6
  <2> DEFINE o == FindByPid(p)
             reaped == [proc EXCEPT ![p] = "free"]
             r  == [svc[o] EXCEPT !.pid = NoPid, !.health = "unknown"]
             up == [upRunning EXCEPT ![o] = FALSE]
  <2>2. o # 0
    BY <2>1 DEF Reap
  <2>3. o \in Services /\ svc[o].pid = p /\ p # NoPid
    BY <2>2, FindByPidOwner, ConstantsAssumption
  <2>4. /\ r \in ServiceRecord /\ r.pid = NoPid /\ r.wantsRestart = svc[o].wantsRestart
    BY <1>1, <2>3 DEF ServiceRecord
  <2>5. \/ svc' = [svc EXCEPT ![o] = [r EXCEPT !.state = "Stopped"]]
        \/ /\ ~shuttingDown /\ r.wantsRestart
           /\ Spawn(o, [r EXCEPT !.wantsRestart = FALSE, !.backoff = 0], reaped, up)
        \/ svc' = [svc EXCEPT ![o] = UnexpectedExit(o, r)]
    BY <2>1, <2>2 DEF Reap, HandleExit
  <2> HIDE DEF o, r, reaped, up
  <2>6. o = s
    BY <1>1, <1>2, <2>3, <2>5
  <2>7. [r EXCEPT !.state = "Stopped"].pid = NoPid /\ UnexpectedExit(o, r).pid = NoPid
    BY <2>3, <2>4, UnexpectedExitType DEF ServiceRecord
  <2>8. ~shuttingDown /\ r.wantsRestart
    BY <1>1, <2>3, <2>5, <2>6, <2>7
  <2>9. svc[s].state = "Running"
    BY <1>1, <2>3, <2>6 DEF ChildInv, RunningIffChild
  <2>10. QED
    BY <2>4, <2>6, <2>8, <2>9 DEF Justified
<1>7. CASE BeginShutdown
  <2>1. svc'[s].pid = svc[s].pid
    BY <1>1, <1>7 DEF BeginShutdown, ServiceRecord
  <2>2. QED
    BY <2>1
<1>8. CASE TimePasses
  <2>1. svc'[s].pid = svc[s].pid
    BY <1>1, <1>8, AgedType DEF TimePasses
  <2>2. QED
    BY <2>1
<1>9. CASE TickProbe
  <2>1. svc'[s].pid = svc[s].pid
    <3>1. CASE svc' # svc
      <4>1. PICK h \in {"up", "down"} :
              svc' = [svc EXCEPT ![at].health = h, ![at].sinceHealth = lag]
        BY <1>9, <3>1 DEF TickProbe
      <4>2. at \in Services
        BY <1>1, <1>9 DEF TickProbe, TypeOK
      <4>3. svc'[at] = [svc[at] EXCEPT !.health = h, !.sinceHealth = lag]
        BY <1>1, <4>1, <4>2
      <4>4. svc'[at].pid = svc[at].pid
        BY <1>1, <4>2, <4>3 DEF ServiceRecord
      <4>5. \A t \in Services : t # at => svc'[t] = svc[t]
        BY <1>1, <4>1
      <4>6. QED
        BY <4>4, <4>5
    <3>2. QED
      BY <3>1
  <2>2. QED
    BY <2>1
<1>10. CASE \/ Started \/ EpollWait \/ BatchDone \/ LoopExit \/ DrainWakeup \/ SwapTasks
            \/ TasksDone \/ DrainSignal \/ ReapDone \/ TickBegin \/ TickShutdown \/ TickEnd
            \/ (\E t \in Services : PostRestart(t)) \/ Ring \/ ControlStop \/ SupervisorStop
            \/ (\E p \in Pids : ChildExits(p)) \/ Finished \/ UNCHANGED vars
  BY <1>10 DEF Started, EpollWait, BatchDone, LoopExit, DrainWakeup, SwapTasks, TasksDone,
     DrainSignal, ReapDone, TickBegin, TickShutdown, TickEnd, PostRestart, Ring, ControlStop,
     SupervisorStop, ChildExits, Finished, vars
<1>11. QED
  BY <1>3, <1>4, <1>5, <1>6, <1>7, <1>8, <1>9, <1>10 DEF Next, LoopStep

\* No service is ever given a new child without one of the four reasons, never
\* during shutdown, and a quarantined or failed one only by the operator.
THEOREM RelaunchesJustified == Spec => RelaunchJustified
<1>1. Init => DueStillDue
  BY DEF Init, DueStillDue
<1>2. SafetyInv /\ DueStillDue /\ [Next]_vars => DueStillDue'
  BY DueStep
<1>3. SafetyInv /\ DueStillDue /\ [Next]_vars =>
        [\A s \in Services :
           svc'[s].pid # NoPid /\ svc'[s].pid # svc[s].pid =>
             /\ ~shuttingDown
             /\ \/ pc = "launch"
                \/ svc[s].state = "Backoff" /\ svc[s].nextRestart = 0
                \/ svc[s].state = "Running" /\ svc[s].wantsRestart
                \/ pc = "tasks" /\ Head(local) = s]_vars
  BY RelaunchStep DEF Justified
<1>4. QED
  BY <1>1, <1>2, <1>3, SafetyInvHolds, PTL DEF Spec, RelaunchJustified

=============================================================================
