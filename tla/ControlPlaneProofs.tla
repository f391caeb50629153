-------------------------- MODULE ControlPlaneProofs -------------------------
(***************************************************************************)
(* Theorems about ControlPlane, for any number of worker loops, every way  *)
(* castle is started and whatever the admin sends.  The safety properties  *)
(* fall into three groups that share no state, each with an inductive      *)
(* invariant: the order of the stops, the answers, and the log.            *)
(***************************************************************************)
EXTENDS ControlPlane, TLAPS

stopVars == <<main, stage, thread, stopping>>
answerVars == <<ctl, tasks, ran, asked, answers>>
-----------------------------------------------------------------------------
(* Which steps change which of the three groups.                           *)

\* A command line touches no thread, except by what it posts or answers.
LEMMA DispatchQuiet ==
  ASSUME Dispatch
  PROVE  UNCHANGED stopVars /\ (UNCHANGED logVars \/ DispatchErrors \/ DispatchErrorsUnreadable)
<1>1. \A cmd : Line(cmd) => UNCHANGED stopVars
  BY DEF Line, mainVars, stopVars
<1>2. QED
  BY <1>1 DEF Dispatch, DispatchSimple, DispatchExit, DispatchShutdown, DispatchErrors,
     DispatchErrorsUnreadable, DispatchSystemStatus, DispatchNoSupervisor, DispatchPost

\* Threads start, stop and end only here.
LEMMA StopSteps ==
  ASSUME [Next]_vars
  PROVE  \/ MainStep \/ CtlExit \/ NetExit \/ (\E l \in Posted : LoopExit(l))
         \/ UNCHANGED stopVars
<1>1. CASE CtlStep
  <2>1. CASE Dispatch
    BY <2>1, DispatchQuiet
  <2>2. CASE CtlExit
    BY <2>2
  <2>3. CASE AcceptClient \/ WriteSome \/ WriteDone \/ CloseSession \/ LinesDone \/ LeaveSession
    BY <2>3 DEF AcceptClient, WriteSome, WriteDone, CloseSession, LinesDone, LeaveSession,
                CtlOnly, mainVars, stopVars
  <2>4. CASE Answered \/ Deadline
    BY <2>4 DEF Answered, Deadline, Answer, mainVars, stopVars
  <2>5. QED
    BY <1>1, <2>1, <2>2, <2>3, <2>4 DEF CtlStep
<1>2. CASE NetStep \/ LogWarn
  BY <1>2 DEF NetStep, ProbeFails, ProbeSucceeds, StoreNetState, WatchAgain, LogWarn,
              NetOnly, mainVars, stopVars
<1>3. CASE Signal \/ Connect \/ HangUp \/ ReadReply
  BY <1>3 DEF Signal, Connect, HangUp, ReadReply, ClientOnly, mainVars, stopVars
<1>4. ASSUME NEW batch, ReadLines(batch)
      PROVE  UNCHANGED stopVars
  BY <1>4 DEF ReadLines, CtlOnly, mainVars, stopVars
<1>5. ASSUME NEW l \in Posted, RunTask(l)
      PROVE  UNCHANGED stopVars
  BY <1>5 DEF RunTask, mainVars, stopVars
<1>6. CASE Exited \/ UNCHANGED vars
  BY <1>6 DEF Exited, vars, stopVars
<1>7. QED
  BY <1>1, <1>2, <1>3, <1>4, <1>5, <1>6 DEF Next
-----------------------------------------------------------------------------
(* The order of the stops.                                                 *)

StopTypes ==
  /\ main \in {"services", "routes", "listeners", "net", "control", "sigwait",
               "stop", "join", "exited"}
  /\ stage \in 1 .. 4
  /\ thread \in [Threads -> {"none", "run", "done"}]
  /\ stopping \subseteq Threads

(* What has been started when start-up is at its various places.           *)
StartedInOrder ==
  /\ main = "services" => \A t \in Threads : thread[t] = "none"
  /\ main \in {"routes", "listeners"} => \A t \in Threads \ {"sup"} : thread[t] = "none"
  /\ main = "net" => thread["net"] = "none" /\ thread["ctl"] = "none"
  /\ main = "control" => thread["ctl"] = "none"
  /\ main \notin {"stop", "join", "exited"} => stopping = {} /\ stage = 1

(* A stage is reached when the threads of the earlier ones are over, or    *)
(* were never started, and only then are its own told to stop.             *)
StoppedInOrder ==
  /\ stage > 1 => thread["ctl"] # "run"
  /\ stage > 2 => thread["net"] # "run"
  /\ stage > 3 => thread["sup"] # "run"
  /\ \A l \in Posted : l \in stopping => stage > 2
  /\ \A t \in Threads : thread[t] = "done" => t \in stopping

StopInv == StopTypes /\ StartedInOrder /\ StoppedInOrder /\ CleanExit

\* The four stages.
LEMMA OrderIs ==
  /\ Len(Order) = 4
  /\ Order[1] = {"ctl"} /\ Order[2] = {"net"} /\ Order[3] = {"sup"} /\ Order[4] = Loops
  BY DEF Order

\* The thread names are different.
LEMMA ThreadNames ==
  /\ {"sup", "net", "ctl"} \subseteq Threads /\ Loops \subseteq Threads
  /\ Posted \subseteq Threads /\ "net" \notin Posted /\ "ctl" \notin Posted /\ "sup" \in Posted
  /\ "sup" \notin Loops /\ "net" \notin Loops /\ "ctl" \notin Loops
  BY ConstantsAssumption DEF Threads, Posted

\* Before main, no thread exists.
LEMMA StopInvInit == Init => StopInv
  BY ThreadNames DEF Init, StopInv, StopTypes, StartedInOrder, StoppedInOrder, CleanExit

\* main's steps keep the order.
LEMMA MainKeepsOrder ==
  ASSUME StopInv, MainStep
  PROVE  StopInv'
<1> USE ThreadNames DEF StopInv, StopTypes, StartedInOrder, StoppedInOrder, CleanExit
<1>1. CASE StartSupervisor
  BY <1>1 DEF StartSupervisor, Goto, Start, Quiet
<1>2. CASE LoadRoutes
  BY <1>2 DEF LoadRoutes, Goto, Unwind, Quiet
<1>3. CASE MakeListeners
  BY <1>3 DEF MakeListeners, Goto, Unwind, Quiet
<1>4. CASE StartNetWatch
  BY <1>4 DEF StartNetWatch, Goto, Start, Quiet
<1>5. CASE StartControl
  BY <1>5 DEF StartControl, Goto, Start, Quiet
<1>6. CASE Term
  BY <1>6 DEF Term, Goto, Quiet
<1>7. CASE Stop
  <2>1. /\ main = "stop" /\ main' = "join" /\ stage' = stage /\ thread' = thread
        /\ stopping' = stopping \cup {t \in Order[stage] : thread[t] # "none"}
    BY <1>7 DEF Stop, Goto
  <2>2. stage \in {1, 2, 3, 4}
    OBVIOUS
  <2>3. Order[stage] \subseteq Threads /\ \A l \in Posted : l \in Order[stage] => stage > 2
    BY <2>2, OrderIs
  <2>4. QED
    BY <2>1, <2>3
<1>8. CASE Join
  <2>1. /\ main = "join" /\ \A t \in Order[stage] : thread[t] # "run"
        /\ thread' = thread /\ stopping' = stopping
        /\ \/ stage < 4 /\ main' = "stop" /\ stage' = stage + 1
           \/ stage = 4 /\ main' = "exited" /\ stage' = stage
    BY <1>8, OrderIs DEF Join, Goto, Quiet
  <2>2. stage \in {1, 2, 3, 4}
    OBVIOUS
  <2>3. CASE stage = 1
    BY <2>1, <2>3, OrderIs
  <2>4. CASE stage = 2
    BY <2>1, <2>4, OrderIs
  <2>5. CASE stage = 3
    BY <2>1, <2>5, OrderIs
  <2>6. CASE stage = 4
    BY <2>1, <2>6, OrderIs DEF Threads
  <2>7. QED
    BY <2>2, <2>3, <2>4, <2>5, <2>6
<1>9. QED
  BY <1>1, <1>2, <1>3, <1>4, <1>5, <1>6, <1>7, <1>8 DEF MainStep

\* Every step keeps the order.
LEMMA StopInvNext ==
  ASSUME StopInv, [Next]_vars
  PROVE  StopInv'
<1>1. CASE MainStep
  BY <1>1, MainKeepsOrder
<1>2. ASSUME NEW t \in Threads, thread[t] = "run", t \in stopping,
             thread' = [thread EXCEPT ![t] = "done"], UNCHANGED <<main, stage, stopping>>
      PROVE  StopInv'
  BY <1>2, ThreadNames DEF StopInv, StopTypes, StartedInOrder, StoppedInOrder, CleanExit
<1>3. CASE CtlExit
  BY <1>2, <1>3, ThreadNames DEF CtlExit, At, StopSeen, mainVars
<1>4. CASE NetExit
  BY <1>2, <1>4, ThreadNames DEF NetExit, Watching, mainVars
<1>5. ASSUME NEW l \in Posted, LoopExit(l)
      PROVE  StopInv'
  BY <1>2, <1>5, ThreadNames DEF LoopExit, mainVars
<1>6. CASE UNCHANGED stopVars
  BY <1>6 DEF stopVars, StopInv, StopTypes, StartedInOrder, StoppedInOrder, CleanExit
<1>7. QED
  BY <1>1, <1>3, <1>4, <1>5, <1>6, StopSteps

\* The order is kept throughout.
LEMMA StopInvariant == Spec => []StopInv
  BY StopInvInit, StopInvNext, PTL DEF Spec

(* main's stop order: the control thread, which posts to the supervisor    *)
(* and the loops, is over before any of them is told to stop.              *)
THEOREM ControlStopsFirst == Spec => []ServersOutlive
<1>1. StopInv => ServersOutlive
  BY ThreadNames DEF StopInv, StopTypes, StoppedInOrder, ServersOutlive
<1>2. QED
  BY <1>1, StopInvariant, PTL

(* main's returns: whatever start-up step failed, no thread is left.       *)
THEOREM ExitsClean == Spec => []CleanExit
<1>1. StopInv => CleanExit
  BY DEF StopInv
<1>2. QED
  BY <1>1, StopInvariant, PTL
-----------------------------------------------------------------------------
(* The log and the internet watch.                                         *)

LogFile == [mirror : BOOLEAN, lines : Nat, cursor : Nat, pulled : SUBSET Nat, ring : Nat]

LogTypes ==
  /\ log \in LogFile
  /\ net \in [at : {"probe", "store", "wait"}, up : BOOLEAN, state : {"Unknown", "Up", "Down"}]
  /\ outages \in Int

(* Between a probe and the store of its result, up runs ahead of state;    *)
(* the loss is in the ring from the probe on.                              *)
WatchInv ==
  /\ net.at # "store" => (net.state = "Down" <=> ~net.up)
  /\ outages = IF net.up THEN 0 ELSE 1
  /\ net.state = "Down" \/ ~net.up => log.ring > 0

LogInv == LogTypes /\ WatchInv /\ LogPulled

\* The log starts unread, the watch with an unknown state.
LEMMA LogInvInit == Init => LogInv
<1>1. SUFFICES ASSUME Init PROVE LogInv
  OBVIOUS
<1>2. setup.mirror \in BOOLEAN
  BY <1>1, ConstantsAssumption DEF Init
<1>3. PICK m \in BOOLEAN : log = [mirror |-> m, lines |-> IF m THEN 1 ELSE 0, cursor |-> 0,
                                 pulled |-> {}, ring |-> 0]
  BY <1>1, <1>2 DEF Init
<1>4. net = [at |-> "probe", up |-> TRUE, state |-> "Unknown"] /\ outages = 0
  BY <1>1 DEF Init
<1>5. log \in LogFile /\ log.cursor = 0
  BY <1>3 DEF LogFile
<1>6. LogTypes /\ WatchInv
  BY <1>4, <1>5 DEF LogTypes, WatchInv
<1>7. QED
  BY <1>5, <1>6 DEF LogInv, LogPulled

\* What a writer changes in the log.
LEMMA LogWritten ==
  ASSUME LogInv, NEW f, f \in Written(log) \cup Written(InRing(log))
  PROVE  /\ f \in LogFile
         /\ f.cursor = log.cursor /\ f.pulled = log.pulled
         /\ f.ring >= log.ring
         /\ f \in Written(InRing(log)) => f.ring > 0
<1>1. log \in LogFile
  BY DEF LogInv, LogTypes
<1>2. /\ InRing(log) \in LogFile
      /\ InRing(log).cursor = log.cursor /\ InRing(log).pulled = log.pulled
      /\ InRing(log).ring >= log.ring /\ InRing(log).ring > 0
  <2>1. CASE log.ring < kMaxCriticalEntries
    <3>1. PICK r \in Nat : r = log.ring + 1 /\ InRing(log) = [log EXCEPT !.ring = r]
      <4>1. log.ring + 1 \in Nat
        BY <1>1 DEF LogFile
      <4>2. InRing(log) = [log EXCEPT !.ring = log.ring + 1]
        BY <2>1 DEF InRing
      <4>3. QED
        BY <4>1, <4>2, Zenon
    <3>2. QED
      BY <1>1, <3>1 DEF LogFile
  <2>2. CASE ~(log.ring < kMaxCriticalEntries)
    BY <1>1, <2>2, ConstantsAssumption DEF LogFile, InRing
  <2>3. QED
    BY <2>1, <2>2
<1>3. ASSUME NEW g \in LogFile, NEW h \in Written(g)
      PROVE  h \in LogFile /\ h.cursor = g.cursor /\ h.pulled = g.pulled /\ h.ring = g.ring
  <2>1. g.lines + 1 \in Nat
    BY DEF LogFile
  <2>2. h = g \/ h = [g EXCEPT !.lines = g.lines + 1]
    BY DEF Written
  <2>3. ASSUME NEW n \in Nat, h = [g EXCEPT !.lines = n]
        PROVE  h \in LogFile /\ h.cursor = g.cursor /\ h.pulled = g.pulled /\ h.ring = g.ring
    BY <2>3 DEF LogFile
  <2>4. QED
    BY <2>1, <2>2, <2>3, Zenon
<1>4. log.ring \in Nat
  BY <1>1 DEF LogFile
<1>5. QED
  BY <1>1, <1>2, <1>3, <1>4

\* log_pull_new shows every line it moves the cursor over.
LEMMA LogRead ==
  ASSUME LogInv, NEW n \in Nat, log' = LogPullNew(log, n), UNCHANGED <<net, outages>>
  PROVE  LogInv'
<1>1. /\ log \in LogFile /\ log.cursor \in Nat /\ log.pulled \in SUBSET Nat
      /\ log' = [log EXCEPT !.pulled = log.pulled \cup (log.cursor + 1 .. n), !.cursor = n]
  BY DEF LogInv, LogTypes, LogFile, LogPullNew
<1>2. PICK shown \in SUBSET Nat :
        /\ shown = log.pulled \cup (log.cursor + 1 .. n)
        /\ log' = [log EXCEPT !.pulled = shown, !.cursor = n]
  <2>1. log.pulled \cup (log.cursor + 1 .. n) \in SUBSET Nat
    BY <1>1
  <2>2. QED
    BY <1>1, <2>1, Zenon
<1>3. log' \in LogFile /\ log'.cursor = n /\ log'.pulled = shown /\ log'.ring = log.ring
  BY <1>1, <1>2 DEF LogFile
<1>4. LogPulled'
  <2>1. 1 .. log.cursor \subseteq log.pulled
    BY DEF LogInv, LogPulled
  <2>2. \A i \in 1 .. n : i \in 1 .. log.cursor \/ i \in log.cursor + 1 .. n
    BY <1>1
  <2>3. 1 .. n \subseteq shown
    BY <1>2, <2>1, <2>2
  <2>4. QED
    BY <1>3, <2>3 DEF LogPulled
<1>5. QED
  BY <1>3, <1>4 DEF LogInv, LogTypes, WatchInv

\* Every step keeps what is logged and read.
LEMMA LogInvNext ==
  ASSUME LogInv, [Next]_vars
  PROVE  LogInv'
<1>1. CASE UNCHANGED logVars
  BY <1>1 DEF logVars, LogInv, LogTypes, WatchInv, LogPulled
<1>2. CASE DispatchErrors \/ DispatchErrorsUnreadable
  <2>1. log.lines \in Nat /\ 0 \in Nat
    BY DEF LogInv, LogTypes, LogFile
  <2>2. UNCHANGED logVars \/ (\E n \in Nat : log' = LogPullNew(log, n) /\ UNCHANGED <<net, outages>>)
    BY <1>2, <2>1 DEF DispatchErrors, DispatchErrorsUnreadable, logVars
  <2>3. QED
    BY <1>1, <2>2, LogRead
<1>3. CASE LogWarn
  <2>1. log' \in Written(log) /\ net' = net /\ outages' = outages
    BY <1>3 DEF LogWarn
  <2>2. log' \in LogFile /\ log'.cursor = log.cursor /\ log'.pulled = log.pulled /\ log'.ring >= log.ring
    BY <2>1, LogWritten
  <2>3. log.ring \in Nat /\ log'.ring \in Nat
    BY <2>2 DEF LogInv, LogTypes, LogFile
  <2>4. WatchInv'
    BY <2>1, <2>2, <2>3 DEF LogInv, WatchInv
  <2>5. QED
    BY <2>1, <2>2, <2>4 DEF LogInv, LogTypes, LogPulled
<1>4. CASE ProbeFails
  <2>1. net' = [net EXCEPT !.at = "store", !.up = FALSE] /\ net.at = "probe"
    BY <1>4 DEF ProbeFails, Watching
  <2>2. /\ net' \in [at : {"probe", "store", "wait"}, up : BOOLEAN, state : {"Unknown", "Up", "Down"}]
        /\ net'.at = "store" /\ net'.up = FALSE
    BY <2>1 DEF LogInv, LogTypes
  <2>3. CASE net.state # "Down"
    <3>1. outages' = outages + 1 /\ log' \in Written(InRing(log))
      BY <1>4, <2>3 DEF ProbeFails
    <3>2. outages = 0
      BY <2>1, <2>3 DEF LogInv, LogTypes, WatchInv
    <3>3. /\ log' \in LogFile /\ log'.cursor = log.cursor /\ log'.pulled = log.pulled
          /\ log'.ring > 0
      BY <3>1, LogWritten
    <3>4. WatchInv'
      BY <2>2, <3>1, <3>2, <3>3 DEF WatchInv
    <3>5. QED
      BY <2>2, <3>1, <3>2, <3>3, <3>4 DEF LogInv, LogTypes, LogPulled
  <2>4. CASE net.state = "Down"
    <3>1. outages' = outages /\ log' = log
      BY <1>4, <2>4 DEF ProbeFails
    <3>2. outages = 1
      BY <2>1, <2>4 DEF LogInv, LogTypes, WatchInv
    <3>3. QED
      BY <2>2, <2>4, <3>1, <3>2 DEF LogInv, LogTypes, WatchInv, LogPulled
  <2>5. QED
    BY <2>3, <2>4
<1>5. CASE ProbeSucceeds
  <2>1. /\ net' = [net EXCEPT !.at = "store", !.up = TRUE] /\ net.at = "probe" /\ log' = log
        /\ outages' = IF net.state = "Down" THEN outages - 1 ELSE outages
    BY <1>5 DEF ProbeSucceeds, Watching
  <2>2. /\ net' \in [at : {"probe", "store", "wait"}, up : BOOLEAN, state : {"Unknown", "Up", "Down"}]
        /\ net'.at = "store" /\ net'.up = TRUE /\ net'.state = net.state
    BY <2>1 DEF LogInv, LogTypes
  <2>3. outages = IF net.state = "Down" THEN 1 ELSE 0
    BY <2>1 DEF LogInv, LogTypes, WatchInv
  <2>4. outages' = 0
    BY <2>1, <2>3
  <2>5. WatchInv'
    BY <2>1, <2>2, <2>4 DEF LogInv, WatchInv
  <2>6. QED
    BY <2>1, <2>2, <2>4, <2>5 DEF LogInv, LogTypes, LogPulled
<1>6. CASE StoreNetState
  BY <1>6 DEF StoreNetState, Watching, LogInv, LogTypes, WatchInv, LogPulled
<1>7. CASE WatchAgain
  BY <1>7 DEF WatchAgain, Watching, LogInv, LogTypes, WatchInv, LogPulled
<1>8. CASE MainStep
  BY <1>1, <1>8 DEF MainStep, StartSupervisor, LoadRoutes, MakeListeners, StartNetWatch,
                    StartControl, Term, Stop, Join, Quiet
<1>9. CASE CtlStep
  <2>1. CASE Dispatch
    BY <1>1, <1>2, <2>1, DispatchQuiet
  <2>2. CASE AcceptClient \/ WriteSome \/ WriteDone \/ CloseSession \/ LinesDone \/ LeaveSession
    BY <1>1, <2>2 DEF AcceptClient, WriteSome, WriteDone, CloseSession, LinesDone,
                      LeaveSession, CtlOnly
  <2>3. CASE CtlExit \/ Answered \/ Deadline
    BY <1>1, <2>3 DEF CtlExit, Answered, Deadline, Answer
  <2>4. QED
    BY <1>9, <2>1, <2>2, <2>3 DEF CtlStep
<1>10. CASE NetExit \/ Signal \/ Connect \/ HangUp \/ ReadReply
  BY <1>1, <1>10 DEF NetExit, Signal, Connect, HangUp, ReadReply, ClientOnly
<1>11. ASSUME NEW batch, ReadLines(batch)
       PROVE  UNCHANGED logVars
  BY <1>11 DEF ReadLines, CtlOnly
<1>12. ASSUME NEW l \in Posted, RunTask(l) \/ LoopExit(l)
       PROVE  UNCHANGED logVars
  BY <1>12 DEF RunTask, LoopExit
<1>13. CASE Exited \/ UNCHANGED vars
  BY <1>1, <1>13 DEF Exited, vars, logVars
<1>14. QED
  BY <1>1, <1>3, <1>4, <1>5, <1>6, <1>7, <1>8, <1>9, <1>10, <1>11, <1>12, <1>13
     DEF Next, NetStep

\* The log is right throughout.
LEMMA LogInvariant == Spec => []LogInv
  BY LogInvInit, LogInvNext, PTL DEF Spec

(* log_pull_new: whenever it is called and whether or not the file can be  *)
(* opened, no line is skipped.                                             *)
THEOREM NoLineSkipped == Spec => []LogPulled
<1>1. LogInv => LogPulled
  BY DEF LogInv
<1>2. QED
  BY <1>1, LogInvariant, PTL

(* The internet watch: one line per outage and one per recovery, and the   *)
(* loss is in the ring before the state says Down.                         *)
THEOREM OutagesAreLogged == Spec => []OutagesLogged
<1>1. LogInv => OutagesLogged
  BY DEF LogInv, WatchInv, OutagesLogged
<1>2. QED
  BY <1>1, LogInvariant, PTL
-----------------------------------------------------------------------------
(* The answers.                                                            *)

\* What a command can be told, and by which loops.
Told == {"nothing", "restarting", "no such service", "report", "not responding", "health"}
AnswerSet == [told : Told, by : SUBSET Posted]

AnswerTypes ==
  /\ asked \in Seq(Posting)
  /\ answers \in Seq(AnswerSet) /\ Len(answers) = Len(asked)
  /\ tasks \in [Posted -> Seq(Nat)] /\ ran \in [Posted -> SUBSET Nat]
  /\ "at" \in DOMAIN ctl

(* The control thread awaits the command it posted last.                   *)
AnswerInv ==
  /\ AnswerTypes
  /\ ctl.at = "await" => Len(asked) > 0
  /\ HonestHealth /\ RestartHonest

\* Nothing is asked yet.
LEMMA AnswerInvInit == Init => AnswerInv
<1>1. SUFFICES ASSUME Init PROVE AnswerInv
  OBVIOUS
<1>2. asked = <<>> /\ answers = <<>>
  BY <1>1 DEF Init
<1>3. /\ tasks = [l \in Posted |-> <<>>] /\ ran = [l \in Posted |-> {}]
      /\ ctl = [at |-> "poll", inbuf |-> <<>>, left |-> 0, closing |-> FALSE]
  BY <1>1 DEF Init
<1>4. AnswerTypes
  BY <1>2, <1>3 DEF AnswerTypes
<1>5. QED
  BY <1>2, <1>3, <1>4 DEF AnswerInv, HonestHealth, RestartHonest

\* A step that posts nothing and answers nothing.
LEMMA NothingAnswered ==
  ASSUME AnswerInv, UNCHANGED postVars,
         ctl' = ctl \/ ("at" \in DOMAIN ctl' /\ ctl'.at # "await")
  PROVE  AnswerInv'
  BY DEF AnswerInv, AnswerTypes, HonestHealth, RestartHonest, postVars

\* A new command has a promise of its own, which nobody has kept.
LEMMA PostStep ==
  ASSUME AnswerInv, DispatchPost
  PROVE  AnswerInv'
<1>1. PICK cmd \in Posting :
        /\ asked' = Append(asked, cmd) /\ answers' = Append(answers, Unanswered)
        /\ tasks' = [l \in Posted |-> IF l \in Targets(cmd)
                                      THEN Append(tasks[l], Len(asked) + 1) ELSE tasks[l]]
        /\ ctl' = [ctl EXCEPT !.inbuf = Tail(@), !.at = "await"] /\ ran' = ran
  BY DEF DispatchPost
<1>2. /\ asked \in Seq(Posting) /\ Len(asked) \in Nat /\ Len(answers) = Len(asked)
      /\ answers \in Seq(AnswerSet)
  BY DEF AnswerInv, AnswerTypes
<1>3. Unanswered \in AnswerSet /\ Unanswered.told = "nothing"
  BY DEF Unanswered, AnswerSet, Told
<1>4. /\ asked' \in Seq(Posting) /\ Len(asked') = Len(asked) + 1
      /\ \A i \in 1 .. Len(asked) : asked'[i] = asked[i]
  BY <1>1, <1>2
<1>5. /\ answers' \in Seq(AnswerSet) /\ Len(answers') = Len(asked')
      /\ answers'[Len(asked')] = Unanswered
      /\ \A i \in 1 .. Len(asked) : answers'[i] = answers[i]
  BY <1>1, <1>2, <1>3, <1>4
<1>6. tasks' \in [Posted -> Seq(Nat)]
  BY <1>1, <1>2 DEF AnswerInv, AnswerTypes
<1>7. "at" \in DOMAIN ctl'
  BY <1>1 DEF AnswerInv, AnswerTypes
<1>8. \A i \in 1 .. Len(asked') : i \in 1 .. Len(asked) \/ i = Len(asked')
  BY <1>2, <1>4
<1>9. HonestHealth' /\ RestartHonest'
  BY <1>1, <1>3, <1>4, <1>5, <1>8 DEF AnswerInv, HonestHealth, RestartHonest
<1>10. QED
  BY <1>1, <1>2, <1>4, <1>5, <1>6, <1>7, <1>9 DEF AnswerInv, AnswerTypes

\* The answer to the last ticket is honest if it names loops that have run it.
LEMMA AnswerStep ==
  ASSUME AnswerInv, ctl.at = "await", NEW told \in Told, Answer(told, Responders),
         told = "restarting" => asked[Ticket] = "restart" /\ Ticket \in ran["sup"]
  PROVE  AnswerInv'
<1>1. /\ answers' = [answers EXCEPT ![Ticket] = [told |-> told, by |-> Responders]]
      /\ ctl' = [ctl EXCEPT !.at = "write", !.left = 1]
      /\ tasks' = tasks /\ ran' = ran /\ asked' = asked
  BY DEF Answer
<1>2. /\ Ticket = Len(asked) /\ Ticket \in 1 .. Len(answers) /\ Len(answers) = Len(asked)
      /\ answers \in Seq(AnswerSet)
  BY DEF AnswerInv, AnswerTypes, Ticket
<1>3. Responders \subseteq Posted /\ \A l \in Responders : Ticket \in ran[l]
  BY DEF Responders, Targets, Posted
<1>4. PICK a \in AnswerSet :
        /\ a.told = told /\ a.by = Responders /\ answers' = [answers EXCEPT ![Ticket] = a]
  <2>1. [told |-> told, by |-> Responders] \in AnswerSet
    BY <1>3 DEF AnswerSet
  <2>2. QED
    BY <1>1, <2>1
<1>5. /\ answers' \in Seq(AnswerSet) /\ Len(answers') = Len(answers)
      /\ answers'[Ticket] = a
      /\ \A i \in 1 .. Len(asked) : i # Ticket => answers'[i] = answers[i]
  BY <1>2, <1>4
<1>6. "at" \in DOMAIN ctl' /\ ctl'.at # "await"
  BY <1>1 DEF AnswerInv, AnswerTypes
<1>7. HonestHealth'
  BY <1>1, <1>2, <1>3, <1>4, <1>5 DEF AnswerInv, HonestHealth
<1>8. RestartHonest'
  BY <1>1, <1>2, <1>4, <1>5 DEF AnswerInv, RestartHonest
<1>9. QED
  BY <1>1, <1>2, <1>5, <1>6, <1>7, <1>8 DEF AnswerInv, AnswerTypes

\* A loop that runs a task takes nothing back.
LEMMA RunStep ==
  ASSUME AnswerInv, NEW l \in Posted, RunTask(l)
  PROVE  AnswerInv'
<1>1. /\ tasks[l] # <<>> /\ tasks' = [tasks EXCEPT ![l] = Tail(@)]
      /\ ran' = [ran EXCEPT ![l] = @ \cup {Head(tasks[l])}]
      /\ asked' = asked /\ answers' = answers /\ ctl' = ctl
  BY DEF RunTask, ctlVars
<1>2. Head(tasks[l]) \in Nat /\ Tail(tasks[l]) \in Seq(Nat)
  BY <1>1 DEF AnswerInv, AnswerTypes
<1>3. /\ tasks' \in [Posted -> Seq(Nat)] /\ ran' \in [Posted -> SUBSET Nat]
      /\ \A k \in Posted : ran[k] \subseteq ran'[k]
  BY <1>1, <1>2 DEF AnswerInv, AnswerTypes
<1>4. \A i \in 1 .. Len(asked) : answers[i].by \subseteq Posted
  <2>1. \A i \in 1 .. Len(asked) : answers[i] \in AnswerSet
    BY DEF AnswerInv, AnswerTypes
  <2>2. \A a \in AnswerSet : a.by \subseteq Posted
    BY DEF AnswerSet
  <2>3. QED
    BY <2>1, <2>2
<1>5. HonestHealth' /\ RestartHonest'
  BY <1>1, <1>3, <1>4, ThreadNames DEF AnswerInv, HonestHealth, RestartHonest
<1>6. QED
  BY <1>1, <1>3, <1>5 DEF AnswerInv, AnswerTypes

\* Every step keeps the answers honest.
LEMMA AnswerInvNext ==
  ASSUME AnswerInv, [Next]_vars
  PROVE  AnswerInv'
<1>1. "at" \in DOMAIN ctl
  BY DEF AnswerInv, AnswerTypes
<1>2. CASE UNCHANGED postVars /\ ctl' = ctl
  BY <1>2, NothingAnswered
<1>3. CASE MainStep
  BY <1>2, <1>3 DEF MainStep, StartSupervisor, LoadRoutes, MakeListeners, StartNetWatch,
                    StartControl, Term, Stop, Join, Quiet, ctlVars
<1>4. CASE NetStep \/ LogWarn
  BY <1>2, <1>4 DEF NetStep, ProbeFails, ProbeSucceeds, StoreNetState, WatchAgain, NetExit,
                    LogWarn, NetOnly, ctlVars
<1>5. CASE CtlExit \/ Signal \/ Connect \/ HangUp \/ ReadReply
  BY <1>2, <1>5 DEF CtlExit, Signal, Connect, HangUp, ReadReply, ClientOnly, ctlVars
<1>6. CASE AcceptClient \/ WriteSome \/ WriteDone \/ LinesDone
  BY <1>1, <1>6, NothingAnswered DEF AcceptClient, WriteSome, WriteDone, LinesDone, At, CtlOnly
<1>7. CASE CloseSession \/ LeaveSession
  BY <1>7, NothingAnswered DEF CloseSession, LeaveSession, EndSession, CtlOnly
<1>8. CASE Dispatch
  <2>1. CASE DispatchPost
    BY <2>1, PostStep
  <2>2. CASE DispatchExit
    BY <1>1, <2>2, NothingAnswered DEF DispatchExit
  <2>3. CASE DispatchSimple \/ DispatchShutdown \/ DispatchErrors \/ DispatchErrorsUnreadable
             \/ DispatchSystemStatus \/ DispatchNoSupervisor
    <3>1. UNCHANGED postVars /\ \E n : Reply(n)
      BY <2>3 DEF DispatchSimple, DispatchShutdown, DispatchErrors, DispatchErrorsUnreadable,
                  DispatchSystemStatus, DispatchNoSupervisor
    <3>2. QED
      BY <1>1, <3>1, NothingAnswered DEF Reply
  <2>4. QED
    BY <1>8, <2>1, <2>2, <2>3 DEF Dispatch
<1>9. ASSUME At("await")
      PROVE  asked[Ticket] \in {"services", "restart", "restart?", "health"} /\ ctl.at = "await"
  BY <1>9 DEF AnswerInv, AnswerTypes, At, Ticket, Posting, ToSupervisor
<1>10. CASE Answered
  <2>1. At("await") /\ Responders = Targets(asked[Ticket])
    BY <1>10 DEF Answered
  <2>2. PICK told \in Told :
          Answer(told, Responders) /\ (told = "restarting" => asked[Ticket] = "restart")
    <3> DEFINE t == CASE asked[Ticket] = "restart"  -> "restarting"
                      [] asked[Ticket] = "restart?" -> "no such service"
                      [] asked[Ticket] = "services" -> "report"
                      [] asked[Ticket] = "health"   -> "health"
    <3>1. t \in Told /\ (t = "restarting" => asked[Ticket] = "restart")
      BY <1>9, <2>1 DEF Told
    <3>2. Answer(t, Responders)
      BY <1>10 DEF Answered
    <3> HIDE DEF t
    <3>3. QED
      BY <3>1, <3>2
  <2>3. asked[Ticket] = "restart" => Ticket \in ran["sup"]
    BY <2>1 DEF Responders, Targets
  <2>4. QED
    BY <1>9, <2>1, <2>2, <2>3, AnswerStep
<1>11. CASE Deadline
  <2>1. At("await")
    BY <1>11 DEF Deadline
  <2>2. PICK told \in Told : Answer(told, Responders) /\ told # "restarting"
    <3> DEFINE t == CASE asked[Ticket] \in {"restart", "restart?"} -> "no such service"
                      [] asked[Ticket] = "services" -> "not responding"
                      [] asked[Ticket] = "health"   -> "health"
    <3>1. t \in Told /\ t # "restarting"
      BY <1>9, <2>1 DEF Told
    <3>2. Answer(t, Responders)
      BY <1>11 DEF Deadline
    <3> HIDE DEF t
    <3>3. QED
      BY <3>1, <3>2
  <2>3. QED
    BY <1>9, <2>1, <2>2, AnswerStep
<1>12. ASSUME NEW batch, ReadLines(batch)
       PROVE  AnswerInv'
  BY <1>1, <1>12, NothingAnswered DEF ReadLines, CtlOnly
<1>13. ASSUME NEW l \in Posted, RunTask(l) \/ LoopExit(l)
       PROVE  AnswerInv'
  BY <1>2, <1>13, RunStep DEF LoopExit, ctlVars
<1>14. CASE Exited \/ UNCHANGED vars
  BY <1>2, <1>14 DEF Exited, vars, postVars
<1>15. QED
  BY <1>3, <1>4, <1>5, <1>6, <1>7, <1>8, <1>10, <1>11, <1>12, <1>13, <1>14 DEF Next, CtlStep

\* The answers are honest throughout.
LEMMA AnswerInvariant == Spec => []AnswerInv
  BY AnswerInvInit, AnswerInvNext, PTL DEF Spec

(* cmd_health: a loop counts as responsive only for the very probe it ran, *)
(* however late it was with the earlier ones.                              *)
THEOREM HealthIsHonest == Spec => []HonestHealth
<1>1. AnswerInv => HonestHealth
  BY DEF AnswerInv
<1>2. QED
  BY <1>1, AnswerInvariant, PTL

(* cmd_restart: "restarting" is told only of a restart the supervisor has  *)
(* run.                                                                    *)
THEOREM RestartsAreHonest == Spec => []RestartHonest
<1>1. AnswerInv => RestartHonest
  BY DEF AnswerInv
<1>2. QED
  BY <1>1, AnswerInvariant, PTL
=============================================================================
