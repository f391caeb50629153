---------------------------- MODULE ControlPlane -----------------------------
(***************************************************************************)
(* main() from start-up to exit, with the threads it starts and stops: the *)
(* control server and its admin sessions, the supervisor's and the worker  *)
(* loops as the task queues the control server posts to, the internet      *)
(* watch, and the log they write and read.                                 *)
(*                                                                         *)
(* A posted command is known by its ticket, its place in `asked`; each has *)
(* a promise of its own.  Time is not counted: while an answer is missing, *)
(* its deadline may pass.  What the supervisor does with a command is in   *)
(* Supervisor, and that its stop ends is shown there.                      *)
(***************************************************************************)
EXTENDS Integers, FiniteSets, Sequences

CONSTANTS
  Loops,               \* worker loops
  Setups,              \* how castle is started, and what its admin may send
  SockBuf,             \* replies the admin's socket holds unread
  MaxPosted,           \* bound on the commands that are posted to a loop
  MaxLines,            \* lines the disk has room for
  kMaxCriticalEntries

ASSUME ConstantsAssumption ==
  /\ IsFiniteSet(Loops) /\ Loops \cap {"sup", "net", "ctl"} = {}
  /\ SockBuf \in Nat \ {0} /\ kMaxCriticalEntries \in Nat \ {0}
  /\ MaxPosted \in Nat /\ MaxLines \in Nat
  /\ \A s \in Setups : {s.services, s.watch, s.mirror} \subseteq BOOLEAN

Threads == Loops \cup {"sup", "net", "ctl"}

(* "ping" stands for the commands answered on the spot (help, ping, status,  *)
(* clear, an unknown word), "services" for the two supervisor reports, and   *)
(* "restart?" for the restart of a name no service has.                      *)
ToSupervisor == {"services", "restart", "restart?"}
Posting == ToSupervisor \cup {"health"}
Commands == Posting \cup {"ping", "blank", "exit", "shutdown", "errors", "systemstatus"}

VARIABLES
  setup,     \* the setup of this run; batches: the lines one read may bring
  main,      \* main's place; "stop" and "join" work through Order
  stage,     \* how far main is in Order
  thread,    \* thread[t]: "none" (not started), "run" or "done"
  stopping,  \* threads told to stop
  term,      \* SIGTERM or SIGINT has been sent
  ctl,       \* the control thread: place, inbuf, replies to write, close_session
  client,    \* the admin: "away", "queued", "open" or "gone"
  unread,    \* replies in the admin's socket
  tasks,     \* tasks[l]: tickets posted to loop l
  ran,       \* ran[l]: tickets l has run
  asked,     \* commands posted so far
  answers,   \* answers[i]: what ticket i was answered
  net,       \* the watch thread: place, last probe, and internet_state
  outages,   \* "lost" lines logged by the watch, less "restored" lines
  log        \* file lines, reader's cursor, lines pulled, CRITICAL ring

mainVars == <<setup, main, stage>>
ctlVars == <<ctl, client, unread>>
postVars == <<tasks, ran, asked, answers>>
logVars == <<net, outages, log>>
vars == <<setup, main, stage, thread, stopping, term, ctl, client, unread,
          tasks, ran, asked, answers, net, outages, log>>

Posted == Loops \cup {"sup"}
Unanswered == [told |-> "nothing", by |-> {}]

(* log_init may have failed, or be off: then nothing is mirrored.  The file  *)
(* starts with the logger's "Created." line.                                 *)
Init ==
  /\ setup \in Setups
  /\ main = "services" /\ stage = 1
  /\ thread = [t \in Threads |-> "none"]
  /\ stopping = {} /\ term = FALSE
  /\ ctl = [at |-> "poll", inbuf |-> <<>>, left |-> 0, closing |-> FALSE]
  /\ client = "away" /\ unread = 0
  /\ tasks = [l \in Posted |-> <<>>] /\ ran = [l \in Posted |-> {}]
  /\ asked = <<>> /\ answers = <<>>
  /\ net = [at |-> "probe", up |-> TRUE, state |-> "Unknown"]
  /\ outages = 0
  /\ log \in {[mirror |-> m, lines |-> IF m THEN 1 ELSE 0, cursor |-> 0,
               pulled |-> {}, ring |-> 0] : m \in {FALSE, setup.mirror}}
-----------------------------------------------------------------------------
(* The log.  Logger::write appends a line, or throws and the line is only on *)
(* stderr.                                                                   *)
Written(f) == {f} \cup IF f.mirror /\ f.lines < MaxLines
                       THEN {[f EXCEPT !.lines = @ + 1]} ELSE {}

(* log_msg at CRITICAL: into the ring, the oldest entry making room. *)
InRing(f) == IF f.ring < kMaxCriticalEntries THEN [f EXCEPT !.ring = @ + 1] ELSE f

(* Mutant: the lines are counted before the reader has indexed the file. *)
LogPullNewStale(f, n) ==
  [f EXCEPT !.pulled = @ \cup (f.cursor + 1 .. n - 1), !.cursor = n]

(* log_pull_new: the reader finds n lines, 0 when the file cannot be opened, *)
(* and returns those from the cursor on.                                     *)
LogPullNew(f, n) ==
  [f EXCEPT !.pulled = @ \cup (f.cursor + 1 .. n), !.cursor = n]
-----------------------------------------------------------------------------
(* main: start-up. *)
Start(t) == thread' = [thread EXCEPT ![t] = "run"]
Goto(place) == main' = place /\ UNCHANGED <<setup, stage>>
Quiet == UNCHANGED <<stopping, term>> /\ UNCHANGED ctlVars
         /\ UNCHANGED postVars /\ UNCHANGED logVars

(* The supervisor starts, or is not configured, or fails to start and is     *)
(* reset; a manifest that does not parse ends the program.                   *)
StartSupervisor ==
  /\ main = "services"
  /\ \/ setup.services /\ Goto("routes") /\ Start("sup")
     \/ Goto("routes") /\ UNCHANGED thread
     \/ setup.services /\ Goto("exited") /\ UNCHANGED thread
  /\ Quiet

(* Mutant: a bad routes file leaves at once. *)
LoadRoutesExits ==
  /\ main = "routes"
  /\ Goto("listeners") \/ Goto("exited")
  /\ UNCHANGED thread /\ Quiet

(* Returning from main destroys the supervisor, whose destructor stops it:   *)
(* the same stage as in an orderly stop.                                     *)
Unwind == main' = "stop" /\ stage' = 3 /\ UNCHANGED setup

(* Routes and TLS files are read; a failure returns from main. *)
LoadRoutes ==
  /\ main = "routes"
  /\ Goto("listeners") \/ Unwind
  /\ UNCHANGED thread /\ Quiet

(* All listeners are made before the first worker thread starts. *)
MakeListeners ==
  /\ main = "listeners"
  /\ \/ Goto("net") /\ thread' = [t \in Threads |-> IF t \in Loops THEN "run" ELSE thread[t]]
     \/ Unwind /\ UNCHANGED thread
  /\ Quiet

StartNetWatch ==
  /\ main = "net"
  /\ Goto("control")
  /\ IF setup.watch THEN Start("net") ELSE UNCHANGED thread
  /\ Quiet

(* ControlServer::start binds its socket, or is disabled or fails, and every *)
(* failing step undoes the ones before it.                                   *)
StartControl ==
  /\ main = "control"
  /\ Goto("sigwait")
  /\ Start("ctl") \/ UNCHANGED thread
  /\ Quiet
-----------------------------------------------------------------------------
(* main: signals and the order of the stops. *)
Signal ==
  /\ main # "exited" /\ ~term
  /\ term' = TRUE
  /\ UNCHANGED <<thread, stopping>> /\ UNCHANGED mainVars /\ UNCHANGED ctlVars
  /\ UNCHANGED postVars /\ UNCHANGED logVars

(* sigwait returns SIGTERM or SIGINT.  For SIGHUP it reloads the TLS files,  *)
(* which Admission models, and waits again.                                  *)
Term ==
  /\ main = "sigwait" /\ term
  /\ Goto("stop")
  /\ UNCHANGED thread /\ Quiet

(* Mutant: the supervisor is stopped before the control plane. *)
OrderSwapped == <<{"sup"}, {"net"}, {"ctl"}, Loops>>

Order == <<{"ctl"}, {"net"}, {"sup"}, Loops>>

(* control->stop(), net_watch->stop(), supervisor->stop() and the loops'     *)
(* stop(): each tells its threads, if they were started.                     *)
Stop ==
  /\ main = "stop"
  /\ Goto("join")
  /\ stopping' = stopping \cup {t \in Order[stage] : thread[t] # "none"}
  /\ UNCHANGED <<thread, term>> /\ UNCHANGED ctlVars
  /\ UNCHANGED postVars /\ UNCHANGED logVars

(* ... and the join that follows. *)
Join ==
  /\ main = "join"
  /\ \A t \in Order[stage] : thread[t] # "run"
  /\ IF stage < Len(Order) THEN main' = "stop" /\ stage' = stage + 1 /\ UNCHANGED setup
     ELSE Goto("exited")
  /\ UNCHANGED thread /\ Quiet
-----------------------------------------------------------------------------
(* The control thread. *)
At(place) == thread["ctl"] = "run" /\ ctl.at = place
StopSeen == "ctl" \in stopping
CtlOnly == UNCHANGED <<thread, stopping, term>> /\ UNCHANGED mainVars
           /\ UNCHANGED postVars /\ UNCHANGED logVars

(* run(): a client is accepted and welcomed with two writes. *)
AcceptClient ==
  /\ At("poll") /\ ~StopSeen /\ client = "queued"
  /\ client' = "open"
  /\ ctl' = [ctl EXCEPT !.at = "write", !.left = 2]
  /\ UNCHANGED unread /\ CtlOnly

(* run(): the stop was seen. *)
CtlExit ==
  /\ At("poll") /\ StopSeen
  /\ thread' = [thread EXCEPT !["ctl"] = "done"]
  /\ UNCHANGED <<stopping, term>> /\ UNCHANGED mainVars /\ UNCHANGED ctlVars
  /\ UNCHANGED postVars /\ UNCHANGED logVars

(* write_all blocks until the admin reads. *)
WriteSome ==
  /\ At("write") /\ ctl.left > 0 /\ unread < SockBuf /\ client = "open"
  /\ unread' = unread + 1
  /\ ctl' = [ctl EXCEPT !.left = @ - 1]
  /\ UNCHANGED client /\ CtlOnly

(* write_all ends: all written, or the admin is gone (EPIPE). *)
WriteDone ==
  /\ At("write") /\ (ctl.left = 0 \/ client = "gone")
  /\ ctl' = [ctl EXCEPT !.at = "line", !.left = 0]
  /\ UNCHANGED <<client, unread>> /\ CtlOnly

EndSession ==
  /\ ctl' = [at |-> "poll", inbuf |-> <<>>, left |-> 0, closing |-> FALSE]
  /\ client' = "away" /\ unread' = 0

(* handle_client: `exit` was answered. *)
CloseSession == At("line") /\ ctl.closing /\ EndSession /\ CtlOnly

(* handle_client: no whole line is left; poll again. *)
LinesDone ==
  /\ At("line") /\ ~ctl.closing /\ ctl.inbuf = <<>>
  /\ ctl' = [ctl EXCEPT !.at = "session"]
  /\ UNCHANGED <<client, unread>> /\ CtlOnly

(* Mutant: an open session does not watch for the stop. *)
LeaveSessionOnlyGone == At("session") /\ client = "gone" /\ EndSession /\ CtlOnly

(* handle_client: the stop was seen, or the admin closed. *)
LeaveSession == At("session") /\ (StopSeen \/ client = "gone") /\ EndSession /\ CtlOnly

(* handle_client: one read, of one or several command lines. *)
ReadLines(batch) ==
  /\ At("session") /\ ~StopSeen /\ client = "open"
  /\ Len(asked) + Len(SelectSeq(batch, LAMBDA c : c \in Posting)) <= MaxPosted
  /\ ctl' = [ctl EXCEPT !.at = "line", !.inbuf = batch]
  /\ UNCHANGED <<client, unread>> /\ CtlOnly

(* dispatch takes the next line.                                             *)
Line(cmd) ==
  /\ At("line") /\ ~ctl.closing /\ ctl.inbuf # <<>> /\ Head(ctl.inbuf) = cmd
  /\ UNCHANGED <<client, unread, thread, stopping>> /\ UNCHANGED mainVars

Reply(n) == ctl' = [ctl EXCEPT !.inbuf = Tail(@), !.at = "write", !.left = n]

(* Commands answered on the spot; a blank line gets no answer. *)
DispatchSimple ==
  \/ /\ Line("ping") /\ Reply(1) /\ UNCHANGED term
     /\ UNCHANGED postVars /\ UNCHANGED logVars
  \/ /\ Line("blank") /\ Reply(0) /\ UNCHANGED term
     /\ UNCHANGED postVars /\ UNCHANGED logVars

DispatchExit ==
  /\ Line("exit")
  /\ ctl' = [ctl EXCEPT !.inbuf = <<>>, !.at = "write", !.left = 1, !.closing = TRUE]
  /\ UNCHANGED term /\ UNCHANGED postVars /\ UNCHANGED logVars

(* shutdown: SIGTERM to ourselves, which main's sigwait catches. *)
DispatchShutdown ==
  /\ Line("shutdown") /\ Reply(1)
  /\ term' = TRUE
  /\ UNCHANGED postVars /\ UNCHANGED logVars

(* errors: the reader may be unable to open the file just now. *)
DispatchErrors ==
  /\ Line("errors") /\ Reply(1)
  /\ log' = IF log.mirror THEN LogPullNew(log, log.lines) ELSE log
  /\ UNCHANGED <<term, net, outages>> /\ UNCHANGED postVars

DispatchErrorsUnreadable ==
  /\ Line("errors") /\ Reply(1)
  /\ log.mirror
  /\ log' = LogPullNew(log, 0)
  /\ UNCHANGED <<term, net, outages>> /\ UNCHANGED postVars

(* systemstatus reads internet_state and the ring of critical entries. *)
DispatchSystemStatus ==
  /\ Line("systemstatus") /\ Reply(1)
  /\ UNCHANGED term /\ UNCHANGED postVars /\ UNCHANGED logVars

(* A supervisor command without a supervisor is answered on the spot. *)
DispatchNoSupervisor ==
  /\ \E cmd \in ToSupervisor : Line(cmd)
  /\ thread["sup"] = "none"
  /\ Reply(1)
  /\ UNCHANGED term /\ UNCHANGED postVars /\ UNCHANGED logVars

Targets(cmd) == IF cmd = "health" THEN Loops ELSE {"sup"}

(* EventLoop::post to the supervisor, or to every loop, with a new promise. *)
DispatchPost ==
  \E cmd \in Posting :
    /\ Line(cmd)
    /\ cmd \in ToSupervisor => thread["sup"] # "none"
    /\ asked' = Append(asked, cmd)
    /\ answers' = Append(answers, Unanswered)
    /\ tasks' = [l \in Posted |-> IF l \in Targets(cmd)
                                  THEN Append(tasks[l], Len(asked) + 1) ELSE tasks[l]]
    /\ ctl' = [ctl EXCEPT !.inbuf = Tail(@), !.at = "await"]
    /\ UNCHANGED <<term, ran>> /\ UNCHANGED logVars

Ticket == Len(asked)

(* Mutant: one promise serves all probes of a loop. *)
RespondersEver == {l \in Targets(asked[Ticket]) : ran[l] # {}}

Responders == {l \in Targets(asked[Ticket]) : Ticket \in ran[l]}

Answer(told, by) ==
  /\ answers' = [answers EXCEPT ![Ticket] = [told |-> told, by |-> by]]
  /\ ctl' = [ctl EXCEPT !.at = "write", !.left = 1]
  /\ UNCHANGED <<client, unread, thread, stopping, term, tasks, ran, asked>>
  /\ UNCHANGED mainVars /\ UNCHANGED logVars

(* The promise is kept: do_restart returns whether the name is known. *)
Answered ==
  /\ At("await") /\ Responders = Targets(asked[Ticket])
  /\ Answer(CASE asked[Ticket] = "restart"  -> "restarting"
              [] asked[Ticket] = "restart?" -> "no such service"
              [] asked[Ticket] = "services" -> "report"
              [] asked[Ticket] = "health"   -> "health", Responders)

(* Mutant: waits for a restart without a deadline. *)
DeadlineNeverForRestart ==
  /\ At("await") /\ Responders # Targets(asked[Ticket])
  /\ asked[Ticket] \in {"services", "health"}
  /\ Answer(IF asked[Ticket] = "health" THEN "health" ELSE "not responding", Responders)

(* Mutant: a restart that was queued is reported as done. *)
DeadlineOptimistic ==
  /\ At("await") /\ Responders # Targets(asked[Ticket])
  /\ Answer(CASE asked[Ticket] \in {"restart", "restart?"} -> "restarting"
              [] asked[Ticket] = "services" -> "not responding"
              [] asked[Ticket] = "health"   -> "health", Responders)

(* The deadline passes first (500 ms, 1 s or 2 s).  restart_service returns  *)
(* false, which reads "no such service"; health counts who has answered.     *)
Deadline ==
  /\ At("await") /\ Responders # Targets(asked[Ticket])
  /\ Answer(CASE asked[Ticket] \in {"restart", "restart?"} -> "no such service"
              [] asked[Ticket] = "services" -> "not responding"
              [] asked[Ticket] = "health"   -> "health", Responders)
-----------------------------------------------------------------------------
(* The loops: a posted task is run, whether or not anyone still waits. *)
RunTask(l) ==
  /\ thread[l] = "run" /\ tasks[l] # <<>>
  /\ tasks' = [tasks EXCEPT ![l] = Tail(@)]
  /\ ran' = [ran EXCEPT ![l] = @ \cup {Head(tasks[l])}]
  /\ UNCHANGED <<thread, stopping, term, asked, answers>>
  /\ UNCHANGED mainVars /\ UNCHANGED ctlVars /\ UNCHANGED logVars

(* A worker loop sees running_ false and may leave tasks behind; the         *)
(* supervisor is stopped by a task of its own, after those posted earlier.   *)
LoopExit(l) ==
  /\ thread[l] = "run" /\ l \in stopping
  /\ l = "sup" => tasks[l] = <<>>
  /\ thread' = [thread EXCEPT ![l] = "done"]
  /\ UNCHANGED <<stopping, term>> /\ UNCHANGED mainVars /\ UNCHANGED ctlVars
  /\ UNCHANGED postVars /\ UNCHANGED logVars
-----------------------------------------------------------------------------
(* The internet watch.  It probes, logs a change, then stores the state. *)
Watching(place) == thread["net"] = "run" /\ net.at = place
NetOnly == UNCHANGED <<thread, stopping, term>> /\ UNCHANGED mainVars
           /\ UNCHANGED ctlVars /\ UNCHANGED postVars

(* Mutant: the state is stored before the loss is logged. *)
ProbeFailsStoresFirst ==
  /\ Watching("probe")
  /\ net.state # "Down"
  /\ net' = [net EXCEPT !.state = "Down"]
  /\ UNCHANGED <<outages, log>> /\ NetOnly

ProbeFails ==
  /\ Watching("probe")
  /\ net' = [net EXCEPT !.at = "store", !.up = FALSE]
  /\ IF net.state # "Down"
     THEN /\ outages' = outages + 1
          /\ log' \in Written(InRing(log))
     ELSE UNCHANGED <<outages, log>>
  /\ NetOnly

ProbeSucceeds ==
  /\ Watching("probe")
  /\ net' = [net EXCEPT !.at = "store", !.up = TRUE]
  /\ outages' = IF net.state = "Down" THEN outages - 1 ELSE outages
  /\ UNCHANGED log /\ NetOnly

StoreNetState ==
  /\ Watching("store")
  /\ net' = [net EXCEPT !.at = "wait", !.state = IF net.up THEN "Up" ELSE "Down"]
  /\ UNCHANGED <<outages, log>> /\ NetOnly

(* cv_.wait_for: the interval is over. *)
WatchAgain ==
  /\ Watching("wait") /\ "net" \notin stopping
  /\ net' = [net EXCEPT !.at = "probe"]
  /\ UNCHANGED <<outages, log>> /\ NetOnly

(* cv_.wait_for: stop_ is set, before or during the wait. *)
NetExit ==
  /\ Watching("wait") /\ "net" \in stopping
  /\ thread' = [thread EXCEPT !["net"] = "done"]
  /\ UNCHANGED <<stopping, term>> /\ UNCHANGED mainVars /\ UNCHANGED ctlVars
  /\ UNCHANGED postVars /\ UNCHANGED logVars

(* Any thread logs a warning or an error. *)
LogWarn ==
  /\ main # "exited" /\ log.mirror /\ log.lines < MaxLines
  /\ log' \in Written(log) \ {log}
  /\ UNCHANGED <<net, outages>> /\ NetOnly
-----------------------------------------------------------------------------
(* The admin. *)
ClientOnly == UNCHANGED <<thread, stopping, term, ctl>> /\ UNCHANGED mainVars
              /\ UNCHANGED postVars /\ UNCHANGED logVars

Connect == /\ client = "away" /\ thread["ctl"] = "run"
           /\ client' = "queued" /\ UNCHANGED unread /\ ClientOnly
HangUp == client = "open" /\ client' = "gone" /\ UNCHANGED unread /\ ClientOnly
ReadReply == unread > 0 /\ unread' = unread - 1 /\ UNCHANGED client /\ ClientOnly

MainStep ==
  \/ StartSupervisor \/ LoadRoutes \/ MakeListeners \/ StartNetWatch \/ StartControl
  \/ Term \/ Stop \/ Join

Dispatch ==
  \/ DispatchSimple \/ DispatchExit \/ DispatchShutdown \/ DispatchErrors
  \/ DispatchErrorsUnreadable \/ DispatchSystemStatus \/ DispatchNoSupervisor
  \/ DispatchPost

CtlStep ==
  \/ AcceptClient \/ CtlExit \/ WriteSome \/ WriteDone \/ CloseSession \/ LinesDone
  \/ LeaveSession \/ Dispatch \/ Answered \/ Deadline

NetStep == ProbeFails \/ ProbeSucceeds \/ StoreNetState \/ WatchAgain \/ NetExit

(* The program has ended. *)
Exited == main = "exited" /\ UNCHANGED vars

Next ==
  \/ MainStep \/ CtlStep \/ NetStep \/ LogWarn
  \/ Signal
  \/ \E batch \in setup.batches : ReadLines(batch)
  \/ \E l \in Posted : RunTask(l) \/ LoopExit(l)
  \/ Connect \/ HangUp \/ ReadReply
  \/ Exited

Spec == Init /\ [][Next]_vars

(* Every thread of castle is scheduled.  A loop that nobody has told to stop *)
(* may keep a task waiting for ever, and an admin may never read.            *)
Fairness ==
  /\ WF_vars(MainStep) /\ WF_vars(CtlStep) /\ WF_vars(NetStep)
  /\ \A l \in Posted : WF_vars(LoopExit(l)) /\ WF_vars(l \in stopping /\ RunTask(l))

FairSpec == Spec /\ Fairness
-----------------------------------------------------------------------------
TypeOK ==
  /\ main \in {"services", "routes", "listeners", "net", "control", "sigwait",
               "stop", "join", "exited"}
  /\ stage \in 1 .. Len(Order)
  /\ thread \in [Threads -> {"none", "run", "done"}]
  /\ stopping \subseteq Threads /\ term \in BOOLEAN
  /\ ctl \in [at : {"poll", "write", "line", "session", "await"}, inbuf : Seq(Commands),
             left : 0 .. 2, closing : BOOLEAN]
  /\ client \in {"away", "queued", "open", "gone"} /\ unread \in 0 .. SockBuf
  /\ tasks \in [Posted -> Seq(1 .. MaxPosted)] /\ ran \in [Posted -> SUBSET (1 .. MaxPosted)]
  /\ asked \in Seq(Posting) /\ Len(answers) = Len(asked) /\ Len(asked) <= MaxPosted
  /\ net \in [at : {"probe", "store", "wait"}, up : BOOLEAN, state : {"Unknown", "Up", "Down"}]
  /\ outages \in Nat
  /\ log.lines \in 0 .. MaxLines /\ log.cursor \in 0 .. log.lines
  /\ log.ring \in 0 .. kMaxCriticalEntries

(* While the control thread runs, neither the supervisor nor a worker loop   *)
(* is told to stop or is over: the pointers it posts to are live, and a      *)
(* restart can never be asked of a supervisor that is ending its services.   *)
ServersOutlive ==
  thread["ctl"] = "run" => \A l \in Posted : l \notin stopping /\ thread[l] # "done"

(* Whatever step of start-up failed, main returns only when every thread it  *)
(* had started is over; in particular no supervised process is left behind.  *)
CleanExit == main = "exited" => \A t \in Threads : thread[t] # "run"

(* cmd_health reports a loop as responsive only when that loop has run the   *)
(* very task this command posted, never for an answer to an earlier one.     *)
HonestHealth ==
  \A i \in 1 .. Len(asked) :
    answers[i].told = "health" => \A l \in answers[i].by : i \in ran[l]

(* "restarting" is told only when the supervisor has run do_restart for this *)
(* command, for a service it knows, whatever the deadline did.               *)
RestartHonest ==
  \A i \in 1 .. Len(asked) :
    answers[i].told = "restarting" => asked[i] = "restart" /\ i \in ran["sup"]

(* log_pull_new skips no line: each one up to the cursor has been shown.     *)
LogPulled == 1 .. log.cursor \subseteq log.pulled

(* README: one CRITICAL line per outage and one INFO line when it is over:   *)
(* the outages logged as lost are those logged as restored and the current   *)
(* one.  And systemstatus, which reads the state and then the ring, never    *)
(* says DOWN before the line of the loss is in the ring.                     *)
OutagesLogged ==
  /\ outages = IF net.up THEN 0 ELSE 1
  /\ net.state = "Down" => log.ring > 0

(* An admin that does not park its session for ever on a full socket: again  *)
(* and again it has read what it was sent, or it is gone.                    *)
AdminReads == []<>(unread < SockBuf \/ client # "open")

(* A SIGTERM, from outside or from the shutdown command, ends the program,   *)
(* whatever the queues and the watch are doing and wherever the session is,  *)
(* provided its admin does not leave write_all blocked for ever: write_all   *)
(* does not watch stop_fd_, so without AdminReads it does not hold.          *)
TermEnds == AdminReads => (term ~> (main = "exited"))

(* Every command that is posted to a loop is answered, although the loop may *)
(* never run it.                                                             *)
CommandsAnswered ==
  \A i \in 1 .. MaxPosted :
    (Len(asked) >= i) ~> (Len(answers) >= i /\ answers[i] # Unanswered)
=============================================================================
