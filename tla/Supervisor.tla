----------------------------- MODULE Supervisor -----------------------------
(***************************************************************************)
(* The process supervisor (src/supervisor) on its own EventLoop thread:    *)
(* children are forked, die, are reaped through a signalfd, relaunched     *)
(* with an exponential backoff, quarantined by a failure breaker,          *)
(* restarted by an operator through posted tasks, and taken down in order  *)
(* when main() stops castle.                                               *)
(*                                                                         *)
(* Time is kept relative.  An instant the code stores (next_restart,       *)
(* last_start, ...) is the number of seconds until or since it, stopped at *)
(* the threshold the code compares it with; TimePasses moves them all.     *)
(* That keeps every behaviour, however long, in a finite state space.      *)
(***************************************************************************)
EXTENDS Integers, Sequences, FiniteSets

CONSTANTS
  NumServices,     \* services_.size()
  Pids,            \* process ids the kernel hands out, reused once reaped
  NoPid,           \* pid = -1
  Autorestart,     \* services whose cfg.autorestart is true
  HealthChecked,   \* services with cfg.health_port # 0
  HealthInterval,  \* cfg.health_interval_sec
  BackoffMin,      \* cfg.backoff_min_sec
  BackoffMax,      \* cfg.backoff_max_sec
  kGraceSec, kStableSec, kMaxFailures,
  kFailureWindow,  \* in seconds
  MaxTasks         \* bound: operator tasks waiting in the loop's queue

Services == 1..NumServices

ASSUME ConstantsAssumption ==
  /\ NumServices \in Nat
  /\ NoPid \notin Pids
  /\ Autorestart \subseteq Services
  /\ HealthChecked \subseteq Services
  /\ HealthInterval \in Nat /\ BackoffMin \in Nat /\ BackoffMax \in Nat
  /\ kGraceSec \in Nat /\ kStableSec \in Nat /\ kMaxFailures \in Nat
  /\ kFailureWindow \in Nat /\ MaxTasks \in Nat

VARIABLES
  svc,           \* services_: the record of each service
  upRunning,     \* uptime_[i].running, read by the HTTP threads
  proc,          \* the kernel's process table
  sigPending,    \* signal_fd_ readable: SIGCHLD queued (it coalesces)
  tickPending,   \* timer_fd_ readable
  wake,          \* the loop's eventfd is readable
  tasks,         \* EventLoop::tasks_
  ringing,       \* a post() has queued its task and not yet rung wake_fd_
  local,         \* the swapped-out queue run_pending_tasks is running
  running,       \* EventLoop::running_
  batch,         \* events of the last epoll_wait not dispatched yet
  pc,            \* where the supervisor's thread is
  at,            \* the service the loop over services_ has come to
  dueBy,         \* on_tick: services with next_restart <= its now
  probeBy,       \* on_tick: services whose health interval is over at its now
  lag,           \* seconds since on_tick read its now
  shuttingDown,  \* shutting_down_
  killIn,        \* seconds until kill_deadline_
  main           \* where main() is

procVars == <<proc, sigPending>>
loopVars == <<running, batch, pc>>
tickVars == <<at, dueBy, probeBy, lag>>
postVars == <<tasks, ringing>>
stopVars == <<shuttingDown, killIn>>
vars == <<svc, upRunning, procVars, tickPending, wake, postVars, local,
          loopVars, tickVars, stopVars, main>>

-----------------------------------------------------------------------------
(* A service's record, a posted task, and the states of a process.         *)

ServiceStates == {"Stopped", "Running", "Backoff", "Failed", "Quarantined"}

ServiceRecord ==
  [pid          : Pids \cup {NoPid},
   state        : ServiceStates,
   backoff      : Nat,                        \* current_backoff_sec
   wantsRestart : BOOLEAN,
   recent       : Seq(0..(kFailureWindow + 1)),  \* ages of recent_failures
   isDown       : BOOLEAN,
   nextRestart  : Nat,                        \* seconds until next_restart
   ran          : 0..kStableSec,              \* seconds since last_start
   health       : {"unknown", "up", "down"},  \* health_known and healthy
   sinceHealth  : 0..HealthInterval]          \* seconds since last_health

\* A clock that was never set is the epoch: long past every threshold.
FreshService ==
  [pid |-> NoPid, state |-> "Stopped", backoff |-> 0, wantsRestart |-> FALSE,
   recent |-> <<>>, isDown |-> FALSE, nextRestart |-> 0, ran |-> kStableSec,
   health |-> "unknown", sinceHealth |-> HealthInterval]

\* A posted do_restart is the service it names; begin_shutdown is Shutdown.
Shutdown == 0
Task == Services \cup {Shutdown}

\* "term" and "kill": running, with that signal sent to it.
Alive == {"run", "term", "kill"}
ProcStates == Alive \cup {"free", "zombie"}

AtMost(n, bound) == IF n < bound THEN n ELSE bound
CountDown(n) == IF n > 0 THEN n - 1 ELSE 0

-----------------------------------------------------------------------------
(* What the handlers do to one service's record.                           *)

\* Mutant: failures never age out.
PruneFailuresNever(q) == q

\* prune_failures: pop from the front while the oldest has left the window.
PruneFailures(q) ==
  LET expired == {i \in DOMAIN q : \A j \in 1..i : q[j] > kFailureWindow}
  IN SubSeq(q, Cardinality(expired) + 1, Len(q))

RecordFailure(r) == [r EXCEPT !.recent = PruneFailures(Append(@, 0))]

MarkDown(r) == [r EXCEPT !.isDown = TRUE]

NextBackoff(r) ==
  IF r.ran >= kStableSec \/ r.backoff = 0
  THEN BackoffMin
  ELSE AtMost(r.backoff * 2, BackoffMax)

ScheduleRestart(r) ==
  [r EXCEPT !.backoff = NextBackoff(r),
            !.state = "Backoff",
            !.nextRestart = NextBackoff(r)]

\* spawn, in the parent, once fork has returned a pid.
Launched(r, p) ==
  [r EXCEPT !.pid = p, !.state = "Running", !.isDown = FALSE, !.ran = 0]

\* An exit nobody asked for: count it, then fail, quarantine or back off.
UnexpectedExit(s, r) ==
  LET f == RecordFailure(r) IN
    IF s \notin Autorestart
    THEN MarkDown([f EXCEPT !.state = "Failed"])
    ELSE IF Len(f.recent) > kMaxFailures
         THEN MarkDown([f EXCEPT !.state = "Quarantined"])
         ELSE ScheduleRestart(f)

\* One second later.
Aged(r) ==
  [r EXCEPT !.nextRestart = CountDown(@),
            !.ran = AtMost(@ + 1, kStableSec),
            !.recent = [i \in DOMAIN @ |-> AtMost(@[i] + 1, kFailureWindow + 1)],
            !.sinceHealth = AtMost(@ + 1, HealthInterval)]

\* Mutant: spawn forgets publish_uptime.
SpawnUnpublished(s, r, pr, up) ==
  \/ \E p \in Pids :
       /\ pr[p] = "free"
       /\ proc' = [pr EXCEPT ![p] = "run"]
       /\ svc' = [svc EXCEPT ![s] = Launched(r, p)]
       /\ upRunning' = up
  \/ /\ proc' = pr
     /\ svc' = [svc EXCEPT ![s] = ScheduleRestart(r)]
     /\ upRunning' = up

\* spawn(s) on record r, with process table pr and snapshot up: fork gives a
\* free pid, or fails and the launch is retried after a backoff.
Spawn(s, r, pr, up) ==
  \/ \E p \in Pids :
       /\ pr[p] = "free"
       /\ proc' = [pr EXCEPT ![p] = "run"]
       /\ svc' = [svc EXCEPT ![s] = Launched(r, p)]
       /\ upRunning' = [up EXCEPT ![s] = TRUE]
  \/ /\ proc' = pr
     /\ svc' = [svc EXCEPT ![s] = ScheduleRestart(r)]
     /\ upRunning' = up

\* kill(2) sent to the pid of every service in S; a zombie ignores it.
Signalled(S, sig) ==
  [p \in Pids |-> IF proc[p] \in Alive \ {"kill"} /\ \E s \in S : svc[s].pid = p
                  THEN sig ELSE proc[p]]

Drained == \A s \in Services : svc[s].pid = NoPid

\* finish_if_drained calls EventLoop::stop once no service has a child (its
\* callers have changed no pid before the call).
FinishIfDrained ==
  /\ running' = (running /\ ~Drained)
  /\ wake' = (wake \/ Drained)

-----------------------------------------------------------------------------
(* start(): every service is launched before the thread runs the loop.     *)

Init ==
  /\ svc = [s \in Services |-> FreshService]
  /\ upRunning = [s \in Services |-> FALSE]
  /\ proc = [p \in Pids |-> "free"]
  /\ sigPending = FALSE /\ tickPending = FALSE /\ wake = FALSE
  /\ tasks = <<>> /\ ringing = FALSE /\ local = <<>>
  /\ running = TRUE /\ batch = {} /\ pc = "launch"
  /\ at = 1 /\ dueBy = {} /\ probeBy = {} /\ lag = 0
  /\ shuttingDown = FALSE /\ killIn = 0
  /\ main = "starting"

Launch ==
  /\ pc = "launch" /\ at \in Services
  /\ Spawn(at, svc[at], proc, upRunning)
  /\ at' = at + 1
  /\ UNCHANGED <<sigPending, tickPending, wake, postVars, local, loopVars,
                 dueBy, probeBy, lag, stopVars, main>>

Started ==
  /\ pc = "launch" /\ at \notin Services
  /\ pc' = "wait" /\ main' = "serving"
  /\ UNCHANGED <<svc, upRunning, procVars, tickPending, wake, postVars, local,
                 running, batch, tickVars, stopVars>>

-----------------------------------------------------------------------------
(* EventLoop::run.  All three fds are level-triggered; a batch may list    *)
(* them in any order, and running_ is only looked at between batches.      *)

Ready == {e \in {"sig", "timer", "wake"} :
            \/ e = "sig" /\ sigPending
            \/ e = "timer" /\ tickPending
            \/ e = "wake" /\ wake}

EpollWait ==
  /\ pc = "wait" /\ running /\ Ready # {}
  /\ batch' = Ready /\ pc' = "dispatch"
  /\ UNCHANGED <<svc, upRunning, procVars, tickPending, wake, postVars, local,
                 running, tickVars, stopVars, main>>

BatchDone ==
  /\ pc = "dispatch" /\ batch = {}
  /\ pc' = "wait"
  /\ UNCHANGED <<svc, upRunning, procVars, tickPending, wake, postVars, local,
                 running, batch, tickVars, stopVars, main>>

LoopExit ==
  /\ pc = "wait" /\ ~running
  /\ pc' = "exited"
  /\ UNCHANGED <<svc, upRunning, procVars, tickPending, wake, postVars, local,
                 running, batch, tickVars, stopVars, main>>

\* The doorbell: drain_wakeup, then swap the queue out, then run each task.
DrainWakeup ==
  /\ pc = "dispatch" /\ "wake" \in batch
  /\ batch' = batch \ {"wake"} /\ wake' = FALSE /\ pc' = "swap"
  /\ UNCHANGED <<svc, upRunning, procVars, tickPending, postVars, local,
                 running, tickVars, stopVars, main>>

SwapTasks ==
  /\ pc = "swap"
  /\ local' = tasks /\ tasks' = <<>> /\ pc' = "tasks"
  /\ UNCHANGED <<svc, upRunning, procVars, tickPending, wake, ringing,
                 running, batch, tickVars, stopVars, main>>

\* Mutant: the doorbell is drained after the tasks have run.
TasksDoneThenDrain ==
  /\ pc = "tasks" /\ local = <<>>
  /\ pc' = "dispatch" /\ wake' = FALSE
  /\ UNCHANGED <<svc, upRunning, procVars, tickPending, postVars, local,
                 running, batch, tickVars, stopVars, main>>

TasksDone ==
  /\ pc = "tasks" /\ local = <<>>
  /\ pc' = "dispatch"
  /\ UNCHANGED <<svc, upRunning, procVars, tickPending, wake, postVars, local,
                 running, batch, tickVars, stopVars, main>>

-----------------------------------------------------------------------------
(* on_sigchld: drain the signalfd, then waitpid until nothing is left.     *)

DrainSignal ==
  /\ pc = "dispatch" /\ "sig" \in batch
  /\ batch' = batch \ {"sig"} /\ sigPending' = FALSE /\ pc' = "reap"
  /\ UNCHANGED <<svc, upRunning, proc, tickPending, wake, postVars, local,
                 running, tickVars, stopVars, main>>

\* find_by_pid: the first service with this pid, 0 for nullptr.
FindByPid(p) ==
  LET owners == {s \in Services : svc[s].pid = p} IN
    IF owners = {} THEN 0 ELSE CHOOSE s \in owners : \A t \in owners : s <= t

\* Mutant: the operator's restart is looked at before shutting_down_.
HandleExitRestartFirst(s, reaped) ==
  LET r  == [svc[s] EXCEPT !.pid = NoPid, !.health = "unknown"]
      up == [upRunning EXCEPT ![s] = FALSE]
      Settle(q) == /\ svc' = [svc EXCEPT ![s] = q]
                   /\ proc' = reaped /\ upRunning' = up
  IN \/ /\ r.wantsRestart
        /\ Spawn(s, [r EXCEPT !.wantsRestart = FALSE, !.backoff = 0], reaped, up)
     \/ /\ ~r.wantsRestart /\ shuttingDown
        /\ Settle([r EXCEPT !.state = "Stopped"])
     \/ /\ ~r.wantsRestart /\ ~shuttingDown
        /\ Settle(UnexpectedExit(s, r))

\* What on_sigchld makes of the reaped child of service s.
HandleExit(s, reaped) ==
  LET r  == [svc[s] EXCEPT !.pid = NoPid, !.health = "unknown"]
      up == [upRunning EXCEPT ![s] = FALSE]
      Settle(q) == /\ svc' = [svc EXCEPT ![s] = q]
                   /\ proc' = reaped /\ upRunning' = up
  IN \/ /\ shuttingDown
        /\ Settle([r EXCEPT !.state = "Stopped"])
     \/ /\ ~shuttingDown /\ r.wantsRestart
        /\ Spawn(s, [r EXCEPT !.wantsRestart = FALSE, !.backoff = 0], reaped, up)
     \/ /\ ~shuttingDown /\ ~r.wantsRestart
        /\ Settle(UnexpectedExit(s, r))

\* One turn of the waitpid loop.
Reap(p) ==
  /\ pc = "reap" /\ proc[p] = "zombie"
  /\ LET reaped == [proc EXCEPT ![p] = "free"] IN
       IF FindByPid(p) = 0
       THEN proc' = reaped /\ UNCHANGED <<svc, upRunning>>
       ELSE HandleExit(FindByPid(p), reaped)
  /\ UNCHANGED <<sigPending, tickPending, wake, postVars, local, loopVars,
                 tickVars, stopVars, main>>

\* Mutant: one waitpid per SIGCHLD instead of a loop.
ReapDoneEarly ==
  /\ pc = "reap"
  /\ pc' = "dispatch"
  /\ IF shuttingDown THEN FinishIfDrained ELSE UNCHANGED <<running, wake>>
  /\ UNCHANGED <<svc, upRunning, procVars, tickPending, postVars, local,
                 batch, tickVars, stopVars, main>>

ReapDone ==
  /\ pc = "reap" /\ \A p \in Pids : proc[p] # "zombie"
  /\ pc' = "dispatch"
  /\ IF shuttingDown THEN FinishIfDrained ELSE UNCHANGED <<running, wake>>
  /\ UNCHANGED <<svc, upRunning, procVars, tickPending, postVars, local,
                 batch, tickVars, stopVars, main>>

-----------------------------------------------------------------------------
(* on_tick: the clock is read once, then each service in turn is           *)
(* relaunched if due and probed if due (a probe blocks up to half a        *)
(* second, so time may pass between the two).                              *)

TickBegin ==
  /\ pc = "dispatch" /\ "timer" \in batch /\ ~shuttingDown
  /\ batch' = batch \ {"timer"} /\ tickPending' = FALSE /\ pc' = "tick"
  /\ at' = 1 /\ lag' = 0
  /\ dueBy' = {s \in Services : svc[s].nextRestart = 0}
  /\ probeBy' = {s \in HealthChecked : svc[s].sinceHealth >= HealthInterval}
  /\ UNCHANGED <<svc, upRunning, procVars, wake, postVars, local, running,
                 stopVars, main>>

\* Mutant: a straggler is never killed.
TickShutdownPatient ==
  /\ pc = "dispatch" /\ "timer" \in batch /\ shuttingDown
  /\ batch' = batch \ {"timer"} /\ tickPending' = FALSE
  /\ FinishIfDrained
  /\ UNCHANGED <<svc, upRunning, procVars, postVars, local, pc, tickVars,
                 stopVars, main>>

\* Past kill_deadline_ the stragglers are killed.
TickShutdown ==
  /\ pc = "dispatch" /\ "timer" \in batch /\ shuttingDown
  /\ batch' = batch \ {"timer"} /\ tickPending' = FALSE
  /\ proc' = IF killIn = 0 THEN Signalled(Services, "kill") ELSE proc
  /\ FinishIfDrained
  /\ UNCHANGED <<svc, upRunning, sigPending, postVars, local, pc, tickVars,
                 stopVars, main>>

\* Mutant: whatever is not running is relaunched when due.
TickSpawnAnyDown ==
  /\ pc = "tick" /\ at \in Services
  /\ pc' = "probe"
  /\ IF svc[at].state # "Running" /\ at \in dueBy
     THEN Spawn(at, svc[at], proc, upRunning)
     ELSE UNCHANGED <<svc, proc, upRunning>>
  /\ UNCHANGED <<sigPending, tickPending, wake, postVars, local, running, batch,
                 tickVars, stopVars, main>>

TickSpawn ==
  /\ pc = "tick" /\ at \in Services
  /\ pc' = "probe"
  /\ IF svc[at].state = "Backoff" /\ at \in dueBy
     THEN Spawn(at, svc[at], proc, upRunning)
     ELSE UNCHANGED <<svc, proc, upRunning>>
  /\ UNCHANGED <<sigPending, tickPending, wake, postVars, local, running, batch,
                 tickVars, stopVars, main>>

\* Mutant: the health check does not ask whether there is a child.
TickProbeAnyway ==
  /\ pc = "probe"
  /\ pc' = "tick" /\ at' = at + 1
  /\ IF at \in probeBy
     THEN \E h \in {"up", "down"} :
            svc' = [svc EXCEPT ![at].health = h, ![at].sinceHealth = lag]
     ELSE UNCHANGED svc
  /\ UNCHANGED <<upRunning, procVars, tickPending, wake, postVars, local,
                 running, batch, dueBy, probeBy, lag, stopVars, main>>

\* Mutant: a service without a child ends the tick instead of its own turn.
TickProbeReturns ==
  /\ pc = "probe"
  /\ pc' = "tick"
  /\ at' = IF svc[at].pid = NoPid THEN NumServices + 1 ELSE at + 1
  /\ IF svc[at].pid # NoPid /\ at \in probeBy
     THEN \E h \in {"up", "down"} :
            svc' = [svc EXCEPT ![at].health = h, ![at].sinceHealth = lag]
     ELSE UNCHANGED svc
  /\ UNCHANGED <<upRunning, procVars, tickPending, wake, postVars, local,
                 running, batch, dueBy, probeBy, lag, stopVars, main>>

TickProbe ==
  /\ pc = "probe"
  /\ pc' = "tick" /\ at' = at + 1
  /\ IF svc[at].pid # NoPid /\ at \in probeBy
     THEN \E h \in {"up", "down"} :
            svc' = [svc EXCEPT ![at].health = h, ![at].sinceHealth = lag]
     ELSE UNCHANGED svc
  /\ UNCHANGED <<upRunning, procVars, tickPending, wake, postVars, local,
                 running, batch, dueBy, probeBy, lag, stopVars, main>>

TickEnd ==
  /\ pc = "tick" /\ at \notin Services
  /\ pc' = "dispatch" /\ dueBy' = {} /\ probeBy' = {} /\ lag' = 0
  /\ UNCHANGED <<svc, upRunning, procVars, tickPending, wake, postVars, local,
                 running, batch, at, stopVars, main>>

-----------------------------------------------------------------------------
(* The posted tasks.                                                       *)

\* Mutant: a restart launches at once, over a living child.
DoRestartAtOnce(s) ==
  Spawn(s, [svc[s] EXCEPT !.recent = <<>>, !.backoff = 0, !.wantsRestart = FALSE],
        proc, upRunning)

\* Mutant: a restart does not clear the failure window.
DoRestartKeepsWindow(s) ==
  \/ /\ svc[s].pid # NoPid
     /\ svc' = [svc EXCEPT ![s].wantsRestart = TRUE]
     /\ proc' = Signalled({s}, "term")
     /\ UNCHANGED upRunning
  \/ /\ svc[s].pid = NoPid
     /\ Spawn(s, [svc[s] EXCEPT !.backoff = 0, !.wantsRestart = FALSE], proc, upRunning)

DoRestart(s) ==
  LET r == [svc[s] EXCEPT !.recent = <<>>] IN
    \/ /\ r.pid # NoPid
       /\ svc' = [svc EXCEPT ![s] = [r EXCEPT !.wantsRestart = TRUE]]
       /\ proc' = Signalled({s}, "term")
       /\ UNCHANGED upRunning
    \/ /\ r.pid = NoPid
       /\ Spawn(s, [r EXCEPT !.backoff = 0, !.wantsRestart = FALSE], proc, upRunning)

RunRestart ==
  /\ pc = "tasks" /\ local # <<>> /\ Head(local) # Shutdown
  /\ local' = Tail(local)
  /\ DoRestart(Head(local))
  /\ UNCHANGED <<sigPending, tickPending, wake, postVars, loopVars, tickVars,
                 stopVars, main>>

\* Mutant: the grace period is added to the deadline twice.
BeginShutdownLate ==
  /\ pc = "tasks" /\ local # <<>> /\ Head(local) = Shutdown
  /\ local' = Tail(local)
  /\ shuttingDown' = TRUE /\ killIn' = 2 * kGraceSec
  /\ proc' = Signalled(Services, "term")
  /\ svc' = [s \in Services |-> IF svc[s].pid # NoPid THEN svc[s]
                                ELSE [svc[s] EXCEPT !.state = "Stopped"]]
  /\ FinishIfDrained
  /\ UNCHANGED <<upRunning, sigPending, tickPending, postVars, batch, pc,
                 tickVars, main>>

\* begin_shutdown: SIGTERM to every child, a deadline for SIGKILL, and nothing
\* without a child is left waiting to be relaunched.
BeginShutdown ==
  /\ pc = "tasks" /\ local # <<>> /\ Head(local) = Shutdown
  /\ local' = Tail(local)
  /\ shuttingDown' = TRUE /\ killIn' = kGraceSec
  /\ proc' = Signalled(Services, "term")
  /\ svc' = [s \in Services |-> IF svc[s].pid # NoPid THEN svc[s]
                                ELSE [svc[s] EXCEPT !.state = "Stopped"]]
  /\ FinishIfDrained
  /\ UNCHANGED <<upRunning, sigPending, tickPending, postVars, batch, pc,
                 tickVars, main>>

-----------------------------------------------------------------------------
(* The other threads: control sessions and main() post; post() queues the  *)
(* task under the lock and rings the doorbell after it.                    *)

\* Mutant: main() stops the control plane after the supervisor.
PostRestartWhileStopping(s) ==
  /\ main \in {"serving", "joining"} /\ ~ringing /\ Len(tasks) < MaxTasks
  /\ tasks' = Append(tasks, s) /\ ringing' = TRUE
  /\ UNCHANGED <<svc, upRunning, procVars, tickPending, wake, local, loopVars,
                 tickVars, stopVars, main>>

\* Supervisor::restart_service.  The control plane is one thread, so one post
\* at a time; its wait for the answer ends after two seconds, so a task may
\* still be queued when the next is posted.
PostRestart(s) ==
  /\ main = "serving" /\ ~ringing /\ Len(tasks) < MaxTasks
  /\ tasks' = Append(tasks, s) /\ ringing' = TRUE
  /\ UNCHANGED <<svc, upRunning, procVars, tickPending, wake, local, loopVars,
                 tickVars, stopVars, main>>

Ring ==
  /\ ringing
  /\ ringing' = FALSE /\ wake' = TRUE
  /\ UNCHANGED <<svc, upRunning, procVars, tickPending, tasks, local, loopVars,
                 tickVars, stopVars, main>>

\* main(): control->stop() joins its thread, so no post is left half done.
ControlStop ==
  /\ main = "serving" /\ ~ringing
  /\ main' = "controlStopped"
  /\ UNCHANGED <<svc, upRunning, procVars, tickPending, wake, postVars, local,
                 loopVars, tickVars, stopVars>>

\* Then supervisor->stop() posts begin_shutdown and joins the thread.
SupervisorStop ==
  /\ main = "controlStopped"
  /\ main' = "joining"
  /\ tasks' = Append(tasks, Shutdown) /\ ringing' = TRUE
  /\ UNCHANGED <<svc, upRunning, procVars, tickPending, wake, local, loopVars,
                 tickVars, stopVars>>

-----------------------------------------------------------------------------
(* The kernel: a child may end at any moment, on its own or signalled, and *)
(* the clock and the one-second timer run.                                 *)

ChildExits(p) ==
  /\ proc[p] \in Alive
  /\ proc' = [proc EXCEPT ![p] = "zombie"] /\ sigPending' = TRUE
  /\ UNCHANGED <<svc, upRunning, tickPending, wake, postVars, local, loopVars,
                 tickVars, stopVars, main>>

TimePasses ==
  /\ pc # "exited"
  /\ svc' = [s \in Services |-> Aged(svc[s])]
  /\ lag' = IF pc \in {"tick", "probe"} THEN AtMost(lag + 1, HealthInterval) ELSE lag
  /\ killIn' = CountDown(killIn)
  /\ tickPending' = TRUE
  /\ UNCHANGED <<upRunning, procVars, wake, postVars, local, loopVars, at,
                 dueBy, probeBy, shuttingDown, main>>

\* The thread has been joined; nothing is left to do.
Finished == pc = "exited" /\ UNCHANGED vars

LoopStep ==
  \/ Launch \/ Started
  \/ EpollWait \/ BatchDone \/ LoopExit
  \/ DrainWakeup \/ SwapTasks \/ TasksDone \/ RunRestart \/ BeginShutdown
  \/ DrainSignal \/ (\E p \in Pids : Reap(p)) \/ ReapDone
  \/ TickBegin \/ TickShutdown \/ TickSpawn \/ TickProbe \/ TickEnd

Next ==
  \/ LoopStep
  \/ \E s \in Services : PostRestart(s)
  \/ Ring \/ ControlStop \/ SupervisorStop
  \/ \E p \in Pids : ChildExits(p)
  \/ TimePasses
  \/ Finished

\* The thread is scheduled, the poster finishes post(), the clock runs, and
\* SIGKILL cannot be ignored.  Nothing makes a child exit otherwise, and
\* nothing makes an operator or main() stop castle.
Fairness ==
  /\ WF_vars(LoopStep)
  /\ WF_vars(Ring)
  /\ WF_vars(TimePasses)
  /\ \A p \in Pids : WF_vars(proc[p] = "kill" /\ ChildExits(p))

Spec == Init /\ [][Next]_vars

FairSpec == Spec /\ Fairness

-----------------------------------------------------------------------------
(* Properties.                                                             *)

TypeOK ==
  /\ svc \in [Services -> ServiceRecord]
  /\ upRunning \in [Services -> BOOLEAN]
  /\ proc \in [Pids -> ProcStates]
  /\ sigPending \in BOOLEAN /\ tickPending \in BOOLEAN /\ wake \in BOOLEAN
  /\ tasks \in Seq(Task) /\ local \in Seq(Task) /\ ringing \in BOOLEAN
  /\ running \in BOOLEAN /\ batch \subseteq {"sig", "timer", "wake"}
  /\ pc \in {"launch", "wait", "dispatch", "swap", "tasks", "reap", "tick",
             "probe", "exited"}
  /\ at \in 1..(NumServices + 1) /\ (pc = "probe" => at \in Services)
  /\ dueBy \subseteq Services /\ probeBy \subseteq Services
  /\ lag \in 0..HealthInterval
  /\ shuttingDown \in BOOLEAN /\ killIn \in 0..kGraceSec
  /\ main \in {"starting", "serving", "controlStopped", "joining"}

\* Every child not reaped yet belongs to exactly one service, and a pid a
\* service holds is such a child: no kill() can hit a recycled pid, no child is
\* launched over a living one and none is forgotten (spawn, on_sigchld,
\* do_restart and the kills of begin_shutdown and on_tick).  The state says so:
\* a fork that fails in a relaunch leaves no service Running without a child,
\* which nothing would ever launch again.
OneOwnerPerChild ==
  /\ \A s \in Services : svc[s].pid # NoPid => proc[svc[s].pid] # "free"
  /\ \A p \in Pids : proc[p] # "free" =>
       \E s \in Services : /\ svc[s].pid = p
                           /\ \A t \in Services : svc[t].pid = p => t = s
  /\ \A s \in Services : svc[s].state = "Running" <=> svc[s].pid # NoPid

\* A dead child is never left unnoticed: the coalesced SIGCHLD is still queued
\* or on_sigchld is still in its waitpid loop.
NoLostExit ==
  (\E p \in Pids : proc[p] = "zombie") => sigPending \/ pc = "reap"

\* A posted task is never stranded: the doorbell is rung, about to be rung by
\* post(), or run_pending_tasks is about to swap the queue.
NoLostTask == tasks # <<>> => wake \/ ringing \/ pc = "swap"

\* The /_castle/uptime snapshot shows a service up exactly while it has a child.
UptimeAgrees == \A s \in Services : upRunning[s] = (svc[s].pid # NoPid)

\* A health verdict is only ever shown for a service that has a child: the
\* verdict on a dead child is dropped when it is reaped.
HealthOfChild ==
  \A s \in Services : svc[s].health # "unknown" => svc[s].pid # NoPid

\* During shutdown no child escapes the SIGTERM of begin_shutdown: nothing is
\* launched after it, whatever restart, backoff or tick was already under way.
ShutdownSignalsAll ==
  shuttingDown => \A p \in Pids : proc[p] # "run"

\* Castle's supervisor thread ends only when every child has been reaped:
\* finish_if_drained and main()'s order of stops leave no orphan process.
NoOrphans == pc = "exited" => \A p \in Pids : proc[p] = "free"

\* The circuit breaker: an autorestarted service that is up, or that will be
\* relaunched, has had at most kMaxFailures failures in the window.
BreakerHolds ==
  \A s \in Autorestart :
    svc[s].state \in {"Running", "Backoff"} => Len(svc[s].recent) <= kMaxFailures

\* A quarantine is earned: more than kMaxFailures failures, all within one
\* kFailureWindow; failures that have aged out do not count.
QuarantineEarned ==
  \A s \in Services : svc[s].state = "Quarantined" =>
    LET q == svc[s].recent IN
      Len(q) > kMaxFailures /\ q[1] - q[Len(q)] <= kFailureWindow

\* A service gets a new child only at start, when its backoff is over, when the
\* child the operator asked to restart has been reaped, or in the operator's
\* restart task; never during shutdown, and a quarantined or failed one only by
\* the operator.
RelaunchJustified ==
  [][\A s \in Services :
       svc'[s].pid # NoPid /\ svc'[s].pid # svc[s].pid =>
         /\ ~shuttingDown
         /\ \/ pc = "launch"
            \/ svc[s].state = "Backoff" /\ svc[s].nextRestart = 0
            \/ svc[s].state = "Running" /\ svc[s].wantsRestart
            \/ pc = "tasks" /\ Head(local) = s]_vars

\* Once main() has asked the supervisor to stop, the thread ends, even when a
\* child ignores SIGTERM.
ShutdownCompletes == main = "joining" ~> pc = "exited"

\* A service whose backoff is over is launched again, whatever the others do,
\* unless castle is shut down or fork fails (and a new backoff starts).
BackoffRetried ==
  \A s \in Services :
    svc[s].state = "Backoff" /\ svc[s].nextRestart = 0
      ~> svc[s].state # "Backoff" \/ svc[s].nextRestart > 0

-----------------------------------------------------------------------------
(* The inductive invariants behind the safety properties.                  *)

\* Ownership in three parts: held pids are unreaped children, no two services
\* share one, every unreaped child is held.
Owns(sv, pr) ==
  /\ \A s \in Services : sv[s].pid # NoPid => pr[sv[s].pid] # "free"
  /\ \A s, t \in Services : sv[s].pid = sv[t].pid /\ sv[s].pid # NoPid => s = t
  /\ \A p \in Pids : pr[p] # "free" => \E s \in Services : sv[s].pid = p

\* Running is the state of exactly the services that hold a child.
RunningIffChild(sv) ==
  \A s \in Services : sv[s].pid # NoPid <=> sv[s].state = "Running"

\* Until start() comes to it a service is as it was constructed.
NotLaunchedYet ==
  pc = "launch" => \A s \in Services : s >= at =>
    svc[s].state = "Stopped" /\ svc[s].recent = <<>>

ChildInv ==
  /\ Owns(svc, proc) /\ RunningIffChild(svc) /\ NotLaunchedYet
  /\ UptimeAgrees /\ HealthOfChild

\* begin_shutdown is the last task ever queued, and once it has run nothing is.
ShutdownLast ==
  /\ (pc = "launch") <=> (main = "starting")
  /\ local # <<>> => pc = "tasks"
  /\ shuttingDown => main = "joining" /\ tasks = <<>> /\ local = <<>>
  /\ main # "joining" => \A i \in 1..Len(tasks) : tasks[i] # Shutdown
  /\ main # "joining" => \A i \in 1..Len(local) : local[i] # Shutdown
  /\ \A i \in 1..Len(tasks) : tasks[i] = Shutdown => i = Len(tasks)
  /\ \A i \in 1..Len(local) : local[i] = Shutdown => i = Len(local) /\ tasks = <<>>

\* The loop is stopped only with every child reaped, and a tick that launches
\* services is never under way during shutdown.
StopDrained ==
  /\ pc \in {"tick", "probe"} => ~shuttingDown
  /\ ~running => shuttingDown /\ Drained
  /\ pc = "exited" => ~running

StopInv == ShutdownLast /\ StopDrained /\ ShutdownSignalsAll

\* What on_tick found due is still due when it comes to it.
DueStillDue ==
  /\ pc = "tick" => \A s \in dueBy : s >= at => svc[s].nextRestart = 0
  /\ pc = "probe" => \A s \in dueBy : s > at => svc[s].nextRestart = 0

=============================================================================
