-------------------------- MODULE SupervisorProps --------------------------
(***************************************************************************)
(* What the supervisor is meant to guarantee.                              *)
(***************************************************************************)
EXTENDS Supervisor

\* The points at which a thread is at work on the process th[t].proc, and the
\* jobs that keep its name between two calls.
CallPoints == {"start_one", "ping", "fork", "ask", "commit", "look", "finish",
               "stop_one", "term", "kill"}
NamedJobs == {"restart", "waitpid", "account", "backoff"}

\* The jobs of a thread that has no call in progress.
RestingJobs == {"new", "exited", "scan", "waitpid", "account", "error",
                "backoff", "launch", "sleep", "main_stop", "stop_bg", "join_bg",
                "stop_control", "join_control"}

\* The record r is one that thread t can have.
Fits(t, r) ==
  /\ r.at \in CallPoints \/ r.job \in NamedJobs => r.proc \in Procs
  /\ r.at \in {"term", "kill"} \/ r.job \in {"waitpid", "account"} => r.pid # 0
  /\ r.at = "mode" => r.mode \in Modes
  /\ r.job \in RestingJobs => r.at = "none"
  /\ r.job = "idle" /\ t # "poll" => r.at = "none"

ThreadsOK ==
  /\ th \in [Threads -> ThreadRecs]
  /\ \A t \in Threads : Fits(t, th[t]) /\ th[t].pid <= Len(child)

RuntimeOK ==
  /\ runtime \in [Procs -> Runtimes]
  /\ \A p \in Procs : runtime[p].pid <= Len(child)

ManagerOK ==
  /\ startOrder \in Seq(Procs)
  /\ managerMode \in ManagerModes
  /\ managerState \in ManagerStates
  /\ started \in BOOLEAN
  /\ bgRunning \in BOOLEAN
  /\ commands \in Nat

\* Every variable has its type, every pid that is recorded or held by a thread is
\* the pid of a process that was forked, and a thread is only where its job can
\* take it.
TypeOK == ChildTypeOK /\ RuntimeOK /\ ManagerOK /\ ThreadsOK

\* The state and the pid of a process agree: what is Stopped or Exited has no
\* pid, and what is Starting, Running, Degraded or Stopping has one, or has a
\* thread about to fork it.  start_one_, stop_one_, the poller's verdict and the
\* monitor's account each update one of the two or both, in any order.
RecordConsistent ==
  \A p \in Procs :
    /\ IsDown(p) => runtime[p].pid = 0
    /\ runtime[p].state \in {"Starting", "Running", "Degraded", "Stopping"}
         => \/ runtime[p].pid # 0
            \/ \E t \in Threads : th[t].at = "fork" /\ th[t].proc = p

\* The pid on record is one that the kernel cannot have given to a stranger: a
\* recorded pid that has been waited for is the one the monitor is about to
\* account for.  The snapshot, the waitpid and the account are three steps, and
\* between any two of them the process may be stopped or started again.
PidsUnreaped ==
  \A p \in Procs :
    runtime[p].pid # 0 /\ child[runtime[p].pid].phase = "gone"
      => /\ th["monitor"].job = "account" /\ th["monitor"].proc = p
         /\ th["monitor"].pid = runtime[p].pid

\* Automatic restarts stay within the budget: a process that was restarted is
\* not critical, may be restarted, and has not been restarted more often than
\* max_restart_count allows.
\* (The second conjunct is what makes the first inductive: nothing that happens
\* during the backoff raises the count, which only the monitor touches.)
MayRestart(p) == ~Critical[p] /\ RestartPolicy[p] # "Never"

RestartBudget ==
  /\ \A p \in Procs :
       runtime[p].restarts > 0 => MayRestart(p) /\ runtime[p].restarts <= MaxRestart[p]
  /\ th["monitor"].job = "backoff" =>
       LET p == th["monitor"].proc
       IN  MayRestart(p) /\ runtime[p].restarts < MaxRestart[p]

--------------------------------------------------------------------------
\* Refinement: the supervisor implements ProcLifecycle.

PhaseOf(state) ==
  CASE state \in {"Stopped", "Exited"} -> "down"
    [] state = "Starting" -> "starting"
    [] state \in {"Running", "Degraded"} -> "up"
    [] state = "Stopping" -> "stopping"
    [] state = "Failed" -> "failed"

Lifecycle == INSTANCE ProcLifecycle WITH
  Restartable <- {p \in Procs : MayRestart(p)},
  phase <- [p \in Procs |-> PhaseOf(runtime[p].state)],
  restarts <- [p \in Procs |-> runtime[p].restarts]

\* Whatever the threads interleave, no late answer of the poller and no account
\* of the monitor brings a process up that was stopped, went down or failed:
\* only start_one_ does; and the monitor's restarts stay within the budget.
LifecycleSpec == Lifecycle!Spec

--------------------------------------------------------------------------
\* Stopping.

Recorded(p) == runtime[p].pid # 0
RecordedLive(p) == Recorded(p) /\ Live(runtime[p].pid)

InStartOrder(p) == \E k \in 1..Len(startOrder) : startOrder[k] = p

\* When the control thread's stop_all() comes to its end, every process that
\* was started is dead: the graceful signal, the wait for the monitor's
\* account, SIGKILL and the second wait leave none behind, whatever hangs or
\* crashes meanwhile.
StopComplete ==
  [][StopAllEnds("control") =>
       \A p \in Procs : InStartOrder(p) => ~RecordedLive(p)]_vars

\* The same process by process: the monitor may revive what it may restart while
\* stop_all() is at work on another, and whatever it revives, the processes that
\* are not restarted automatically are dead in the end.
StopCompleteEach ==
  [][StopAllEnds("control") =>
       \A p \in Procs :
         InStartOrder(p) /\ ~MayRestart(p) => ~RecordedLive(p)]_vars

\* When the stop_all() of ~Supervisor comes to its end, every process that was
\* started is dead, although the monitor is gone and nobody accounts for the
\* children any more.
ExitComplete ==
  [][StopAllEnds("main") /\ ~bgRunning =>
       \A p \in Procs : InStartOrder(p) => ~RecordedLive(p)]_vars

\* stop_all() stops dependants first: when it turns to a process, whatever was
\* started and depends on it is dead, be it that it was stopped, hung until
\* SIGKILL, or crashed meanwhile.  (The stop_all() of a shutdown runs beside the
\* control thread; the last one, in ~Supervisor, is alone.)
StopsDependantsFirst ==
  [][\A t \in {"control", "main"} :
       StopSignal(t) /\ th[t].job = "stop_all" /\ (t = "main" => ~bgRunning)
         => \A q \in Procs :
              th[t].proc \in Deps[q] /\ InStartOrder(q) => ~RecordedLive(q)]_vars

\* Every dead child is known to the supervisor by its pid, so that the monitor
\* will wait for it: none stays a zombie for good.
NoLostZombie ==
  \A i \in 1..Len(child) :
    child[i].phase = "zombie" =>
      \/ runtime[child[i].proc].pid = i
      \/ th["monitor"].job = "waitpid" /\ th["monitor"].pid = i

--------------------------------------------------------------------------
\* Modes.

\* The recorded process of p is the one that listens at the socket of p; where
\* two instances of p are alive the other may have taken the path over.
Listens(p) == Recorded(p) /\ sock[p] = runtime[p].pid
ModeOf(p) == child[runtime[p].pid].mode
ActiveModes == {"TELEOP", "AUTO", "DIAG"}

\* The jobs that tell all children a mode, and the one thread that is on one.
SweepJobs == {"set_mode", "start_safe", "stop_safe", "safe", "main_safe"}
Sweeping(t) == th[t].job \in SweepJobs
OneSweeper == \A t, u \in Threads : Sweeping(t) /\ Sweeping(u) => t = u

\* Actuators are enabled last and disabled first: while an actuator is in an
\* active mode, no sensor or compute process is in SAFE or IDLE.  (A process
\* that was started since is in its initial mode until it is told.)
ActuatorsLastOnFirstOff ==
  \A x, q \in Procs :
    /\ Role[x] = "Actuator" /\ Listens(x) /\ ModeOf(x) \in ActiveModes
    /\ Role[q] # "Actuator" /\ Listens(q)
    => ModeOf(q) \notin {"SAFE", "IDLE"}

\* When set_mode_all() comes to its successful end every process that listens is in
\* that mode, or was started since it was its turn, although children crash, are
\* restarted, answer late or are skipped for want of a pid meanwhile.
ModeReached ==
  [][SetModeDone =>
       \A p \in Procs : Listens(p) => ModeOf(p) \in {th["control"].mode, "INIT"}]_vars

--------------------------------------------------------------------------
\* Liveness, of FairSpec.

\* Every command is answered.  No wait of the control thread (for the monitor's
\* account, for a child to answer, for a lock) is for ever, although the monitor
\* may itself be waiting in start_one_ for a child of its own restart and account
\* for nobody, and a shutdown may stop the same process.
CommandAnswered ==
  th["control"].job # "idle" ~> th["control"].job \in {"idle", "exited"}

\* After SIGINT or SIGTERM the program ends, in the middle of whatever command,
\* restart or sweep the signal finds it.
ShutdownEnds == th["main"].job = "main_safe" ~> th["main"].job = "exited"

\* Child i is dead and its pid is the one recorded for its process.
ZombieOf(i) ==
  /\ i \in 1..Len(child)
  /\ child[i].phase = "zombie" /\ runtime[child[i].proc].pid = i

\* A dead child is waited for while the monitor runs, unless its pid is
\* overwritten before.
ZombieReaped ==
  \A i \in 1..MaxForks :
    ZombieOf(i) ~> ~ZombieOf(i) \/ ~bgRunning

\* The unexpected exit of a critical process is reported: once the monitor has
\* accounted for it, the manager's state becomes ERROR, also when the children
\* that are told SAFE first crash or do not answer.
CriticalExitReported ==
  th["monitor"].job = "safe" ~> managerState = "ERROR"

\* A process that stays well and is up is Running in the end: a late answer of
\* the poller does not leave it Degraded.
RecoversFromDegraded ==
  \A p \in Procs :
    <>[](/\ runtime[p].state \in {"Running", "Degraded"} /\ bgRunning
         /\ Recorded(p) /\ Answers(p) /\ child[sock[p]].health = "OK")
      => <>[](runtime[p].state = "Running")
==========================================================================
