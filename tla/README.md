# A specification of lightweight_supervisor

`lightweight_supervisor` starts the processes of a robot in dependency order,
watches them, restarts the ones that may be restarted, tells them which mode to
be in, and takes them down again. It is a single program, `src/main.cpp` and
`src/supervisor.cpp`, with four threads, one mutex and one condition variable;
its children are separate processes it reaches by signals, by `waitpid` and by
requests over one Unix socket each.

This directory holds a TLA+ specification of that program, of the sockets below
it, of the order it starts processes in and of the threads of the one child that
has several; TLC configurations that check them on small instances; and TLAPS
proofs of their central safety properties for every instance. Paths below are
relative to the repository.

## 1. Inventory

### Components, their state and their operations

| Component | Source | State | Operations |
|---|---|---|---|
| Supervisor: starting and stopping | `src/supervisor.cpp` 122-198, 346-473, 687-739 | `runtime_` (pid, state, restart count, reachable), `start_order_`, `started_`, `manager_state_` | `start_all`, `stop_all`, `start_proc`, `stop_proc`, `restart_proc` |
| Supervisor: monitor thread | 475-577 | none of its own but the snapshot it works on | reap a child, account for it, enter SAFE after a critical exit, restart after a backoff |
| Supervisor: poll thread | 579-685 | the cached `ChildStatus` in `runtime_` | ask every process for its status, judge it Running or Degraded |
| Supervisor: modes | 200-218, 787-831 | `manager_mode_` | `set_mode_all`, `enter_safe_mode` |
| `main()` | `src/main.cpp` | `g_running` | launch, wait for SIGINT or SIGTERM, SAFE, stop, join, destroy |
| ControlServer | `src/control_server.cpp` | its listening socket, `running_` | accept one command at a time, run it, reply; `stop` pokes it awake |
| IpcClient | `src/ipc_client.cpp` | none but its connection | one request: connect, send, receive, each way out closes |
| Managed processes | `examples/dummy_process.cpp`, `examples/planner_process.cpp` | mode, health, hang, delay; the socket path | bind, answer, hang, crash, exit, handle SIGTERM |
| ThreadManager, the planner's loops | `examples/thread_manager.cpp`, `examples/planner_process.cpp` | per thread a state, a heartbeat and a progress stamp; `process_failed_`, `process_degraded_`, `runtime_state_`, `stop_requested_`; the cached status | beat, progress, `watchdog_check`, the handlers around each thread, serve requests, stop and join |
| Child status parsing | `src/child_status_json.cpp` | none | JSON text to health |
| Dependency order | `src/supervisor.cpp` 751-785 | none | `topo_order_` |
| Registry, configuration | 71-84, `src/config_loader.cpp` | `specs_`, fixed before any thread starts | `add_process`, load a JSON file |
| Event log, status text | 220-272, 741-749 | the last 200 events | formatting |
| lmctl | `tools/lmctl.cpp` | none | send one command, print the reply |

### How they interact

The control thread runs operators' commands; the main thread runs the
shutdown; the monitor and the poller run for as long as `bg_running_` is set.
All four call the same private functions: `start_one_` is called by control
and monitor, `stop_one_` by control and main, `apply_mode_ordered_` by control,
monitor and main, and `refresh_child_status_` by the poller and, through
`wait_ready_or_throw_`, by whoever starts a process. Every one of them takes
the mutex for a few lines at a time and gives it up for each `fork`, `kill`,
`waitpid`, request and sleep. `stop_one_` does not wait for the child: it waits
on the condition variable for the *monitor* to account for it.

Both servers, the ControlServer and a child, take one connection at a time from
a backlog. While the control thread runs a command it may itself be a client of
the child (`child`, `mode`, `start`), as the poller is. `stop()` is a client of
the ControlServer: it connects and closes to wake `accept()`.

In the planner four threads share one mutex (`info_mu_`) and four atomics. Each
stamps a heartbeat and its progress; the watchdog, one of the four, judges all
of them; the status thread turns the result into the cached answer that the ipc
thread gives to the supervisor; `main` waits for a stop or a failure, and joins.

### What is hard

* Every decision is taken in one critical section and carried out in another:
  check and fork, `waitpid` and account, request and verdict, sweep and mode.
* Two threads can start or stop one process, and two instances of it can be
  alive and share one socket path.
* Every wait has a deadline, and the thread that would end it early may be
  busy: the monitor reaps, backs off and restarts for all processes in one loop.
* A step of several may fail: one child of a sweep, one process of a start.
* At shutdown the threads that others wait for go away.
* A send to a peer that has closed raises SIGPIPE, which nobody ignores: it ends
  the supervisor or the child.
* A limit on a request's time does not cover the wait for a place in a backlog.
* The planner's watchdog overwrites flags that the handlers of failing threads
  set, and compares stamps with a clock it read before it took the lock.
* Two loops over `unordered_map`s decide the order in which processes start.

The hazards of the code, each at its line with the properties that cover it,
are listed in `PROJECT.json`.

### What makes each component correct

* Starting: a process comes up only by being started, and only once it answers;
  `start` starts all or undoes what it did.
* Stopping: after a stop nothing that was started is alive; dependants stop
  before what they depend on; no dead child is forgotten.
* Monitor: each dead child is waited for once; restarts stay within the budget;
  a critical exit is reported as ERROR.
* Poller: a late verdict raises nothing from the dead, and a process that is
  well does not stay Degraded.
* Modes: actuators are enabled last and disabled first; SAFE is attempted for all.
* `main()`: it ends, and leaves nothing behind.
* Dependency order: what is returned starts each process once, after all it
  depends on; nothing is refused that has such an order.
* Sockets: every request and every command ends, leaves no connection open, and
  the server can be stopped whatever it is doing.
* Planner: a thread that stands still or fails is found, the failure of a
  critical one is not lost and ends the process, a degraded process says so, and
  no healthy thread is accused.

## 2. Modules

```
SupervisorTypes      types, configuration (constants and their assumptions)
  Children           the operating system and the managed processes
    SupervisorCalls  start_one_, refresh_child_status_, stop_one_, apply_mode_ordered_
      Supervisor     the four threads; Init, Next, Spec, FairSpec
        SupervisorProps   properties, and the refinement of ProcLifecycle
          MCSupervisor            instances for TLC
          SupervisorProofs        TypeOK is an invariant
            SupervisorRecordProofs    the record, the restart budget, the refinement
              SupervisorThreadProofs  which thread may be where
                SupervisorStopProofs  stop_all: what it leaves, and its order
                  SupervisorModeProofs  pids and paths, the sweeps
ProcLifecycle        what is promised of one process, without threads, locks or pids

TopoOrder            topo_order_(), whose result is the constant Order of SupervisorTypes
  MCTopoOrder, TopoOrderProofs
Channel              ControlServer, IpcClient, lmctl and a child's server loop
  MCChannel, ChannelProofs
Planner              ThreadManager and the threads of planner_process
  MCPlanner, PlannerProofs
```

The last three stand for themselves: `TopoOrder` discharges the assumption
`OrderAssumption` under which the supervisor is modelled, `Channel` shows what
the steps "a command is accepted", "a request is answered or times out" and "the
control server is stopped" stand for, and `Planner` where a child's health and
its graceful exit come from. Composed in one state space they would be out of
TLC's reach.

**SupervisorTypes** declares the configuration: `Procs`, `Deps`, `Role`,
`Critical`, `RestartPolicy`, `MaxRestart`, and `Order`, the result of
`topo_order_()`. `OrderAssumption` says no more of it than that it lists all
processes, each after its dependencies. A `ProcessRuntime` is a record
`[pid, state, reach, restarts]`; pid 0 is the code's -1.

**Children** is the outside world. `child[i]` is the i-th process forked and
`sock[p]` the process that the socket path of `p` leads to. Its first half is
what the supervisor does to children (`Spawn`, `Term`, `Kill`, `Reap`,
`SetMode`, `Unanswered`); its second half what they do themselves (`Boot`,
`Crash`, `Quit`, `Hang`, `Wake`, `BrokenPipe`, `Sicken`, `Heal`, `Terminate`).
Binding the path takes it over from an older instance; the planner unlinks the
path on its way out, whoever listens there by then (`TerminateUnlinks`).

**SupervisorCalls** and **Supervisor** are the program. A thread is a record
`th[t]`: the job it is on (the function that was called from its loop), the
point `at` it has reached in the private function that job has called, and that
function's locals: the name, the pid or pgid it remembered, the dependencies
still to ping or the children still to tell, the mode, the answer received, the
names left. One action is one critical section of `mu_`:

| Code | Actions |
|---|---|
| `start_one_` | `StartAlready`, `StartProceeds`, `PingAnswered`, `PingNotRunning`, `PingUnanswered`, `MarkStarting`, `Fork`, `ForkFails`, `Finish` |
| `wait_ready_or_throw_` | `LookReady`, `LookGone`, `LookAgain`, `WaitExpires` |
| `refresh_child_status_` | `AskDown`, `AskAnswered`, `AskUnanswered`, then `CommitDown`, `CommitStatus`, `CommitSilent` |
| `stop_one_` | `StopNothing`, `StopSignal`, `StopDone`, `StopEscalate`, `StopTimeout` |
| `apply_mode_ordered_` | `Sweep`, `ModeSkip`, `ModeTold`, `ModeUnanswered`, `ModeDone` |
| `start_all` | `CmdStart`, `CmdStartAlready`, `StartAllNext`, `StartAllDone`, `StartAllSafe`, `StartAllUndo`, `UndoNext`, `UndoEnds` |
| `stop_all` | `StopAllNothing`, `StopAllBegins`, `StopAllSafe`, `StopAllNext`, `StopAllEnds` |
| other commands | `CmdStartProc`, `CmdStopProc`, `CmdRestart`, `RestartStarts`, `CmdMode`, `CmdModeRefused`, `SetModeDone`, `Replied` |
| monitor loop | `MonitorLook`, `MonitorNothing`, `MonitorReaps`, `AccountStopped`, `AccountCritical`, `AccountExited`, `AccountRestart`, `MonitorSafe`, `MonitorError`, `Revive`, `Revived`, `MonitorExits` |
| poll loop | `PollAsks`, `Commit...`, `PollExits` |
| `main`, `~Supervisor` | `Launch`, `Shutdown`, `MainSafe`, `MainStops`, `StopBackground`, `JoinBackground`, `PokeKills`, `StopControl`, `JoinControl` |

**TopoOrder** is `topo_order_` statement by statement, over configurations in
which a dependency may be repeated, unknown, cyclic or the process itself. `Seed`
takes the names without dependencies in any order and `Relax` the entries of
`out[u]` in any order, as the iteration of the maps may.

**Channel** has two servers, `control` and `child`, each with a backlog and one
connection it serves, and clients: operators' `lmctl`s, which talk to `control`,
and the poller and the control thread, which talk to `child`. A connection
remembers its client until that closes. The actions are the system calls:
`Connect`, `Refused`, `Send`, `SendBroken`, `TimeOut`, `Eof`, `Return` of a client;
`Accept`, `Read`, `Handle`, `Forward`, `Forwarded`, `Reply`, `ReplyBroken`, `Close`,
`Loop`, `LoopEnds` of a server; `StopFlag`, `Poke`, `Join` of `main`; `Hang`, `Wake`,
`Crash`, `Killed` are faults.

**Planner** has a point `at[t]` and a state `st[t]` for each of the four loops.
`Frame` is what they share (`Beat`, `Progress`, leaving the loop, the handlers of
`launch_thread`); then come the bodies (`ReadFlags`, `Cache`; `Request`,
`GetStatus`, `NoRequest`, `AcceptFails`; `Judge`, `StoreFailed`, `StoreRuntime`) and
`main` (`SetRunning`, `RunEnds`, `JoinAll`). Faults: a thread stalls, throws, or
`accept` fails.

**ProcLifecycle** is the abstract specification: every process is down,
starting, up, stopping or failed; it comes up only from starting; it is asked
to stop only if it is not down; its automatic restarts are bounded.

### Modelling decisions

* *Grain.* A system call or request is merged with the critical section next to
  it where no other thread can see the difference: `fork` with the recording of
  the pid, `kill` with the change to Stopping, the poller's snapshot with its
  requests, PING with GET_STATUS. The monitor's snapshot, its `waitpid` and its
  account are three steps.
* *Time.* A deadline is a step that may be taken whenever it is waited for,
  `start_timeout` too, however the child is doing. The one deadline that depends on
  it is that of a request: a child that serves answers in time, unless the run
  injects the fault `slow` (`ModeLate`, a SET_MODE that was carried out too late).
  Backoffs and poll periods are the time between two steps.
* *Loops over names.* The monitor and the poller go through an `unordered_map`
  pass after pass; the model lets them take any name next.
* *Children.* A request is answered if the process behind the path is serving;
  otherwise it times out, and a child that is hung remembers it. If it was a delay
  (`SET_DELAY_MS`), the late answer goes to a closed socket and SIGPIPE ends the
  child (`BrokenPipe`; the dummy sends without `MSG_NOSIGNAL`), and what it did at
  the end is lost with it (`Corpse`), as it is with any child that dies. After HANG the dummy sleeps for 24 hours and then
  answers nothing; that it would carry out the abandoned line at the end of that
  day, and live on, is not modelled: such a child stays hung. `Terminate` covers children that die of SIGTERM and
  children that handle it. A child starts in the dummy's mode `INIT`.
* *kill_on_timeout* is always true: the loader never sets it.
* *Left out:* event log, texts of replies, the cached mode, health and detail
  (only shown by `status`), `last_exit_code` beyond zero or not, commands that
  change no state (`ping`, `status`, `events`, `proc_status`, rejected names and
  modes). `child` commands appear as the children's own steps.
* *Pids* are not reused. `fork` fails when `MaxForks` processes were forked. What
  the code risks where the kernel does reuse them can still be said: the number
  of a child that was waited for is free. `PidsUnreaped` is about the numbers on
  record; of a pgid that `stop_one_` remembers nothing of the kind holds: by the time
  of its SIGKILL the monitor may have waited for that child (455), long ago if
  another thread has started the process again meanwhile, and that signal may then
  meet a stranger.
* *The end.* Where `main` stops the control server, an idle control thread takes
  the poke for a client and its reply raises SIGPIPE: the program ends there
  (`PokeKills`), without `~Supervisor`. A busy one leaves its loop after its
  command and is joined (`StopControl`, `JoinControl`). `Channel` has this in detail.
  `Terminated` is the stutter of a program that has ended, so that deadlock
  elsewhere is an error. No command is accepted once `running_` is reset.
* *What Supervisor leaves to Channel.* In `Supervisor` no request of its own ends
  it by SIGPIPE, and no `connect` waits for a place in a backlog.

In `Channel`:

* A command is one line and is sent as a whole; what is read of it is "the line"
  or "the end". A client that neither sends nor goes away does not occur (`lmctl`
  sends at once). Answers are not told apart.
* `Full` is Linux's rule for Unix sockets: `connect` waits while more connections
  than the backlog are queued. The instances use the smallest backlogs, 0 and 1,
  for the code's 16.
* The poke of `stop()` is a connection of nobody (`NoConn`), already closed.
* A child that hangs may wake. SIGTERM to the child and its restart are
  `Supervisor`'s.

In `Planner`:

* *Time* is the set of a thread's stamps that are older than their timeout. A
  stamp gets old only while its thread does not move, waits for one that does
  not, or goes round without progress: the loops' periods (100 to 500 ms) are
  below the timeouts (500 to 5000 ms).
* `watchdog_check` judges under `info_mu_`, so its judging and its first store are
  one step. The other two stores are steps of their own, because the atomics are
  read without the lock, and the lock is held until the last (`Unlocked`). The reading of the
  clock is merged with the watchdog's own heartbeat just before it.
* `ahead` holds the threads that stamped after that reading. With `ClockTicks`
  the millisecond may change meanwhile; a stamp in the future makes the unsigned
  age wrap. Run `planner` assumes that it does not, run `v_wrap` that it may.
* The flags of one status are read at once. `planning_thread` touches only its
  own stamps, so an instance may leave it out.
* One C++ data race is kept out: `server_fd_` is closed by `main` while the ipc
  thread uses it, and every outcome ends that thread's loop, because the stop was
  requested before.

## 3. Runs

The first four and `v_stop`, `v_zombie` use `MCSupervisor`: `p1` is a sensor and
`p2` an actuator that depends on it. Numbers are distinct states.

| Run | Question | Bounds |
|---|---|---|
| `one` (499k) | Types; state and pid of a process agree; a recorded pid was not waited for; restart budget; the supervisor implements `ProcLifecycle`. Deadlock is checked | 1 process, policy Always, all four threads, 2 restarts by hand (of a process that is down: a start) and a signal, 1 crash, 2 forks |
| `pair` (869k) | With nothing critical, and a sensor that is restarted automatically: actuators are enabled last and disabled first, a mode command that succeeds has reached every process that listens, `stop` turns to the sensor only when the actuator that depends on it is dead, and at its end the actuator, which is not restarted, is dead whatever the monitor does with the sensor | 2 processes, policies Always and Never, 3 commands among start, stop_proc, stop, mode SAFE and mode AUTO, 1 crash, hang or late answer, 3 forks, no poller |
| `down` (103k) | Every command is answered, also one that waits in `stop_one_` while the monitor waits in `start_one_`; after a signal the program ends, and at the end of the destructor's `stop_all` all that was started is dead, although the monitor is gone. Deadlock is checked | 1 process, policy Always, 2 of start_proc/stop_proc and a signal, 1 crash, 2 forks (so the monitor's restart waits for a child of its own), no poller |
| `recover` (29k) | No lasting Degraded; zombies are reaped; a critical exit ends in ERROR; at the end of `stop` the process, which is not restarted, is dead. Deadlock is checked | 1 critical process, poller and monitor, 2 of start_proc/stop_proc/stop, 1 crash, hang or sickness, 2 forks |
| `topo` (39k) | The order that is returned is one to start in; a refusal has a reason; the algorithm ends. Deadlock is checked | All configurations of 3 processes with up to 2 dependencies each, one name unknown, and some lists of 3 |
| `channel` (94k) | No connection is left open; an answer meets the request it answers; requests, commands and the shutdown end | 2 operators, backlog 0, 2 requests of poller and control thread, 1 hang, crash or killed `lmctl` |
| `planner` (66k) | A critical failure is not lost; stalls are found; a failure ends the process; degradation is told | ipc, status and watchdog, 1 stall, exception or failing accept, no tick between clock and lock |

Without a poller and without a signal to come (`pair`, `v_zombie`, `v_stop`) a run with
no commands left may rest, so these runs do not check deadlock; nor do `channel` and
`planner`, where operators may never come and the process exits.

**Why these bounds.** The hazards of the supervisor are races over one process
between two or three threads; one process with all four threads, two commands
and a signal, and one fault contains each pairwise race (start against automatic
restart, stop against account, late verdict against stop, shutdown against each of
them). With two forks a child can be duplicated (a start that timed out is tried
again) or restarted while the first instance is still there; `pair` has a third, for
a duplicate and a restart. Two processes are needed where an
order between processes matters (sweeps, `stop_all`, dependencies). More faults
repeat the same patterns: every deadline already expires at any moment, so that a
slow start needs no fault and one crash is enough to set the monitor on a restart
in `down`, where it then holds up whoever waits for its account. Where the properties
are temporal the poller is left out of that run (and is in `recover`): what it does to
a waiting `start_one_`, a verdict between two looks, `one` has. Three
names are the fewest with a cycle, a chain and a diamond of two arms to one name,
and lists of two and three repeat a name. A backlog of 0 makes two requests
compete for one place; two operators make one wait behind the other, and one of
them behind the poke. In the planner one fault is enough to fail a thread, and
the status and ipc threads stand for a thread that is not critical and one that is.

**Fairness.** In `Supervisor` each thread is weakly fair: the code's threads block
only on a mutex that is held for a few lines, on waits with a deadline and on
joins. (Of the two background threads this is said of those that are `Scheduled` in
the run; the others have left.) Where a loop makes a choice that the model leaves open, each option is
strongly fair, because the loop comes to it on every pass: the next name of the
monitor and the poller, the end of a pass when `bg_running_` is off, and the
deadline of `wait_ready_or_throw_`. A child binds its socket in the end (weakly
fair). In `Channel` the servers, the clients and `main` are weakly fair; a deadline
passes. In `Planner` the threads are strongly fair, because `info_mu_` is taken from
them and given back again and again, and time passes for one that stands still.
Operators, signals and faults owe nothing; nothing wakes a hung child or a stuck
thread.

### Where the documentation and the code part

Each is a run in which TLC finds the documented property violated; the quotes
are in `PROJECT.json`.

| Run | The code |
|---|---|
| `v_zombie` | A process may be started while Failed, Degraded or Stopping; the pid of its live or unreaped child is overwritten and never waited for |
| `v_stop` | A process about to be restarted passes for stopped, and is up when `stop_all` ends |
| `v_poke` | `ControlServer::stop()` wakes its thread with a connection it closes; the thread's answer raises SIGPIPE and ends the program before the second `stop_all` |
| `v_connect` | Requests that time out leave closed connections in the backlog of a hung child; when it is full, `connect` waits without a limit |
| `v_wrap` | The watchdog's unsigned age wraps for a heartbeat that is newer than its clock reading: a healthy planner stops itself |

`StopComplete` therefore holds only where nothing is restarted automatically (theorem
`StopCompleteWithoutRestarts`; `StopCompleteEach`, of the processes that are not
restarted, holds of every configuration), `CallEnds` only with fewer abandoned
requests than the backlog takes, and the properties of `planner` only while the clock
does not tick there.

More differences are visible in the code; the models contain them and no
property claims the opposite:

* Two sweeps interleave: the monitor's SAFE after a critical exit, or that of a
  shutdown, and an operator's AUTO can leave the actuator active with the sensor in
  SAFE. `ActuatorsLastOnFirstOff` and `ModeReached` hold while one thread at a time
  sweeps, as in `pair`, where nothing is critical and no signal comes.
* One child that does not answer ends a SAFE sweep for all after it.
* `start_all` sets RUNNING over an ERROR the monitor has reported meanwhile.
* A shutdown in the middle of a start leaves alive what was started after it
  looked, or after a failed start had reset `started_`.
* After `start_proc` of one process, `start` does nothing and replies OK, because
  `start_one_` sets `started_`. `start_order_` is append-only: where a single start
  failed and the operator or the monitor starts the process again, a dependency may
  come behind its dependant, and `stop_all` stops it first; and a dependant the
  monitor has restarted meanwhile may be up when its dependency is stopped.
  `StopsDependantsFirst` therefore needs a hypothesis: `pair` has no single starts and
  a dependant that is not restarted, the theorem nothing that is restarted.
* A start that is retried while the child of the first attempt is alive is judged
  ready by that child's answer.
* A configuration without an order leaves `start_all` in STARTING, and cannot be
  told SAFE either: the sweep asks for the order.
* A child that closes between `connect` and `send` ends the supervisor by SIGPIPE,
  where the code goes on to throw.
* In the planner, an exception in the status thread, which is not critical, sets
  `process_failed_` too; whether the process stops depends on whether `main` looks
  before the next check erases the flag. When that thread has gone or is stuck,
  the cached status stays, and a degraded process goes on saying OK.
* A stuck planner thread is found, but `join_all` waits for it without a limit;
  nobody watches the watchdog. The process returns 0 after a failure.
* The dummy's HANG sleeps for a day in its only thread, so RECOVER cannot reach it.

## 4. Theorems

**Supervisor.** For every set of processes, every dependency graph with an order, every
policy, limit, set of commands and set of faults
(`SpecsAssumption`, `OrderAssumption`, `ChildrenAssumption`,
`CommandsAssumption`):

* `TypeCorrect`: `Spec => []TypeOK`. `TypeOK` is inductive. Besides the types
  it bounds every recorded or remembered pid by the number of processes forked
  and says where a job can take its thread (`Fits`): a thread at `kill` has a
  pgid, a thread at `mode` has a mode that children accept. One lemma per function
  and per loop, over lemmas on what each helper does to `th` and to `child`.
* `RecordsConsistent`: `Spec => []RecordConsistent`: what is Stopped or Exited has no
  pid; what is up or on its way has one, or a thread is about to fork it.
* `RestartsBounded`: `Spec => []RestartBudget`. "`restarts <= MaxRestart`" alone
  is not inductive, since `Revive` increments without looking; the second
  conjunct of `RestartBudget` carries the check of `AccountRestart` through the
  backoff, and holds because no other thread touches the count.
* `LifecycleImplemented`: `Spec => LifecycleSpec`, the refinement that run `one`
  checks on one instance. The step from "not down" to "stopping" needs
  `RecordConsistent` (`stop_one_` tests the pid, not the state), and the
  counting of restarts needs `RestartBudget`.
* `ThreadsPosted`: `Spec => []Posted`: each thread runs only the jobs of its own loop
  and in a job only the calls that job makes, and the monitor revives only what it
  may restart. What another thread can be doing to a process is then read off its
  name; all that follows uses it.
* `LastStopComplete`: `Spec => ExitComplete`: whatever the signal interrupts, the
  `stop_all` of `~Supervisor` ends with every started process dead or off the record.
  The invariant has two parts. `Alone` follows the order in which `main` ends the
  other threads: once `~Supervisor` runs, they have all been joined, so only the
  main thread and the children move. `Handled` says that then every started process
  is still on `stop_all`'s list, or is the one in `stop_one_`, whose remembered pid
  is the recorded one and dead after SIGKILL, or is dead. A wait that ends early
  does so because the process is Stopped or Exited, and by `RecordConsistent` it
  has no pid then.
* `StopCompletePerProcess`: `Spec => StopCompleteEach`, the same of the control
  thread's `stop_all` and of each process that is not restarted automatically, with
  all other threads at work (`HandledForGood`): only the control thread, which is
  busy, or the monitor, which leaves this process alone, could fork it anew.
  `StopCompleteWithoutRestarts` concludes `StopComplete` from the assumption that
  nothing is restarted automatically; `v_stop` is what happens without it.
* `StopsInDependencyOrder`: `Spec => StopsDependantsFirst`, under `OnlyStartAll`
  (no `start_proc`, no `restart`, nothing restarted automatically). That the list is
  in order is not inductive by itself: a `start` adds a name behind whatever is on the
  list. The invariant (`InOrder`) says that the list is at every moment made of the
  first names of `Order`; that what is up is on it, so that a `start` after a failed
  one, which skips what it finds running, skips only names on the list; and how far
  the `start` under way has come. `stop_all` then goes back through `Order`, and what
  depends on the process it turns to is behind it: dead, by `Handled` and
  `HandledForGood`.
* `ChildrenOwned`: the pid on record and the socket path of a process lead to a child
  that was forked for that process, in a model whose pids are not reused.
* `RecordedPidsUnreaped`: `Spec => []PidsUnreaped`: a recorded pid has been waited for
  only while the monitor is on its way from `waitpid` to the account that erases it;
  outside that window the kernel cannot have reused the number on record. That the
  account erases the right record needs that two processes never have one pid on
  record (`ChildrenOwned`) and that the monitor has taken the pid from the record of
  the process it names (`RemembersOwn`); that it is still to come, that the monitor
  does nothing else meanwhile (`AccountPends`).
* `ModesReached` and `ActuatorsOrdered`: `ModeReached` and `ActuatorsLastOnFirstOff`
  for every behaviour in which one thread at a time sweeps (`OneSweeper`). The
  invariant (`Swept`): what a sweep has passed by and listens is in the sweep's mode, or
  was started since. A process without a pid is passed by untold, so this needs that
  it cannot listen as the recorded one later without being started, hence
  `ChildrenOwned`. For the actuators: what a sweep tells next comes after all roles it
  has told, in the order `RoleRank` gives for that mode.
* `ControlSweepsAlone`: `OneSweeper` holds where nothing is critical and no signal
  comes (`Undisturbed`), and with it the two properties of `Spec` itself
  (`ModesReachedUndisturbed`, `ActuatorsOrderedUndisturbed`), as run `pair` checks them.

The theorems go through lemmas that class every step of the program (`StepKinds`,
`PidSteps`, `UpSteps` in `SupervisorRecordProofs`, `StepMoves`, `OrderSteps`,
`StopAllSteps`, `ControlSteps` in `SupervisorStopProofs`, `StepModes` in
`SupervisorModeProofs`): whatever thread moves, `runtime` changes in one of a few ways
for one process, `start_order_` in one of two, one thread's record goes on, and the
children are told, forked or end. Each invariant is then a proof by those kinds
instead of by some fifty actions.

**TopoOrder.** For every finite set of names and every dependency list
(`NamesAssumption`, `DepListsAssumption`):

* `OrderReturned`: `Spec => []ReturnsOrder`. The invariant (`TopoInvariant`) says
  that `indeg[n]` is the number of mentions in `deps[n]` of names that have not
  been taken or have still to be relaxed, that the work list repeats no name, and
  that it holds exactly the names whose count is zero. `ReturnsOrder` is
  `OrderAssumption`, which the theorems about the supervisor start from.
* `OrderRefused`: `Spec => []RefusesRightly`. A name that is never listed has an
  unlisted dependency; were there an order, the first such name in it would
  depend on one before it.

**Channel.** For any operators, backlog, number of requests and faults
(`ChannelAssumption`):

* `ChannelTypes`: `Spec => []TypeOK`, with the bound on every backlog.
* `NoConnectionLeft`: `Spec => []NoStrayConnection`. The invariant adds that a server
  has connections of its own clients only (`Routed`) and that the control thread
  asks a child only within a command (`Asking`): without it a second request could
  begin while the first has its connection. Nearly all steps only close or relabel
  connections (`Thinned`); three move or add one.
* `AnswersAwaited`: `Spec => AnswerAwaited`. The invariant (`InStep`) is that a client
  whose connection is open is exactly where the connection says: sending until its line
  is in, then waiting, and no longer once it was answered.

**Planner.** For any threads, clock and number of faults (`PlannerAssumption`):

* `PlannerTypes`: `Spec => []TypeOK`.
* `FailureNotLost`: `Spec => []CriticalFailureKept`. The invariant says that the
  verdict a check holds covers every critical thread in Error (`VerdictHolds`),
  which is true because `info_mu_` is held until it is stored, and that a handler
  between its three stores will still set the flag (`FailureKept`).

**Only model-checked.** Liveness, which rests on fairness that the prover does not
reach: `CommandAnswered`, `ShutdownEnds`, `ZombieReaped`, `CriticalExitReported`,
`RecoversFromDegraded`, the termination of `topo_order_`, and that requests, commands,
stalls and failures come to their end. Every safety property of a passing run is a
theorem, four of them (`StopComplete`, `StopsDependantsFirst`, `ModeReached`,
`ActuatorsLastOnFirstOff`) from a named hypothesis on the configuration; section 3
says what breaks each without it.

## 5. Not modelled, and the plan

Not modelled:

* the event log and the texts of replies and of `lmctl` (formatting, and output
  without state that anything reads back), and `lmctl`'s argument parsing and watch loop;
* the JSON loader: it runs before any thread exists, and its result is the
  constants; duplicates and empty fields end the program there;
* the reading of JSON text in `child_status_json.cpp`, a pure function of a string;
  what is made of its result is `Planner!Health`;
* a socket, bind or listen of the control server that fails: the thread then ends
  at once and no command is ever accepted;
* reuse of pids by the kernel;
* requests through `Supervisor` that meet a full backlog (in `Channel` only).

Next:

1. What is left of `v_zombie` under the guard that the code lacks, as an invariant and
   a theorem: which starts can lose a child.
2. An abstract specification of one request, which `Channel` implements.
3. Health as the supervisor computes it from a dummy's fields, as a table.
