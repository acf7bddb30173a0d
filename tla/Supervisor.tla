---------------------------- MODULE Supervisor ----------------------------
(***************************************************************************)
(* The four threads of the supervisor: the control thread that serves      *)
(* operators' commands, the monitor, the poller, and the main thread of    *)
(* src/main.cpp.                                                           *)
(***************************************************************************)
EXTENDS SupervisorCalls

CONSTANTS
  Ops,            \* the commands operators send in this run
  CmdModes,       \* the modes they ask for
  MaxCommands,    \* how many commands they send
  Scheduled       \* the background threads that are there in this run

CommandNames == {"start", "stop", "start_proc", "stop_proc", "restart", "mode",
                 "shutdown"}

ASSUME CommandsAssumption ==
  /\ Ops \subseteq CommandNames
  /\ CmdModes \subseteq Modes
  /\ MaxCommands \in Nat
  /\ Scheduled \subseteq {"monitor", "poll"}

VARIABLES
  bgRunning,
  commands        \* how many commands have been sent

vars == <<superVars, bgRunning, th, commands, childVars>>

Init ==
  /\ ChildInit
  /\ runtime = [p \in Procs |-> NewRuntime]
  /\ startOrder = <<>>
  /\ managerMode = "INIT"
  /\ managerState = "INIT"
  /\ started = FALSE
  /\ bgRunning = FALSE
  /\ th = [control |-> Resting("idle"), monitor |-> Resting("new"),
           poll |-> Resting("new"), main |-> Resting("launch")]
  /\ commands = 0

--------------------------------------------------------------------------
\* stop_all(), which the control thread and the main thread run.

\* What follows stop_all: the reply to the command, or in main() the stop of
\* the background threads and in ~Supervisor the end of the program.
AfterStopAll(t) ==
  Rest(t, IF t = "control" THEN "idle"
          ELSE IF bgRunning THEN "stop_bg" ELSE "exited")

StopAllNothing(t) ==
  /\ ~started
  /\ AfterStopAll(t)
  /\ UNCHANGED <<superVars, childVars>>

StopAllBegins(t) ==
  /\ started
  /\ managerState' = "STOPPING"
  /\ Sweep(t, "stop_safe", "SAFE", startOrder)
  /\ UNCHANGED <<runtime, startOrder, managerMode, started, childVars>>

\* (Mutation of EnterSafeEnds: the exception of the sweep is not caught.)
EnterSafeThrows(t) ==
  /\ th[t].at = "ok"
  /\ managerMode' = "SAFE"
  /\ UNCHANGED <<runtime, startOrder, managerState, started, childVars>>

\* The end of enter_safe_mode(): a sweep that threw changes nothing.
EnterSafeEnds(t) ==
  /\ Ended(t)
  /\ managerMode' = IF th[t].at = "ok" THEN "SAFE" ELSE managerMode
  /\ UNCHANGED <<runtime, startOrder, managerState, started, childVars>>

\* (Mutation of StopRest: the copy is not reversed.)
StopRestForward(t, j, r) ==
  IF r = <<>> THEN Become(t, [Resting(j) EXCEPT !.at = "ok"])
  ELSE CallFor(t, j, "stop_one", Head(r), Tail(r))

\* stop_all goes through its copy of start_order_ from the back.
StopRest(t, j, r) ==
  IF r = <<>> THEN Become(t, [Resting(j) EXCEPT !.at = "ok"])
  ELSE CallFor(t, j, "stop_one", r[Len(r)], SubSeq(r, 1, Len(r) - 1))

StopAllSafe(t) ==
  /\ th[t].job = "stop_safe"
  /\ EnterSafeEnds(t)
  /\ StopRest(t, "stop_all", th[t].rest)

\* A stop_one_ that threw is only logged.
StopAllNext(t) ==
  /\ th[t].job = "stop_all" /\ Ended(t)
  /\ th[t].rest # <<>>
  /\ StopRest(t, "stop_all", th[t].rest)
  /\ UNCHANGED <<superVars, childVars>>

StopAllEnds(t) ==
  /\ th[t].job = "stop_all" /\ Ended(t)
  /\ th[t].rest = <<>>
  /\ started' = FALSE
  /\ managerMode' = "STOPPED"
  /\ managerState' = "STOPPED"
  /\ AfterStopAll(t)
  /\ UNCHANGED <<runtime, startOrder, childVars>>

StopAll(t) == StopAllSafe(t) \/ StopAllNext(t) \/ StopAllEnds(t)

--------------------------------------------------------------------------
\* The control thread: handle_command_ and the public operations.

\* (running_ of the control server is reset just before "join_control".)
Command(op) ==
  /\ th["control"].job = "idle" /\ th["main"].job # "join_control"
  /\ op \in Ops
  /\ commands < MaxCommands
  /\ commands' = commands + 1

CmdStartAlready ==
  /\ Command("start")
  /\ started
  /\ UNCHANGED <<superVars, th, childVars>>

\* Names r are left for start_all to start.
StartRest(r) ==
  IF r = <<>> THEN Become("control", [Resting("start_all") EXCEPT !.at = "ok"])
  ELSE CallFor("control", "start_all", "start_one", Head(r), r)

CmdStart ==
  /\ Command("start")
  /\ ~started
  /\ managerState' = "STARTING"
  /\ StartRest(Order)
  /\ UNCHANGED <<runtime, startOrder, managerMode, started, childVars>>

CmdStop ==
  /\ Command("stop")
  /\ StopAllNothing("control") \/ StopAllBegins("control")

CmdStartProc(p) ==
  /\ Command("start_proc")
  /\ CallFor("control", "call", "start_one", p, <<>>)
  /\ UNCHANGED <<superVars, childVars>>

CmdStopProc(p) ==
  /\ Command("stop_proc")
  /\ CallFor("control", "call", "stop_one", p, <<>>)
  /\ UNCHANGED <<superVars, childVars>>

CmdRestart(p) ==
  /\ Command("restart")
  /\ CallFor("control", "restart", "stop_one", p, <<>>)
  /\ UNCHANGED <<superVars, childVars>>

\* The check at the head of apply_mode_ordered_ throws.
CmdModeRefused(m) ==
  /\ Command("mode")
  /\ ~started /\ m # "SAFE"
  /\ UNCHANGED <<superVars, th, childVars>>

CmdMode(m) ==
  /\ Command("mode")
  /\ started \/ m = "SAFE"
  /\ Sweep("control", "set_mode", m, <<>>)
  /\ UNCHANGED <<superVars, childVars>>

\* The head of th.rest is the process start_one_ has just returned from.
StartAllNext ==
  /\ th["control"].job = "start_all" /\ th["control"].at = "ok"
  /\ Len(th["control"].rest) > 1
  /\ StartRest(Tail(th["control"].rest))
  /\ UNCHANGED <<superVars, childVars>>

StartAllDone ==
  /\ th["control"].job = "start_all" /\ th["control"].at = "ok"
  /\ Len(th["control"].rest) <= 1
  /\ startOrder' = Order
  /\ started' = TRUE
  /\ managerState' = "RUNNING"
  /\ Sweep("control", "start_safe", "SAFE", <<>>)
  /\ UNCHANGED <<runtime, managerMode, childVars>>

StartAllSafe ==
  /\ th["control"].job = "start_safe" /\ th["control"].at = "ok"
  /\ managerMode' = "SAFE"
  /\ Rest("control", "idle")
  /\ UNCHANGED <<runtime, startOrder, managerState, started, childVars>>

\* A start_one_ or the sweep threw: what this call has started (or found
\* started) is stopped again, last first.
StartAllUndo ==
  /\ th["control"].job \in {"start_all", "start_safe"}
  /\ th["control"].at = "thrown"
  /\ StopRest("control", "undo",
              SubSeq(Order, 1, Len(Order) - Len(th["control"].rest)))
  /\ UNCHANGED <<superVars, childVars>>

UndoNext ==
  /\ th["control"].job = "undo" /\ Ended("control")
  /\ th["control"].rest # <<>>
  /\ StopRest("control", "undo", th["control"].rest)
  /\ UNCHANGED <<superVars, childVars>>

UndoEnds ==
  /\ th["control"].job = "undo" /\ Ended("control")
  /\ th["control"].rest = <<>>
  /\ managerState' = "ERROR"
  /\ started' = FALSE
  /\ Rest("control", "idle")
  /\ UNCHANGED <<runtime, startOrder, managerMode, childVars>>

\* restart_one_: a stop that threw is reported and nothing is started.
RestartStarts ==
  /\ th["control"].job = "restart" /\ th["control"].at = "ok"
  /\ CallFor("control", "call", "start_one", th["control"].proc, <<>>)
  /\ UNCHANGED <<superVars, childVars>>

Replied ==
  /\ \/ th["control"].job = "call" /\ Ended("control")
     \/ th["control"].job = "restart" /\ th["control"].at = "thrown"
     \/ th["control"].job = "set_mode" /\ th["control"].at = "thrown"
  /\ Rest("control", "idle")
  /\ UNCHANGED <<superVars, childVars>>

SetModeDone ==
  /\ th["control"].job = "set_mode" /\ th["control"].at = "ok"
  /\ managerMode' = th["control"].mode
  /\ Rest("control", "idle")
  /\ UNCHANGED <<runtime, startOrder, managerState, started, childVars>>

Accept ==
  \/ CmdStartAlready \/ CmdStart \/ CmdStop
  \/ \E p \in Procs : CmdStartProc(p) \/ CmdStopProc(p) \/ CmdRestart(p)
  \/ \E m \in CmdModes : CmdModeRefused(m) \/ CmdMode(m)

ControlJob ==
  \/ StartAllNext \/ StartAllDone \/ StartAllSafe \/ StartAllUndo
  \/ UndoNext \/ UndoEnds \/ RestartStarts \/ Replied \/ SetModeDone

--------------------------------------------------------------------------
\* The monitor thread: monitor_children_loop_.  Every pass goes through all
\* the names in the order of an unordered_map, and passes follow one another,
\* so which name comes next is a free choice; SF below restores "all names".

\* (Mutation of MonitorLook: what is being stopped is left to stop_one_.)
MonitorSkipsStopping(p) ==
  /\ th["monitor"].job = "scan"
  /\ runtime[p].pid # 0 /\ runtime[p].state # "Stopping"
  /\ Become("monitor", [Resting("waitpid") EXCEPT !.proc = p,
                                                 !.pid = runtime[p].pid])
  /\ UNCHANGED <<superVars, childVars>>

MonitorLook(p) ==
  /\ th["monitor"].job = "scan"
  /\ runtime[p].pid # 0
  /\ Become("monitor", [Resting("waitpid") EXCEPT !.proc = p,
                                                 !.pid = runtime[p].pid])
  /\ UNCHANGED <<superVars, childVars>>

\* waitpid returns 0, or -1 if that child has already been waited for.
MonitorNothing ==
  /\ th["monitor"].job = "waitpid"
  /\ child[th["monitor"].pid].phase # "zombie"
  /\ Rest("monitor", "scan")
  /\ UNCHANGED <<superVars, childVars>>

MonitorReaps ==
  /\ th["monitor"].job = "waitpid"
  /\ Reap(th["monitor"].pid)
  /\ th' = [th EXCEPT !["monitor"].job = "account"]
  /\ UNCHANGED superVars

\* (Mutation of Account: the pid stays on record.)
AccountKeepsPid(s) ==
  /\ th["monitor"].job = "account"
  /\ runtime' = [runtime EXCEPT ![th["monitor"].proc].reach = FALSE,
                                ![th["monitor"].proc].state = s]
  /\ UNCHANGED <<managerVars, childVars>>

\* The pid that is erased is the one recorded now.
Account(s) ==
  /\ th["monitor"].job = "account"
  /\ runtime' = [runtime EXCEPT ![th["monitor"].proc].pid = 0,
                                ![th["monitor"].proc].reach = FALSE,
                                ![th["monitor"].proc].state = s]
  /\ UNCHANGED <<managerVars, childVars>>

Unexpected(p) == runtime[p].state # "Stopping"

\* (Mutation of ShouldRestart: one restart too many.)
ShouldRestartOnceMore(p, failed) ==
  /\ ~Critical[p]
  /\ \/ RestartPolicy[p] = "Always"
     \/ RestartPolicy[p] = "OnFailure" /\ failed
  /\ runtime[p].restarts <= MaxRestart[p]

ShouldRestart(p, failed) ==
  /\ ~Critical[p]
  /\ \/ RestartPolicy[p] = "Always"
     \/ RestartPolicy[p] = "OnFailure" /\ failed
  /\ runtime[p].restarts < MaxRestart[p]

AccountStopped ==
  /\ Account("Stopped")
  /\ ~Unexpected(th["monitor"].proc)
  /\ Rest("monitor", "scan")

AccountCritical ==
  /\ Account("Exited")
  /\ Unexpected(th["monitor"].proc) /\ Critical[th["monitor"].proc]
  /\ Sweep("monitor", "safe", "SAFE", <<>>)

AccountExited ==
  LET p == th["monitor"].proc IN
  /\ Account("Exited")
  /\ Unexpected(p) /\ ~Critical[p]
  /\ ~ShouldRestart(p, child[th["monitor"].pid].failed)
  /\ Rest("monitor", "scan")

AccountRestart ==
  LET p == th["monitor"].proc IN
  /\ Account("Exited")
  /\ Unexpected(p) /\ ShouldRestart(p, child[th["monitor"].pid].failed)
  /\ CallFor("monitor", "backoff", "none", p, <<>>)

MonitorSafe ==
  /\ th["monitor"].job = "safe"
  /\ EnterSafeEnds("monitor")
  /\ Rest("monitor", "error")

MonitorError ==
  /\ th["monitor"].job = "error"
  /\ managerState' = "ERROR"
  /\ Rest("monitor", "scan")
  /\ UNCHANGED <<runtime, startOrder, managerMode, started, childVars>>

\* After restart_backoff, whatever has happened to the process meanwhile.
Revive ==
  LET p == th["monitor"].proc IN
  /\ th["monitor"].job = "backoff"
  /\ runtime' = [runtime EXCEPT ![p].restarts = @ + 1]
  /\ CallFor("monitor", "revive", "start_one", p, <<>>)
  /\ UNCHANGED <<managerVars, childVars>>

Revived ==
  /\ th["monitor"].job = "revive" /\ Ended("monitor")
  /\ Rest("monitor", "scan")
  /\ UNCHANGED <<superVars, childVars>>

MonitorExits ==
  /\ th["monitor"].job = "scan" /\ ~bgRunning
  /\ Rest("monitor", "exited")
  /\ UNCHANGED <<superVars, childVars>>

MonitorJob ==
  \/ \E p \in Procs : MonitorLook(p)
  \/ MonitorNothing \/ MonitorReaps
  \/ AccountStopped \/ AccountCritical \/ AccountExited \/ AccountRestart
  \/ MonitorSafe \/ MonitorError \/ Revive \/ Revived \/ MonitorExits

--------------------------------------------------------------------------
\* The poll thread: poll_status_loop_, whose passes are Refresh("poll").

PollAsks(p) ==
  AskDown("poll", p) \/ AskAnswered("poll", p) \/ AskUnanswered("poll", p)

PollExits ==
  /\ th["poll"].job = "idle" /\ th["poll"].at = "none" /\ ~bgRunning
  /\ Rest("poll", "exited")
  /\ UNCHANGED <<superVars, childVars>>

--------------------------------------------------------------------------
\* The main thread, from run_background_threads() to the end of ~Supervisor.
\* The control thread is there before the two background threads are.

Launch ==
  /\ th["main"].job = "launch"
  /\ th["monitor"].job = "new" /\ th["poll"].job = "new"
  /\ bgRunning' = TRUE
  /\ th' = [th EXCEPT !["main"] = Resting("sleep"),
                      !["monitor"] = Resting(IF "monitor" \in Scheduled
                                             THEN "scan" ELSE "exited"),
                      !["poll"] = Resting(IF "poll" \in Scheduled
                                          THEN "idle" ELSE "exited")]
  /\ UNCHANGED <<superVars, childVars>>

\* SIGINT or SIGTERM has arrived.
Shutdown ==
  /\ th["main"].job = "sleep"
  /\ "shutdown" \in Ops
  /\ Sweep("main", "main_safe", "SAFE", <<>>)
  /\ UNCHANGED <<superVars, bgRunning, childVars>>

MainSafe ==
  /\ th["main"].job = "main_safe"
  /\ EnterSafeEnds("main")
  /\ Rest("main", "main_stop")
  /\ UNCHANGED bgRunning

MainStops ==
  /\ th["main"].job = "main_stop"
  /\ StopAllNothing("main") \/ StopAllBegins("main")
  /\ UNCHANGED bgRunning

\* (Mutation of StopBackground: the flag is not reset.)
StopBackgroundOnlyJoins ==
  /\ th["main"].job = "stop_bg"
  /\ Rest("main", "join_bg")
  /\ UNCHANGED <<superVars, bgRunning, childVars>>

StopBackground ==
  /\ th["main"].job = "stop_bg"
  /\ bgRunning' = FALSE
  /\ Rest("main", "join_bg")
  /\ UNCHANGED <<superVars, childVars>>

JoinBackground ==
  /\ th["main"].job = "join_bg"
  /\ th["monitor"].job = "exited" /\ th["poll"].job = "exited"
  /\ Rest("main", "stop_control")
  /\ UNCHANGED <<superVars, bgRunning, childVars>>

\* ControlServer::stop() resets running_ and connects once, to wake accept().
\* A control thread that waits there takes the connection for a client, and
\* its answer to the empty command raises SIGPIPE: stop() has closed its end.
\* The program ends here, without ~Supervisor ...
PokeKills ==
  /\ th["main"].job = "stop_control"
  /\ th["control"].job = "idle"
  /\ th' = [th EXCEPT !["control"] = Resting("exited"), !["main"] = Resting("exited")]
  /\ UNCHANGED <<superVars, bgRunning, childVars>>

\* ... while one that is busy does not come back to accept().
StopControl ==
  /\ th["main"].job = "stop_control"
  /\ th["control"].job # "idle"
  /\ Rest("main", "join_control")
  /\ UNCHANGED <<superVars, bgRunning, childVars>>

\* The control thread leaves its loop after its last command; then main()
\* returns, and ~Supervisor enters SAFE and stops everything once more.
JoinControl ==
  /\ th["main"].job = "join_control"
  /\ th["control"].job = "idle"
  /\ th' = [th EXCEPT !["control"] = Resting("exited"),
                      !["main"] = [Resting("main_safe") EXCEPT
                                     !.at = "mode", !.mode = "SAFE",
                                     !.todo = Procs]]
  /\ UNCHANGED <<superVars, bgRunning, childVars>>

MainJob ==
  \/ Launch \/ MainSafe \/ MainStops
  \/ StopBackground \/ JoinBackground
  \/ PokeKills \/ StopControl \/ JoinControl

--------------------------------------------------------------------------
\* What any thread does inside the functions it calls.
Call(t) == StartOne(t) \/ Refresh(t) \/ StopOne(t) \/ ApplyMode(t) \/ StopAll(t)

\* The program has ended.
Terminated == th["main"].job = "exited" /\ UNCHANGED vars

Next ==
  \/ Terminated
  \/ Accept /\ UNCHANGED bgRunning
  \/ (MainJob \/ Shutdown) /\ UNCHANGED commands
  \/ \/ ControlJob \/ MonitorJob \/ PollExits
     \/ \E t \in Threads : Call(t)
    /\ UNCHANGED <<bgRunning, commands>>
  \/ \E i \in 1..Len(child) : ChildStep(i)
    /\ UNCHANGED <<superVars, bgRunning, th, commands>>

Spec == Init /\ [][Next]_vars

\* Threads keep running, so every step a thread can take is taken in the end.
\* Where a thread has a choice that its loop makes in turn (the next name of a
\* pass, the end of a pass, a deadline), each option gets its turn.  A child
\* that is not hung binds its socket.  Faults, operators and signals owe
\* nothing.
Quiet == UNCHANGED <<bgRunning, commands>>

Fairness ==
  /\ WF_vars((ControlJob \/ Call("control")) /\ Quiet)
  /\ WF_vars((MainJob /\ UNCHANGED commands) \/ (Call("main") /\ Quiet))
  /\ \A t \in Scheduled \cap {"monitor"} :
       /\ WF_vars((MonitorJob \/ Call(t)) /\ Quiet)
       /\ SF_vars(MonitorExits /\ Quiet)
       /\ \A p \in Procs : SF_vars(MonitorLook(p) /\ Quiet)
  /\ \A t \in Scheduled \cap {"poll"} :
       /\ WF_vars(Call(t) /\ Quiet)
       /\ SF_vars(PollExits /\ Quiet)
       /\ \A p \in Procs : SF_vars(PollAsks(p) /\ Quiet)
  /\ \A t \in {"control"} \cup (Scheduled \cap {"monitor"}) :
        SF_vars(WaitExpires(t) /\ Quiet)
  /\ \A i \in 1..MaxForks :
       WF_vars(/\ i \in 1..Len(child) /\ Boot(i)
               /\ UNCHANGED <<superVars, bgRunning, th, commands>>)

FairSpec == Spec /\ Fairness
==========================================================================
