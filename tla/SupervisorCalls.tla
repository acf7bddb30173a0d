------------------------- MODULE SupervisorCalls -------------------------
(***************************************************************************)
(* The supervisor of src/supervisor.cpp and the main thread of             *)
(* src/main.cpp: four threads that share runtime_, start_order_ and the    *)
(* manager's mode and state under one mutex, and that drop the mutex for   *)
(* every fork, signal, wait and request to a child.                        *)
(*                                                                         *)
(* An action is one critical section of mu_, together with the system call *)
(* or request next to it where no other thread can tell them apart.  A     *)
(* thread is a record: the job it is on, the point it has reached in the   *)
(* function that job has called, and that function's local variables.      *)
(* Logging and the event ring are left out.                                *)
(***************************************************************************)
EXTENDS Children

VARIABLES
  runtime, startOrder, managerMode, managerState, started,
  th              \* the threads

managerVars == <<startOrder, managerMode, managerState, started>>
superVars == <<runtime, managerVars>>

Threads == {"control", "monitor", "poll", "main"}

Jobs == {"new", "idle", "exited",                            \* any thread
         "start_all", "start_safe", "undo", "call", "restart", "set_mode",
         "stop_safe", "stop_all",                            \* control, main
         "scan", "waitpid", "account", "safe", "error", "backoff",
         "revive",                                           \* monitor
         "launch", "sleep", "main_safe", "main_stop", "stop_bg", "join_bg",
         "stop_control", "join_control"}                     \* main

\* The point reached in start_one_ ("start_one" to "finish"), stop_one_
\* ("stop_one" to "kill"), refresh_child_status_ ("ask", "commit") or
\* apply_mode_ordered_ ("mode"); "ok" and "thrown" are how they ended.
Points == {"none", "start_one", "ping", "fork", "ask", "commit", "look",
           "finish", "stop_one", "term", "kill", "mode", "ok", "thrown"}

\* What a refresh brought back; "down" is a snapshot without a pid.
Answer == {"none", "OK", "ERR", "silent", "down"}

ThreadRecs ==
  [job : Jobs, at : Points,
   proc : Procs \cup {NoProc},     \* name
   pid : Nat,                      \* pgid in stop_one_, rt.pid in the monitor
   todo : SUBSET Procs,            \* dependencies to ping, children to tell
   mode : ManagerModes,            \* the mode of a sweep
   seen : Answer,
   rest : Seq(Procs)]              \* names start_all or stop_all has left

\* Thread t on job j, with no call in progress.
Resting(j) == [job |-> j, at |-> "none", proc |-> NoProc, pid |-> 0, todo |-> {},
               mode |-> "INIT", seen |-> "none", rest |-> <<>>]

Become(t, rec) == th' = [th EXCEPT ![t] = rec]
Rest(t, j) == Become(t, Resting(j))

\* Thread t, on job j with names r left, calls f for p.
CallFor(t, j, f, p, r) ==
  Become(t, [Resting(j) EXCEPT !.at = f, !.proc = p, !.rest = r])

\* Thread t, on job j with names r left, enters apply_mode_ordered_(m).
Sweep(t, j, m, r) ==
  Become(t, [Resting(j) EXCEPT !.at = "mode", !.mode = m, !.todo = Procs,
                               !.rest = r])

Goto(t, l) == th' = [th EXCEPT ![t].at = l]

\* The function thread t is in returns ("ok") or throws ("thrown").
Return(t, how) ==
  th' = [th EXCEPT ![t].at = how, ![t].pid = 0, ![t].todo = {},
                   ![t].seen = "none"]

Ended(t) == th[t].at \in {"ok", "thrown"}

SetState(p, s) == runtime' = [runtime EXCEPT ![p].state = s]

--------------------------------------------------------------------------
\* start_one_(name)

\* Running or Starting: nothing to do.
StartAlready(t) ==
  /\ th[t].at = "start_one"
  /\ runtime[th[t].proc].state \in {"Running", "Starting"}
  /\ Return(t, "ok")
  /\ UNCHANGED <<superVars, childVars>>

StartProceeds(t) ==
  /\ th[t].at = "start_one"
  /\ runtime[th[t].proc].state \notin {"Running", "Starting"}
  /\ th' = [th EXCEPT ![t].at = "ping", ![t].todo = Deps[th[t].proc]]
  /\ UNCHANGED <<superVars, childVars>>

\* ping_or_throw_(d): d has a pid and its socket answers ...
PingAnswered(t, d) ==
  /\ th[t].at = "ping" /\ d \in th[t].todo
  /\ runtime[d].pid # 0 /\ Answers(d)
  /\ th' = [th EXCEPT ![t].todo = @ \ {d}]
  /\ UNCHANGED <<superVars, childVars>>

\* ... or it is not running ...
PingNotRunning(t, d) ==
  /\ th[t].at = "ping" /\ d \in th[t].todo
  /\ runtime[d].pid = 0
  /\ Return(t, "thrown")
  /\ UNCHANGED <<superVars, childVars>>

\* ... or the request times out.
PingUnanswered(t, d) ==
  /\ th[t].at = "ping" /\ d \in th[t].todo
  /\ runtime[d].pid # 0 /\ Unanswered(d)
  /\ Return(t, "thrown")
  /\ UNCHANGED superVars

MarkStarting(t) ==
  /\ th[t].at = "ping" /\ th[t].todo = {}
  /\ runtime' = [runtime EXCEPT ![th[t].proc].state = "Starting",
                                ![th[t].proc].reach = FALSE]
  /\ Goto(t, "fork")
  /\ UNCHANGED <<managerVars, childVars>>

\* The pid of the new process replaces whatever pid was recorded.
Fork(t) ==
  /\ th[t].at = "fork"
  /\ Spawn(th[t].proc)
  /\ runtime' = [runtime EXCEPT ![th[t].proc].pid = Len(child) + 1,
                                ![th[t].proc].state = "Starting"]
  /\ Goto(t, "ask")
  /\ UNCHANGED managerVars

ForkFails(t) ==
  /\ th[t].at = "fork"
  /\ Len(child) = MaxForks
  /\ SetState(th[t].proc, "Failed")
  /\ Return(t, "thrown")
  /\ UNCHANGED <<managerVars, childVars>>

\* wait_ready_or_throw_, after its refresh and under the lock.
LookReady(t) ==
  /\ th[t].at = "look"
  /\ runtime[th[t].proc].reach
  /\ Goto(t, "finish")
  /\ UNCHANGED <<superVars, childVars>>

LookGone(t) ==
  /\ th[t].at = "look"
  /\ ~runtime[th[t].proc].reach
  /\ runtime[th[t].proc].state \in {"Exited", "Failed"}
  /\ Return(t, "thrown")
  /\ UNCHANGED <<superVars, childVars>>

LookAgain(t) ==
  /\ th[t].at = "look"
  /\ ~runtime[th[t].proc].reach
  /\ runtime[th[t].proc].state \notin {"Exited", "Failed"}
  /\ Goto(t, "ask")
  /\ UNCHANGED <<superVars, childVars>>

\* (Mutation of WaitExpires: every attempt sets the deadline anew.)
WaitForEver(t) == FALSE /\ UNCHANGED <<superVars, th, childVars>>

\* start_timeout is over and the process is Failed, however its child is doing;
\* the child is left alone.
WaitExpires(t) ==
  /\ th[t].at = "ask"
  /\ SetState(th[t].proc, "Failed")
  /\ Return(t, "thrown")
  /\ UNCHANGED <<managerVars, childVars>>

Finish(t) ==
  /\ th[t].at = "finish"
  /\ LET p == th[t].proc IN
       /\ runtime' = [runtime EXCEPT ![p].state =
                        IF @ = "Starting" THEN "Running" ELSE @]
       /\ startOrder' = IF \E k \in 1..Len(startOrder) : startOrder[k] = p
                        THEN startOrder ELSE Append(startOrder, p)
  /\ started' = TRUE
  /\ managerState' = IF managerState \in {"INIT", "STOPPED"} THEN "RUNNING"
                     ELSE managerState
  /\ Return(t, "ok")
  /\ UNCHANGED <<managerMode, childVars>>

StartOne(t) ==
  \/ StartAlready(t) \/ StartProceeds(t)
  \/ \E d \in Procs :
       PingAnswered(t, d) \/ PingNotRunning(t, d) \/ PingUnanswered(t, d)
  \/ MarkStarting(t) \/ Fork(t) \/ ForkFails(t)
  \/ LookReady(t) \/ LookGone(t) \/ LookAgain(t)
  \/ WaitExpires(t) \/ Finish(t)

--------------------------------------------------------------------------
\* refresh_child_status_(name): the snapshot of the pid and the two requests,
\* then the lock is taken again to store the result.  The caller goes on with
\* it, whether it threw or not.

\* Thread t is in wait_ready_or_throw_ for p, or it is the poller, which goes
\* through all names pass after pass: whichever p is next.
Asks(t, p) ==
  \/ th[t].at = "ask" /\ th[t].proc = p
  \/ t = "poll" /\ th[t].job = "idle" /\ th[t].at = "none"

Saw(t, p, answer) ==
  th' = [th EXCEPT ![t].at = "commit", ![t].proc = p, ![t].seen = answer]

AskDown(t, p) ==
  /\ Asks(t, p)
  /\ runtime[p].pid = 0
  /\ Saw(t, p, "down")
  /\ UNCHANGED <<superVars, childVars>>

AskAnswered(t, p) ==
  /\ Asks(t, p)
  /\ runtime[p].pid # 0 /\ Answers(p)
  /\ Saw(t, p, child[sock[p]].health)
  /\ UNCHANGED <<superVars, childVars>>

AskUnanswered(t, p) ==
  /\ Asks(t, p)
  /\ runtime[p].pid # 0 /\ Unanswered(p)
  /\ Saw(t, p, "silent")
  /\ UNCHANGED superVars

\* The poller is done with this process, start_one_ looks at the result.
Refreshed(t) ==
  IF t = "poll" THEN Rest(t, "idle")
  ELSE th' = [th EXCEPT ![t].at = "look", ![t].seen = "none"]

CommitDown(t) ==
  /\ th[t].at = "commit" /\ th[t].seen = "down"
  /\ runtime' = [runtime EXCEPT ![th[t].proc].reach = FALSE]
  /\ Refreshed(t)
  /\ UNCHANGED <<managerVars, childVars>>

CommitSilent(t) ==
  /\ th[t].at = "commit" /\ th[t].seen = "silent"
  /\ runtime' = [runtime EXCEPT
       ![th[t].proc].reach = FALSE,
       ![th[t].proc].state = IF @ = "Running" THEN "Degraded" ELSE @]
  /\ Refreshed(t)
  /\ UNCHANGED <<managerVars, childVars>>

\* (Mutation of Judged: what answers is Running, whatever it was.)
JudgedByHealth(state, health) ==
  CASE health # "ERR" -> "Running"
    [] state = "Running" /\ health = "ERR" -> "Degraded"
    [] OTHER -> state

\* (Mutation of Judged: no way back from Degraded.)
JudgedOneWay(state, health) ==
  CASE state = "Starting" -> "Running"
    [] state = "Running" /\ health = "ERR" -> "Degraded"
    [] OTHER -> state

\* The state a reachable process with this health moves to.
Judged(state, health) ==
  CASE state = "Starting" -> "Running"
    [] state = "Running" /\ health = "ERR" -> "Degraded"
    [] state = "Degraded" /\ health # "ERR" -> "Running"
    [] OTHER -> state

CommitStatus(t) ==
  /\ th[t].at = "commit" /\ th[t].seen \in {"OK", "ERR"}
  /\ runtime' = [runtime EXCEPT
       ![th[t].proc].reach = TRUE,
       ![th[t].proc].state = Judged(@, th[t].seen)]
  /\ Refreshed(t)
  /\ UNCHANGED <<managerVars, childVars>>

Refresh(t) ==
  \/ \E p \in Procs : AskDown(t, p) \/ AskAnswered(t, p) \/ AskUnanswered(t, p)
  \/ CommitDown(t) \/ CommitSilent(t) \/ CommitStatus(t)

--------------------------------------------------------------------------
\* stop_one_(name)

\* No pid: recorded as Stopped, whatever it was.
StopNothing(t) ==
  /\ th[t].at = "stop_one"
  /\ runtime[th[t].proc].pid = 0
  /\ runtime' = [runtime EXCEPT ![th[t].proc].state = "Stopped",
                                ![th[t].proc].reach = FALSE]
  /\ Return(t, "ok")
  /\ UNCHANGED <<managerVars, childVars>>

\* (Mutation of StopSignal: the pgid is not kept for the escalation.)
StopSignalForgets(t) ==
  /\ th[t].at = "stop_one"
  /\ runtime[th[t].proc].pid # 0
  /\ SetState(th[t].proc, "Stopping")
  /\ Term(runtime[th[t].proc].pid)
  /\ Goto(t, "term")
  /\ UNCHANGED managerVars

StopSignal(t) ==
  /\ th[t].at = "stop_one"
  /\ runtime[th[t].proc].pid # 0
  /\ SetState(th[t].proc, "Stopping")
  /\ Term(runtime[th[t].proc].pid)
  /\ th' = [th EXCEPT ![t].at = "term", ![t].pid = runtime[th[t].proc].pid]
  /\ UNCHANGED managerVars

\* The predicate of both waits on cv_.
IsDown(p) == runtime[p].state \in {"Stopped", "Exited"}

StopDone(t) ==
  /\ th[t].at \in {"term", "kill"}
  /\ IsDown(th[t].proc)
  /\ Return(t, "ok")
  /\ UNCHANGED <<superVars, childVars>>

\* (Mutation of StopEscalate: kill_on_timeout is ignored.)
StopGivesUp(t) ==
  /\ th[t].at = "term"
  /\ ~IsDown(th[t].proc)
  /\ Goto(t, "kill")
  /\ UNCHANGED <<superVars, childVars>>

\* stop_timeout is over (kill_on_timeout is always true: the loader never
\* sets it).
StopEscalate(t) ==
  /\ th[t].at = "term"
  /\ ~IsDown(th[t].proc)
  /\ Kill(th[t].pid)
  /\ Goto(t, "kill")
  /\ UNCHANGED superVars

\* The 2000 ms after SIGKILL are over.
StopTimeout(t) ==
  /\ th[t].at = "kill"
  /\ ~IsDown(th[t].proc)
  /\ Return(t, "thrown")
  /\ UNCHANGED <<superVars, childVars>>

StopOne(t) ==
  StopNothing(t) \/ StopSignal(t) \/ StopDone(t) \/ StopEscalate(t)
  \/ StopTimeout(t)

--------------------------------------------------------------------------
\* apply_mode_ordered_(mode), after its check that processes are started.

\* (Mutation of RoleRank: one order for all modes.)
RoleRankFixed(m) == [Sensor |-> 1, Compute |-> 2, Actuator |-> 3]

RoleRank(m) ==
  IF m \in {"SAFE", "IDLE"}
  THEN [Actuator |-> 1, Compute |-> 2, Sensor |-> 3]
  ELSE [Sensor |-> 1, Compute |-> 2, Actuator |-> 3]

\* p is visited before q: by role, and within a role in topological order.
VisitedBefore(m, p, q) ==
  LET r == RoleRank(m)
  IN  \/ r[Role[p]] < r[Role[q]]
      \/ r[Role[p]] = r[Role[q]] /\ Rank(p) <= Rank(q)

\* It is p's turn in the sweep of thread t.
Visits(t, p) ==
  /\ th[t].at = "mode" /\ p \in th[t].todo
  /\ \A q \in th[t].todo : VisitedBefore(th[t].mode, p, q)

ModeSkip(t, p) ==
  /\ Visits(t, p)
  /\ runtime[p].pid = 0
  /\ th' = [th EXCEPT ![t].todo = @ \ {p}]
  /\ UNCHANGED <<superVars, childVars>>

ModeTold(t, p) ==
  /\ Visits(t, p)
  /\ runtime[p].pid # 0
  /\ SetMode(p, th[t].mode)
  /\ th' = [th EXCEPT ![t].todo = @ \ {p}]
  /\ UNCHANGED superVars

\* The machine is slow: the caller's time is over when the answer of a child
\* that lives on is already in the socket.  The mode is set all the same.
ModeLate(t, p) ==
  /\ Visits(t, p)
  /\ runtime[p].pid # 0
  /\ Told(p, th[t].mode) /\ Fault("slow")
  /\ Return(t, "thrown")
  /\ UNCHANGED superVars

\* (Mutation of ModeUnanswered: the others are told all the same.)
ModePassedOver(t, p) ==
  /\ Visits(t, p)
  /\ runtime[p].pid # 0 /\ Unanswered(p)
  /\ th' = [th EXCEPT ![t].todo = @ \ {p}]
  /\ UNCHANGED superVars

\* One child that does not answer ends the sweep.
ModeUnanswered(t, p) ==
  /\ Visits(t, p)
  /\ runtime[p].pid # 0 /\ Unanswered(p)
  /\ Return(t, "thrown")
  /\ UNCHANGED superVars

ModeDone(t) ==
  /\ th[t].at = "mode" /\ th[t].todo = {}
  /\ Return(t, "ok")
  /\ UNCHANGED <<superVars, childVars>>

ApplyMode(t) ==
  \/ \E p \in Procs :
       ModeSkip(t, p) \/ ModeTold(t, p) \/ ModeLate(t, p) \/ ModeUnanswered(t, p)
  \/ ModeDone(t)
==========================================================================
