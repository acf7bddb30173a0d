----------------------- MODULE SupervisorStopProofs -----------------------
(***************************************************************************)
(* Proofs that stop_all() leaves no process alive that nobody restarts,    *)
(* for every configuration and every mix of commands and faults, and that  *)
(* it stops dependants first where operators only start all processes.     *)
(*                                                                         *)
(* A thread in stop_all has dealt with every started process or will       *)
(* (HandledBy), as long as no other thread puts a new process on record.   *)
(* In ~Supervisor nobody can: the three other threads have been joined     *)
(* (Alone).  Before, the monitor can, for what it may restart.             *)
(***************************************************************************)
EXTENDS SupervisorThreadProofs

Others == Threads \ {"main"}

\* ~Supervisor: SAFE and stop_all once more, after all threads were joined.
Destroying ==
  /\ ~bgRunning
  /\ th["main"].job \in {"main_safe", "main_stop", "stop_safe", "stop_all"}

\* The order in which main() ends the other threads.
Alone ==
  /\ th["main"].job = "sleep" => bgRunning
  /\ th["main"].job \in {"stop_control", "join_control"} =>
       th["monitor"].job = "exited" /\ th["poll"].job = "exited"
  /\ Destroying => \A t \in Others : th[t].job = "exited"

InRest(t, p) == \E k \in 1..Len(th[t].rest) : th[t].rest[k] = p

\* Thread t is in stop_one_ for p; after its SIGTERM it knows the pid, and after
\* its SIGKILL that pid is dead.
BeingStopped(t, p) ==
  /\ th[t].proc = p
  /\ \/ th[t].at = "stop_one"
     \/ /\ th[t].at \in {"term", "kill"}
        /\ Recorded(p) => runtime[p].pid = th[t].pid
        /\ th[t].at = "kill" => ~Live(th[t].pid)

\* The stop_all of thread t has dealt with p or will, if p was started.
HandledBy(t, p) ==
  InStartOrder(p) =>
    /\ th[t].job = "stop_safe" => InRest(t, p)
    /\ th[t].job = "stop_all" =>
         InRest(t, p) \/ BeingStopped(t, p) \/ ~RecordedLive(p)

\* The last stop_all forgets no process ...
Handled == Destroying => \A p \in Procs : HandledBy("main", p)

\* ... and that of the control thread none that stays down once it is.
HandledForGood == \A p \in Procs : ~MayRestart(p) => HandledBy("control", p)

--------------------------------------------------------------------------
\* What is dead stays dead.

DeadStay == \A i \in 1..Len(child) : ~Live(i) => ~Live(i)'

LEMMA DeadUpdated ==
  ASSUME ChildTypeOK, NEW i \in 1..Len(child), NEW r,
         child' = [child EXCEPT ![i] = r],
         Live(i) \/ r.phase = child[i].phase
  PROVE  DeadStay
  <1>1. child \in [1..Len(child) -> ChildRecs]
    BY LenProperties DEF ChildTypeOK
  <1>2. ASSUME NEW j \in 1..Len(child), ~Live(j) PROVE ~Live(j)'
    <2>1. CASE j = i
      <3>1. child'[j] = r
        BY <1>1, <2>1
      <3> QED BY <1>2, <2>1, <3>1 DEF Live
    <2>2. CASE j # i
      <3>1. child'[j] = child[j]
        BY <1>1, <2>2
      <3> QED BY <1>2, <3>1 DEF Live
    <2> QED BY <2>1, <2>2
  <1> QED BY <1>2 DEF DeadStay

LEMMA DeadSame ==
  ASSUME UNCHANGED child
  PROVE  DeadStay
  BY DEF DeadStay, Live

LEMMA DieStay ==
  ASSUME ChildTypeOK, NEW i \in 1..Len(child), NEW b, Live(i), Die(i, b)
  PROVE  DeadStay /\ ~Live(i)'
  <1> DEFINE r == Corpse(i, b)
  <1>1. child[i] \in ChildRecs /\ child' = [child EXCEPT ![i] = r]
    BY ChildFacts DEF Die
  <1>2. r.phase = "zombie"
    BY DEF Corpse, NewChild
  <1>3. child'[i] = r
    BY <1>1, LenProperties DEF ChildTypeOK
  <1> HIDE DEF r
  <1> QED BY <1>1, <1>2, <1>3, DeadUpdated DEF Live

LEMMA KillStay ==
  ASSUME ChildTypeOK, NEW i \in 1..Len(child), Kill(i)
  PROVE  DeadStay /\ ~Live(i)'
  <1>1. CASE Live(i)
    BY <1>1, DieStay DEF Kill
  <1>2. CASE ~Live(i)
    BY <1>2, DeadSame DEF Kill, Live
  <1> QED BY <1>1, <1>2

\* Requests and SIGTERM kill nobody and revive nobody.
LEMMA TermStay ==
  ASSUME ChildTypeOK, NEW i \in 1..Len(child), Term(i)
  PROVE  DeadStay
  <1> DEFINE r == [child[i] EXCEPT !.termed = TRUE]
  <1>1. child[i] \in ChildRecs
    BY ChildFacts
  <1>2. child' = [child EXCEPT ![i] = r] \/ UNCHANGED child
    BY DEF Term
  <1>3. r.phase = child[i].phase
    BY <1>1 DEF ChildRecs
  <1> HIDE DEF r
  <1> QED BY <1>2, <1>3, DeadUpdated, DeadSame

LEMMA ToldStay ==
  ASSUME ChildTypeOK, NEW p \in Procs, NEW m, Told(p, m)
  PROVE  DeadStay
  <1> DEFINE i == sock[p]
  <1>1. i \in 1..Len(child) /\ Live(i)
    BY ChildFacts DEF Told, Answers, Live
  <1>2. PICK r : child' = [child EXCEPT ![i] = r]
    BY DEF Told
  <1> QED BY <1>1, <1>2, DeadUpdated

LEMMA UnansweredStay ==
  ASSUME ChildTypeOK, NEW p \in Procs, Unanswered(p)
  PROVE  DeadStay
  <1> DEFINE i == sock[p]
  <1> DEFINE r == [child[i] EXCEPT !.asked = TRUE]
  <1>1. CASE i = 0
    BY <1>1, DeadSame DEF Unanswered
  <1>2. CASE i # 0
    <2>1. i \in 1..Len(child) /\ child[i] \in ChildRecs
      BY <1>2, ChildFacts
    <2>2. child' = [child EXCEPT ![i] = r]
      BY <1>2 DEF Unanswered
    <2>3. r.phase = child[i].phase
      BY <2>1 DEF ChildRecs
    <2> HIDE DEF r, i
    <2> QED BY <2>1, <2>2, <2>3, DeadUpdated
  <1> QED BY <1>1, <1>2

LEMMA ChildStepStay ==
  ASSUME ChildTypeOK, NEW i \in 1..Len(child), ChildStep(i)
  PROVE  DeadStay
  <1>1. Live(i)
    BY DEF ChildStep, Boot, Crash, Quit, Hang, Wake, BrokenPipe, Sicken, Heal,
           Terminate, TerminateUnlinks, Live
  <1>2. CASE Crash(i) \/ Quit(i) \/ BrokenPipe(i) \/ Terminate(i)
    <2>1. PICK b : Die(i, b)
      BY <1>2 DEF Crash, Quit, BrokenPipe, Terminate
    <2> QED BY <1>1, <2>1, DieStay
  <1>3. CASE Boot(i) \/ Hang(i) \/ Wake(i) \/ Sicken(i) \/ Heal(i)
             \/ TerminateUnlinks(i)
    <2>1. PICK r : child' = [child EXCEPT ![i] = r]
      <3> DEFINE s(x) == [child[i] EXCEPT !.phase = x]
      <3>1. Boot(i) \/ Wake(i) => child' = [child EXCEPT ![i] = s("serving")]
        BY DEF Boot, Wake
      <3>2. Hang(i) => child' = [child EXCEPT ![i] = s("hung")]
        BY DEF Hang
      <3>3. Sicken(i) \/ Heal(i) => \E r : child' = [child EXCEPT ![i] = r]
        BY DEF Sicken, Heal
      <3>4. TerminateUnlinks(i) => \E r : child' = [child EXCEPT ![i] = r]
        BY DEF TerminateUnlinks
      <3> QED BY <1>3, <3>1, <3>2, <3>3, <3>4
    <2> QED BY <1>1, <2>1, DeadUpdated
  <1> QED BY <1>2, <1>3 DEF ChildStep

LEMMA SpawnStay ==
  ASSUME ChildTypeOK, NEW p \in Procs, Spawn(p)
  PROVE  DeadStay
  <1>1. \A i \in 1..Len(child) : child'[i] = child[i]
    BY AppendProperties DEF Spawn, ChildTypeOK
  <1> QED BY <1>1 DEF DeadStay, Live

LEMMA ReapStay ==
  ASSUME ChildTypeOK, NEW i \in 1..Len(child), Reap(i)
  PROVE  DeadStay
  <1> DEFINE r == [child[i] EXCEPT !.phase = "gone"]
  <1>1. child[i] \in ChildRecs /\ child' = [child EXCEPT ![i] = r]
    BY ChildFacts DEF Reap
  <1>2. r.phase = "gone"
    BY <1>1 DEF ChildRecs
  <1>3. child'[i] = r /\ ~Live(i)
    BY <1>1, LenProperties DEF ChildTypeOK, Reap, Live
  <1> HIDE DEF r
  <1>4. ASSUME NEW j \in 1..Len(child), ~Live(j) PROVE ~Live(j)'
    <2>1. j # i => child'[j] = child[j]
      BY <1>1, LenProperties DEF ChildTypeOK
    <2> QED BY <1>2, <1>3, <1>4, <2>1 DEF Live
  <1> QED BY <1>4 DEF DeadStay

--------------------------------------------------------------------------
\* Who moves.

\* Only thread t takes this step, and it has not ended.
OnlyMoves(t) ==
  /\ th[t].job # "exited"
  /\ \A u \in Threads \ {t} : th'[u] = th[u]

LEMMA CallMoves ==
  ASSUME ThreadsOK, NEW t \in Threads, Call(t)
  PROVE  OnlyMoves(t)
  <1>1. CASE StartOne(t)
    <2>1. th[t].at # "none"
      BY <1>1 DEF StartOne, StartAlready, StartProceeds, PingAnswered, PingNotRunning,
         PingUnanswered, MarkStarting, Fork, ForkFails, LookReady, LookGone,
         LookAgain, WaitExpires, Finish
    <2>2. \A u \in Threads \ {t} : th'[u] = th[u]
      BY <1>1 DEF StartOne, StartAlready, StartProceeds, PingAnswered, PingNotRunning,
         PingUnanswered, MarkStarting, Fork, ForkFails, LookReady, LookGone,
         LookAgain, WaitExpires, Finish, Return, Goto, ThreadsOK
    <2> QED BY <2>1, <2>2, ThreadFacts DEF Fits, RestingJobs, OnlyMoves
  <1>2. CASE Refresh(t)
    <2>1. th[t].at # "none" \/ th[t].job = "idle"
      BY <1>2 DEF Refresh, AskDown, AskAnswered, AskUnanswered, Asks, CommitDown,
         CommitSilent, CommitStatus
    <2>2. \A u \in Threads \ {t} : th'[u] = th[u]
      BY <1>2 DEF Refresh, AskDown, AskAnswered, AskUnanswered, Saw, CommitDown,
         CommitSilent, CommitStatus, Refreshed, Rest, Become, ThreadsOK
    <2> QED BY <2>1, <2>2, ThreadFacts DEF Fits, RestingJobs, OnlyMoves
  <1>3. CASE StopOne(t)
    <2>1. th[t].at # "none"
      BY <1>3 DEF StopOne, StopNothing, StopSignal, StopDone, StopEscalate, StopTimeout
    <2>2. \A u \in Threads \ {t} : th'[u] = th[u]
      BY <1>3 DEF StopOne, StopNothing, StopSignal, StopDone, StopEscalate,
         StopTimeout, Return, Goto, ThreadsOK
    <2> QED BY <2>1, <2>2, ThreadFacts DEF Fits, RestingJobs, OnlyMoves
  <1>4. CASE ApplyMode(t)
    <2>1. th[t].at # "none"
      BY <1>4 DEF ApplyMode, ModeSkip, ModeTold, ModeLate, ModeUnanswered, ModeDone,
         Visits
    <2>2. \A u \in Threads \ {t} : th'[u] = th[u]
      BY <1>4 DEF ApplyMode, ModeSkip, ModeTold, ModeLate, ModeUnanswered, ModeDone,
         Return, ThreadsOK
    <2> QED BY <2>1, <2>2, ThreadFacts DEF Fits, RestingJobs, OnlyMoves
  <1>5. CASE StopAll(t)
    <2>1. th[t].job \in {"stop_safe", "stop_all"}
      BY <1>5 DEF StopAll, StopAllSafe, StopAllNext, StopAllEnds
    <2>2. \A u \in Threads \ {t} : th'[u] = th[u]
      BY <1>5 DEF StopAll, StopAllSafe, StopAllNext, StopAllEnds, StopRest, CallFor,
         AfterStopAll, Rest, Become, ThreadsOK
    <2> QED BY <2>1, <2>2 DEF OnlyMoves
  <1> QED BY <1>1, <1>2, <1>3, <1>4, <1>5 DEF Call

LEMMA ControlMoves ==
  ASSUME ThreadsOK, Accept \/ ControlJob
  PROVE  OnlyMoves("control")
  <1>0. "control" \in Threads
    BY DEF Threads
  <1>1. CASE Accept
    <2>1. th["control"].job = "idle"
      BY <1>1 DEF Accept, CmdStartAlready, CmdStart, CmdStop, CmdStartProc,
         CmdStopProc, CmdRestart, CmdModeRefused, CmdMode, Command
    <2>2. \A u \in Threads \ {"control"} : th'[u] = th[u]
      BY <1>0, <1>1 DEF Accept, CmdStartAlready, CmdStart, CmdStop, CmdStartProc,
         CmdStopProc, CmdRestart, CmdModeRefused, CmdMode, StartRest, CallFor, Sweep,
         StopAllNothing, StopAllBegins, AfterStopAll, Rest, Become, ThreadsOK
    <2> QED BY <2>1, <2>2 DEF OnlyMoves
  <1>2. CASE ControlJob
    <2>1. th["control"].job # "exited"
      BY <1>2 DEF ControlJob, StartAllNext, StartAllDone, StartAllSafe, StartAllUndo,
         UndoNext, UndoEnds, RestartStarts, Replied, SetModeDone
    <2>2. \A u \in Threads \ {"control"} : th'[u] = th[u]
      BY <1>0, <1>2 DEF ControlJob, StartAllNext, StartAllDone, StartAllSafe,
         StartAllUndo, UndoNext, UndoEnds, RestartStarts, Replied, SetModeDone,
         StartRest, StopRest, CallFor, Sweep, Rest, Become, ThreadsOK
    <2> QED BY <2>1, <2>2 DEF OnlyMoves
  <1> QED BY <1>1, <1>2

LEMMA MonitorMoves ==
  ASSUME ThreadsOK, MonitorJob
  PROVE  OnlyMoves("monitor")
  <1>1. "monitor" \in Threads
    BY DEF Threads
  <1>2. th["monitor"].job # "exited"
    BY DEF MonitorJob, MonitorLook, MonitorNothing, MonitorReaps, AccountStopped,
       AccountCritical, AccountExited, AccountRestart, Account, MonitorSafe,
       MonitorError, Revive, Revived, MonitorExits
  <1>3. \A u \in Threads \ {"monitor"} : th'[u] = th[u]
    BY <1>1 DEF MonitorJob, MonitorLook, MonitorNothing, MonitorReaps,
       AccountStopped, AccountCritical, AccountExited, AccountRestart, MonitorSafe,
       MonitorError, Revive, Revived, MonitorExits, CallFor, Sweep, Rest, Become,
       ThreadsOK
  <1> QED BY <1>2, <1>3 DEF OnlyMoves

\* A step of the main thread.
MainMoves ==
  \/ MainJob \/ Shutdown
  \/ Call("main") /\ UNCHANGED bgRunning

\* A step of another thread.
OtherMoves == (\E t \in Others : OnlyMoves(t)) /\ UNCHANGED bgRunning

\* A step of a child, or none.
ChildMoves == UNCHANGED <<superVars, bgRunning, th>> /\ DeadStay

LEMMA StepMoves ==
  ASSUME TypeOK, [Next]_vars
  PROVE  MainMoves \/ OtherMoves \/ ChildMoves
  <1> USE TypeParts
  <1>1. CASE Terminated \/ UNCHANGED vars
    BY <1>1, DeadSame DEF Terminated, vars, childVars, ChildMoves
  <1>2. CASE Accept /\ UNCHANGED bgRunning
    BY <1>2, ControlMoves DEF OtherMoves, Others, Threads
  <1>3. CASE ControlJob /\ UNCHANGED <<bgRunning, commands>>
    BY <1>3, ControlMoves DEF OtherMoves, Others, Threads
  <1>4. CASE MonitorJob /\ UNCHANGED <<bgRunning, commands>>
    BY <1>4, MonitorMoves DEF OtherMoves, Others, Threads
  <1>5. CASE PollExits /\ UNCHANGED <<bgRunning, commands>>
    <2>1. "poll" \in Others /\ OnlyMoves("poll")
      BY <1>5 DEF PollExits, Rest, Become, ThreadsOK, OnlyMoves, Others, Threads
    <2> QED BY <1>5, <2>1 DEF OtherMoves
  <1>6. ASSUME NEW t \in Threads, Call(t), UNCHANGED <<bgRunning, commands>>
        PROVE  MainMoves \/ OtherMoves
    BY <1>6, CallMoves DEF MainMoves, OtherMoves, Others
  <1>7. ASSUME NEW i \in 1..Len(child), ChildStep(i),
               UNCHANGED <<superVars, bgRunning, th, commands>>
        PROVE  ChildMoves
    BY <1>7, ChildStepStay DEF ChildMoves
  <1>8. CASE MainJob \/ Shutdown
    BY <1>8 DEF MainMoves
  <1>9. CASE Next
    <2>1. CASE \E t \in Threads : Call(t) /\ UNCHANGED <<bgRunning, commands>>
      BY <1>6, <2>1
    <2>2. CASE \E i \in 1..Len(child) :
                 ChildStep(i) /\ UNCHANGED <<superVars, bgRunning, th, commands>>
      BY <1>7, <2>2
    <2> QED BY <1>1, <1>2, <1>3, <1>4, <1>5, <1>8, <1>9, <2>1, <2>2 DEF Next
  <1> QED BY <1>1, <1>9

--------------------------------------------------------------------------
\* A thread's record after a step of its own.

ThreadIs(t, j, l, s) ==
  /\ th'[t].job = j /\ th'[t].at = l /\ th'[t].rest = s
  /\ \A u \in Threads \ {t} : th'[u] = th[u]

LEMMA ThreadRests ==
  ASSUME ThreadsOK, NEW t \in Threads, NEW j, Rest(t, j)
  PROVE  ThreadIs(t, j, "none", <<>>)
  <1>1. t \in Threads /\ th' = [th EXCEPT ![t] = Resting(j)]
    BY DEF Threads, Rest, Become
  <1> QED BY <1>1 DEF ThreadsOK, ThreadIs, Resting

LEMMA ThreadSweeps ==
  ASSUME ThreadsOK, NEW t \in Threads, NEW j, NEW m, NEW s, Sweep(t, j, m, s)
  PROVE  ThreadIs(t, j, "mode", s)
  <1> DEFINE r == [Resting(j) EXCEPT !.at = "mode", !.mode = m, !.todo = Procs,
                                     !.rest = s]
  <1>1. t \in Threads /\ th' = [th EXCEPT ![t] = r]
    BY DEF Threads, Sweep, Become
  <1>2. r.job = j /\ r.at = "mode" /\ r.rest = s
    BY DEF Resting
  <1> HIDE DEF r
  <1> QED BY <1>1, <1>2 DEF ThreadsOK, ThreadIs

LEMMA ThreadStopsNext ==
  ASSUME ThreadsOK, NEW t \in Threads, NEW s \in Seq(Procs), StopRest(t, "stop_all", s)
  PROVE  /\ s = <<>> => ThreadIs(t, "stop_all", "ok", <<>>)
         /\ s # <<>> => /\ ThreadIs(t, "stop_all", "stop_one", SubSeq(s, 1, Len(s) - 1))
                        /\ th'[t].proc = s[Len(s)]
  <1>0. t \in Threads
    BY DEF Threads
  <1>1. CASE s = <<>>
    <2> DEFINE r == [Resting("stop_all") EXCEPT !.at = "ok"]
    <2>1. th' = [th EXCEPT ![t] = r]
      BY <1>1 DEF StopRest, Become
    <2>2. r.job = "stop_all" /\ r.at = "ok" /\ r.rest = <<>>
      BY DEF Resting
    <2> HIDE DEF r
    <2> QED BY <1>0, <1>1, <2>1, <2>2 DEF ThreadsOK, ThreadIs
  <1>2. CASE s # <<>>
    <2> DEFINE r == [Resting("stop_all") EXCEPT
                       !.at = "stop_one", !.proc = s[Len(s)],
                       !.rest = SubSeq(s, 1, Len(s) - 1)]
    <2>1. th' = [th EXCEPT ![t] = r]
      BY <1>2 DEF StopRest, CallFor, Become
    <2>2. /\ r.job = "stop_all" /\ r.at = "stop_one" /\ r.proc = s[Len(s)]
          /\ r.rest = SubSeq(s, 1, Len(s) - 1)
      BY DEF Resting
    <2> HIDE DEF r
    <2> QED BY <1>0, <1>2, <2>1, <2>2 DEF ThreadsOK, ThreadIs
  <1> QED BY <1>1, <1>2

\* Within stop_one_ and the sweep a thread keeps its job, its process and
\* the names it has left.
Keeps(t, l) ==
  /\ ThreadIs(t, th[t].job, l, th[t].rest)
  /\ th'[t].proc = th[t].proc

LEMMA ThreadGoes ==
  ASSUME ThreadsOK, NEW t \in Threads, NEW l, Goto(t, l) \/ Return(t, l)
  PROVE  Keeps(t, l) /\ (Goto(t, l) => th'[t].pid = th[t].pid)
  <1>1. t \in Threads /\ th[t] \in ThreadRecs
    BY DEF Threads, ThreadsOK
  <1>2. CASE Goto(t, l)
    <2> DEFINE r == [th[t] EXCEPT !.at = l]
    <2>1. th' = [th EXCEPT ![t] = r]
      BY <1>2 DEF Goto
    <2>2. /\ r.job = th[t].job /\ r.at = l /\ r.rest = th[t].rest
          /\ r.proc = th[t].proc /\ r.pid = th[t].pid
      BY <1>1 DEF ThreadRecs
    <2> HIDE DEF r
    <2> QED BY <1>1, <2>1, <2>2 DEF ThreadsOK, ThreadIs, Keeps
  <1>3. CASE Return(t, l) /\ ~Goto(t, l)
    <2> DEFINE r == [th[t] EXCEPT !.at = l, !.pid = 0, !.todo = {},
                                       !.seen = "none"]
    <2>1. th' = [th EXCEPT ![t] = r]
      BY <1>3 DEF Return
    <2>2. /\ r.job = th[t].job /\ r.at = l /\ r.rest = th[t].rest
          /\ r.proc = th[t].proc
      BY <1>1 DEF ThreadRecs
    <2> HIDE DEF r
    <2> QED BY <1>1, <1>3, <2>1, <2>2 DEF ThreadsOK, ThreadIs, Keeps
  <1> QED BY <1>2, <1>3

\* The steps of stop_one_ and of the sweep that leave every process's state alone.
LEMMA ApplyModeKeeps ==
  ASSUME TypeOK, NEW t \in Threads, ApplyMode(t)
  PROVE  /\ \E l \in {"mode", "ok", "thrown"} : Keeps(t, l)
         /\ UNCHANGED superVars /\ DeadStay /\ th[t].at = "mode"
  <1> USE TypeParts
  <1>1. ASSUME NEW p \in Procs, ModeSkip(t, p) \/ ModeTold(t, p)
        PROVE  Keeps(t, "mode") /\ UNCHANGED superVars /\ DeadStay
    <2> DEFINE r == [th[t] EXCEPT !.todo = @ \ {p}]
    <2>1. /\ t \in Threads /\ th[t] \in ThreadRecs
          /\ th[t].at = "mode" /\ th' = [th EXCEPT ![t] = r]
          /\ UNCHANGED superVars
      BY <1>1 DEF ModeSkip, ModeTold, Visits, Threads, ThreadsOK
    <2>2. /\ r.job = th[t].job /\ r.at = "mode" /\ r.rest = th[t].rest
          /\ r.proc = th[t].proc
      BY <2>1 DEF ThreadRecs
    <2>3. DeadStay
      BY <1>1, ToldStay, DeadSame DEF ModeSkip, ModeTold, SetMode, childVars
    <2> HIDE DEF r
    <2> QED BY <2>1, <2>2, <2>3 DEF ThreadsOK, ThreadIs, Keeps
  <1>2. ASSUME NEW p \in Procs, ModeLate(t, p) \/ ModeUnanswered(t, p)
        PROVE  Keeps(t, "thrown") /\ UNCHANGED superVars /\ DeadStay
    <2>1. Return(t, "thrown") /\ UNCHANGED superVars
      BY <1>2 DEF ModeLate, ModeUnanswered
    <2>2. DeadStay
      BY <1>2, ToldStay, UnansweredStay DEF ModeLate, ModeUnanswered
    <2> QED BY <2>1, <2>2, ThreadGoes
  <1>3. CASE ModeDone(t)
    <2>1. Return(t, "ok") /\ UNCHANGED superVars /\ DeadStay
      BY <1>3, DeadSame DEF ModeDone, childVars
    <2> QED BY <1>3, <2>1, ThreadGoes DEF ModeDone
  <1>4. th[t].at = "mode"
    BY DEF ApplyMode, ModeSkip, ModeTold, ModeLate, ModeUnanswered, ModeDone, Visits
  <1> QED BY <1>1, <1>2, <1>3, <1>4 DEF ApplyMode

\* No process comes back on record alive.
PidsKept == \A p \in Procs : runtime'[p].pid = runtime[p].pid

\* The pid on record for p is kept or erased.
NotReplaced(p) == runtime'[p].pid \in {runtime[p].pid, 0}

LEMMA StaysUnrecorded ==
  ASSUME TypeOK, DeadStay, NEW p \in Procs, NotReplaced(p), ~RecordedLive(p)
  PROVE  ~RecordedLive(p)'
  BY TypeParts, ChildFacts DEF NotReplaced, DeadStay, RecordedLive, Recorded

\* While it is in stop_one_ nothing but a step of its own changes what the thread
\* knows.
LEMMA StaysBeingStopped ==
  ASSUME TypeOK, DeadStay, NEW t \in Threads, th'[t] = th[t],
         NEW p \in Procs, NotReplaced(p), BeingStopped(t, p)
  PROVE  BeingStopped(t, p)'
  <1>1. th[t].at = "kill" => th[t].pid \in 1..Len(child)
    BY TypeParts, ThreadFacts, ChildFacts DEF Fits
  <1> QED BY <1>1 DEF BeingStopped, NotReplaced, DeadStay, Recorded

\* A step of stop_one_ goes on with its process or leaves it dead.
StopsOn(t, p) == BeingStopped(t, p) => BeingStopped(t, p)' \/ ~RecordedLive(p)'

LEMMA StopOneKeeps ==
  ASSUME TypeOK, RecordConsistent, NEW t \in Threads, StopOne(t)
  PROVE  /\ \E l \in {"term", "kill", "ok", "thrown"} : Keeps(t, l)
         /\ UNCHANGED managerVars /\ PidsKept /\ DeadStay
         /\ \A p \in Procs : StopsOn(t, p)
  <1> USE TypeParts
  <1> DEFINE q == th[t].proc
  <1>0. /\ t \in Threads
        /\ th[t].at \in CallPoints => q \in Procs
        /\ th[t].at \in {"term", "kill"} => th[t].pid \in 1..Len(child)
    BY ThreadFacts, ChildFacts DEF Threads, Fits
  <1>1. CASE StopNothing(t)
    <2>1. q \in Procs /\ Return(t, "ok") /\ runtime[q].pid = 0
      BY <1>0, <1>1 DEF StopNothing, CallPoints
    <2>2. UNCHANGED managerVars /\ PidsKept /\ DeadStay
      BY <1>1, <2>1, DeadSame DEF StopNothing, PidsKept, RuntimeOK, Runtimes, childVars
    <2>3. \A p \in Procs : StopsOn(t, p)
      BY <2>1, <2>2 DEF StopsOn, BeingStopped, RecordedLive, Recorded, PidsKept
    <2> QED BY <1>0, <2>1, <2>2, <2>3, ThreadGoes
  <1>2. CASE StopSignal(t)
    <2> DEFINE r == [th[t] EXCEPT !.at = "term", !.pid = runtime[q].pid]
    <2>1. /\ q \in Procs /\ runtime[q].pid \in 1..Len(child) /\ Term(runtime[q].pid)
          /\ SetState(q, "Stopping") /\ th' = [th EXCEPT ![t] = r]
      <3>1. /\ q \in Procs /\ runtime[q].pid # 0 /\ Term(runtime[q].pid)
            /\ SetState(q, "Stopping")
        BY <1>0, <1>2 DEF StopSignal, CallPoints
      <3>2. th' = [th EXCEPT ![t] = r]
        BY <1>2 DEF StopSignal
      <3> QED BY <3>1, <3>2, ChildFacts
    <2>2. UNCHANGED managerVars /\ PidsKept /\ DeadStay
      BY <1>2, <2>1, TermStay DEF StopSignal, SetState, PidsKept, RuntimeOK, Runtimes
    <2>3. /\ r.job = th[t].job /\ r.at = "term" /\ r.rest = th[t].rest
          /\ r.proc = q /\ r.pid = runtime[q].pid
      BY <1>0, ThreadFacts DEF ThreadRecs
    <2> HIDE DEF r
    <2>4. th'[t] = r /\ Keeps(t, "term")
      BY <1>0, <2>1, <2>3 DEF ThreadsOK, ThreadIs, Keeps
    <2>5. \A p \in Procs : StopsOn(t, p)
      BY <2>2, <2>3, <2>4 DEF StopsOn, BeingStopped, Recorded, PidsKept
    <2> QED BY <2>2, <2>4, <2>5
  <1>3. CASE StopDone(t)
    <2>1. /\ q \in Procs /\ Return(t, "ok") /\ IsDown(q)
          /\ UNCHANGED <<superVars, childVars>>
      BY <1>0, <1>3 DEF StopDone, CallPoints
    <2>2. UNCHANGED managerVars /\ PidsKept /\ DeadStay
      BY <2>1, DeadSame DEF superVars, childVars, PidsKept
    <2>3. runtime'[q].pid = 0
      BY <2>1, <2>2 DEF RecordConsistent, PidsKept
    <2>4. \A p \in Procs : StopsOn(t, p)
      BY <2>3 DEF StopsOn, BeingStopped, RecordedLive, Recorded
    <2> QED BY <2>1, <2>2, <2>4, ThreadGoes
  <1>4. CASE StopEscalate(t)
    <2>1. /\ q \in Procs /\ Goto(t, "kill") /\ Kill(th[t].pid)
          /\ th[t].pid \in 1..Len(child) /\ th[t].at = "term"
          /\ UNCHANGED superVars
      BY <1>0, <1>4 DEF StopEscalate, CallPoints
    <2>2. /\ UNCHANGED managerVars /\ PidsKept
          /\ DeadStay /\ ~Live(th[t].pid)'
      <3> DEFINE i == th[t].pid
      <3>1. Keeps(t, "kill") /\ th'[t].pid = i
        BY <2>1, ThreadGoes
      <3>2. i \in 1..Len(child) /\ Kill(i)
        BY <2>1
      <3>3. DeadStay /\ child'[i].phase \notin {"boot", "serving", "hung"}
        BY <3>2, KillStay DEF Live
      <3> QED BY <2>1, <3>1, <3>3 DEF superVars, PidsKept, Live
    <2>3. Keeps(t, "kill") /\ th'[t].pid = th[t].pid
      BY <2>1, ThreadGoes
    <2>4. \A p \in Procs : StopsOn(t, p)
      BY <2>1, <2>2, <2>3 DEF StopsOn, BeingStopped, Recorded, PidsKept, Keeps,
                              ThreadIs
    <2> QED BY <2>2, <2>3, <2>4
  <1>5. CASE StopTimeout(t)
    <2>1. /\ Return(t, "thrown") /\ th[t].at = "kill"
          /\ UNCHANGED <<superVars, childVars>>
      BY <1>5 DEF StopTimeout
    <2>2. UNCHANGED managerVars /\ PidsKept /\ DeadStay
      BY <2>1, DeadSame DEF superVars, childVars, PidsKept
    <2>3. \A p \in Procs : BeingStopped(t, p) => ~RecordedLive(p)
      BY <2>1 DEF BeingStopped, RecordedLive
    <2>4. \A p \in Procs : StopsOn(t, p)
      BY <2>2, <2>3, StaysUnrecorded DEF StopsOn, PidsKept, NotReplaced
    <2> QED BY <2>1, <2>2, <2>4, ThreadGoes
  <1> QED BY <1>1, <1>2, <1>3, <1>4, <1>5 DEF StopOne

--------------------------------------------------------------------------
\* Alone is inductive.

LEMMA MainCalls ==
  ASSUME TypeOK, Posted, Call("main")
  PROVE  StopOne("main") \/ ApplyMode("main") \/ StopAll("main")
  <1>1. "main" \in Threads /\ th["main"].at \in {"none", "mode"} \cup StopPoints \cup Ends
                          /\ th["main"].job # "idle"
    BY DEF Threads, Posted, Placed, JobsOf, PointsOf, SweepJobs
  <1>2. ~StartOne("main")
    BY <1>1 DEF StopPoints, Ends, StartOne, StartAlready, StartProceeds, PingAnswered,
       PingNotRunning, PingUnanswered, MarkStarting, Fork, ForkFails, LookReady,
       LookGone, LookAgain, WaitExpires, Finish
  <1>3. ~Refresh("main")
    BY <1>1 DEF StopPoints, Ends, Refresh, AskDown, AskAnswered, AskUnanswered, Asks,
       CommitDown, CommitSilent, CommitStatus
  <1> QED BY <1>2, <1>3 DEF Call

\* After stop_all the main thread stops the background threads, or ends.
LEMMA ThreadAfterStopAll ==
  ASSUME ThreadsOK, NEW t \in Threads, AfterStopAll(t)
  PROVE  \E j \in {"idle", "stop_bg", "exited"} : ThreadIs(t, j, "none", <<>>)
  BY ThreadRests DEF AfterStopAll

LEMMA StopAllMoves ==
  ASSUME TypeOK, NEW t \in Threads, StopAll(t)
  PROVE  \/ /\ StopAllSafe(t) \/ StopAllNext(t)
            /\ \E l \in {"ok", "stop_one"}, s \in Seq(Procs) :
                 ThreadIs(t, "stop_all", l, s)
            /\ th[t].job \in {"stop_safe", "stop_all"}
         \/ /\ StopAllEnds(t)
            /\ \E j \in {"idle", "stop_bg", "exited"} : ThreadIs(t, j, "none", <<>>)
  <1> USE TypeParts
  <1>1. th[t].rest \in Seq(Procs)
    BY ThreadFacts DEF ThreadRecs
  <1>2. CASE StopAllSafe(t) \/ StopAllNext(t)
    <2>1. /\ StopRest(t, "stop_all", th[t].rest)
          /\ th[t].job \in {"stop_safe", "stop_all"}
      BY <1>2 DEF StopAllSafe, StopAllNext
    <2>2. th[t].rest # <<>> =>
            SubSeq(th[t].rest, 1, Len(th[t].rest) - 1) \in Seq(Procs)
      BY <1>1, EndsOfSeq
    <2> QED BY <1>1, <1>2, <2>1, <2>2, EmptySeq, ThreadStopsNext
  <1>3. CASE StopAllEnds(t)
    BY <1>3, ThreadAfterStopAll DEF StopAllEnds
  <1> QED BY <1>2, <1>3 DEF StopAll

LEMMA AloneMainJob ==
  ASSUME TypeOK, Alone, MainJob \/ Shutdown
  PROVE  Alone'
  <1> USE TypeParts
  <1>0. Others = {"control", "monitor", "poll"} /\ "main" \in Threads
    BY DEF Others, Threads
  <1>1. CASE Launch
    <2>1. bgRunning' = TRUE /\ th'["main"] = Resting("sleep")
      BY <1>0, <1>1 DEF Launch, ThreadsOK
    <2> QED BY <2>1 DEF Alone, Destroying, Resting
  <1>2. CASE Shutdown
    <2>1. bgRunning' /\ ThreadIs("main", "main_safe", "mode", <<>>)
      BY <1>2, <1>0, ThreadSweeps DEF Shutdown, Alone
    <2> QED BY <2>1 DEF Alone, Destroying, ThreadIs, Others
  <1>3. CASE MainSafe
    <2>1. /\ UNCHANGED bgRunning /\ ThreadIs("main", "main_stop", "none", <<>>)
          /\ th["main"].job = "main_safe"
      BY <1>3, <1>0, ThreadRests DEF MainSafe
    <2> QED BY <2>1 DEF Alone, Destroying, ThreadIs, Others
  <1>4. CASE MainStops
    <2>1. UNCHANGED bgRunning /\ th["main"].job = "main_stop"
      BY <1>4 DEF MainStops
    <2>2. \/ \E j \in {"idle", "stop_bg", "exited"} :
               ThreadIs("main", j, "none", <<>>)
          \/ ThreadIs("main", "stop_safe", "mode", startOrder)
      BY <1>0, <1>4, ThreadAfterStopAll, ThreadSweeps DEF MainStops, StopAllNothing, StopAllBegins
    <2> QED BY <2>1, <2>2 DEF Alone, Destroying, ThreadIs, Others
  <1>5. CASE StopBackground
    <2>1. ThreadIs("main", "join_bg", "none", <<>>)
      BY <1>5, <1>0, ThreadRests DEF StopBackground
    <2> QED BY <2>1 DEF Alone, Destroying, ThreadIs, Others
  <1>6. CASE JoinBackground
    <2>1. /\ ThreadIs("main", "stop_control", "none", <<>>)
          /\ th["monitor"].job = "exited" /\ th["poll"].job = "exited"
      BY <1>6, <1>0, ThreadRests DEF JoinBackground
    <2> QED BY <1>0, <2>1 DEF Alone, Destroying, ThreadIs, Others
  <1>7. CASE PokeKills
    <2>1. th'["main"] = Resting("exited")
      BY <1>0, <1>7 DEF PokeKills, ThreadsOK
    <2> QED BY <2>1 DEF Alone, Destroying, Resting
  <1>8. CASE StopControl
    <2>1. ThreadIs("main", "join_control", "none", <<>>) /\ th["main"].job = "stop_control"
      BY <1>8, <1>0, ThreadRests DEF StopControl
    <2> QED BY <1>0, <2>1 DEF Alone, Destroying, ThreadIs, Others
  <1>9. CASE JoinControl
    <2> DEFINE r == [Resting("main_safe") EXCEPT !.at = "mode", !.mode = "SAFE",
                                                 !.todo = Procs]
    <2>1. /\ th["main"].job = "join_control"
          /\ th' = [th EXCEPT !["control"] = Resting("exited"), !["main"] = r]
      BY <1>9 DEF JoinControl
    <2>2. r.job = "main_safe" /\ r.at = "mode"
      BY DEF Resting
    <2> HIDE DEF r
    <2>3. /\ th'["main"] = r /\ th'["control"].job = "exited"
          /\ th'["monitor"] = th["monitor"] /\ th'["poll"] = th["poll"]
      BY <1>0, <2>1 DEF ThreadsOK, Threads, Resting
    <2> QED BY <1>0, <2>1, <2>2, <2>3 DEF Alone, Destroying
  <1> QED BY <1>1, <1>2, <1>3, <1>4, <1>5, <1>6, <1>7, <1>8, <1>9 DEF MainJob

LEMMA AloneStep ==
  ASSUME TypeOK, RecordConsistent, Posted, Alone, [Next]_vars
  PROVE  Alone'
  <1> USE TypeParts
  <1>0. Others = {"control", "monitor", "poll"} /\ "main" \in Threads
    BY DEF Others, Threads
  <1>1. CASE OtherMoves
    <2>1. PICK t \in Others : OnlyMoves(t)
      BY <1>1 DEF OtherMoves
    <2>2. UNCHANGED bgRunning /\ th'["main"] = th["main"]
      BY <1>1, <2>1 DEF OtherMoves, OnlyMoves, Others, Threads
    <2>3. ~Destroying
      BY <2>1 DEF Alone, OnlyMoves
    <2>4. th["main"].job \in {"stop_control", "join_control"} =>
            th'["monitor"] = th["monitor"] /\ th'["poll"] = th["poll"]
      BY <2>1 DEF Alone, OnlyMoves, Others, Threads
    <2> QED BY <2>2, <2>3, <2>4 DEF Alone, Destroying
  <1>2. CASE ChildMoves
    BY <1>2 DEF ChildMoves, Alone, Destroying
  <1>3. CASE MainJob \/ Shutdown
    BY <1>3, AloneMainJob
  <1>4. CASE Call("main") /\ UNCHANGED bgRunning
    <2>1. CASE StopOne("main") \/ ApplyMode("main")
      <3>1. PICK l : Keeps("main", l)
        BY <1>0, <2>1, StopOneKeeps, ApplyModeKeeps
      <3> QED BY <1>0, <1>4, <3>1 DEF Keeps, ThreadIs, Others, Alone, Destroying
    <2>2. CASE StopAll("main")
      <3>1. CASE StopAllEnds("main")
        <4>1. PICK j \in {"idle", "stop_bg", "exited"} :
                ThreadIs("main", j, "none", <<>>)
          BY <1>0, <2>2, <3>1, StopAllMoves DEF StopAllSafe, StopAllNext, StopAllEnds
        <4> QED BY <4>1 DEF ThreadIs, Others, Alone, Destroying
      <3>2. CASE ~StopAllEnds("main")
        <4>1. PICK l \in {"ok", "stop_one"}, s \in Seq(Procs) :
                ThreadIs("main", "stop_all", l, s)
          BY <1>0, <2>2, <3>2, StopAllMoves
        <4>2. th["main"].job \in {"stop_safe", "stop_all"}
          BY <1>0, <2>2, <3>2, StopAllMoves
        <4> QED BY <1>4, <4>1, <4>2 DEF ThreadIs, Others, Alone, Destroying
      <3> QED BY <3>1, <3>2
    <2> QED BY <1>4, <2>1, <2>2, MainCalls
  <1> QED BY <1>1, <1>2, <1>3, <1>4, StepMoves DEF MainMoves

--------------------------------------------------------------------------
\* Who replaces a pid, and who adds to the start order.

\* The control thread within stop_all forks nothing, and the monitor only what it
\* may restart.
LEMMA ForkedBy ==
  ASSUME TypeOK, Posted, NEW t \in Threads, th[t].at \in StartPoints \ {"commit"}
  PROVE  \/ t = "control" /\ th[t].job \in {"start_all", "call"}
         \/ t = "monitor" /\ MayRestart(th[t].proc)
  BY DEF Posted, Placed, JobsOf, PointsOf, SweepJobs, StartPoints, StopPoints, Ends,
         Threads

LEMMA CallOrder ==
  ASSUME TypeOK, NEW t \in Threads, Call(t)
  PROVE  UNCHANGED startOrder \/ Finish(t)
  <1>1. CASE StartOne(t)
    BY <1>1 DEF StartOne, StartAlready, StartProceeds, PingAnswered, PingNotRunning,
       PingUnanswered, MarkStarting, Fork, ForkFails, LookReady, LookGone, LookAgain,
       WaitExpires, superVars, managerVars
  <1>2. CASE Refresh(t)
    BY <1>2 DEF Refresh, AskDown, AskAnswered, AskUnanswered, CommitDown,
       CommitSilent, CommitStatus, superVars, managerVars
  <1>3. CASE StopOne(t)
    BY <1>3 DEF StopOne, StopNothing, StopSignal, StopDone, StopEscalate,
       StopTimeout, superVars, managerVars
  <1>4. CASE ApplyMode(t)
    BY <1>4 DEF ApplyMode, ModeSkip, ModeTold, ModeLate, ModeUnanswered, ModeDone,
       superVars, managerVars
  <1>5. CASE StopAll(t)
    BY <1>5 DEF StopAll, StopAllSafe, StopAllNext, StopAllEnds, EnterSafeEnds,
       superVars, managerVars
  <1> QED BY <1>1, <1>2, <1>3, <1>4, <1>5 DEF Call

LEMMA OrderSteps ==
  ASSUME TypeOK, [Next]_vars
  PROVE  \/ UNCHANGED startOrder \/ StartAllDone
         \/ \E t \in Threads : Finish(t)
  <1>1. CASE Accept
    BY <1>1 DEF Accept, CmdStartAlready, CmdStart, CmdStop, CmdStartProc, CmdStopProc,
       CmdRestart, CmdModeRefused, CmdMode, StopAllNothing, StopAllBegins, superVars,
       managerVars
  <1>2. CASE ControlJob
    BY <1>2 DEF ControlJob, StartAllNext, StartAllSafe, StartAllUndo, UndoNext,
       UndoEnds, RestartStarts, Replied, SetModeDone, superVars, managerVars
  <1>3. CASE MonitorJob
    BY <1>3 DEF MonitorJob, MonitorLook, MonitorNothing, MonitorReaps, Account,
       AccountStopped, AccountCritical, AccountExited, AccountRestart, MonitorSafe,
       EnterSafeEnds, MonitorError, Revive, Revived, MonitorExits, superVars,
       managerVars
  <1>4. CASE MainJob \/ Shutdown
    BY <1>4 DEF MainJob, Launch, MainSafe, EnterSafeEnds, MainStops, StopAllNothing,
       StopAllBegins, StopBackground, JoinBackground, PokeKills, StopControl,
       JoinControl, Shutdown, superVars, managerVars
  <1>5. CASE UNCHANGED superVars \/ PollExits
    BY <1>5 DEF PollExits, superVars, managerVars
  <1> QED BY <1>1, <1>2, <1>3, <1>4, <1>5, CallOrder DEF Next, Terminated, vars

LEMMA FinishAdds ==
  ASSUME TypeOK, NEW t \in Threads, Finish(t), NEW p \in Procs, th[t].proc # p,
         InStartOrder(p)'
  PROVE  InStartOrder(p)
  <1> USE TypeParts
  <1>0. th[t].at = "finish"
    BY DEF Finish
  <1>1. th[t].proc \in Procs /\ startOrder \in Seq(Procs)
    <2>1. startOrder \in Seq(Procs)
      BY DEF TypeOK, ManagerOK
    <2> QED BY <1>0, <2>1, ThreadFacts DEF CallPoints
  <1>2. CASE UNCHANGED startOrder
    BY <1>2 DEF InStartOrder
  <1>3. CASE startOrder' = Append(startOrder, th[t].proc)
    <2>1. PICK k \in 1..Len(startOrder') : startOrder'[k] = p
      BY DEF InStartOrder
    <2>2. /\ Len(startOrder) \in Nat /\ Len(startOrder') = Len(startOrder) + 1
          /\ \A i \in 1..Len(startOrder) : startOrder'[i] = startOrder[i]
          /\ startOrder'[Len(startOrder) + 1] = th[t].proc
      BY <1>1, <1>3, AppendProperties, LenProperties
    <2>3. k # Len(startOrder) + 1
      BY <2>1, <2>2
    <2>4. k \in 1..Len(startOrder)
      BY <2>1, <2>2, <2>3
    <2> QED BY <2>1, <2>2, <2>4 DEF InStartOrder
  <1> QED BY <1>2, <1>3 DEF Finish

--------------------------------------------------------------------------
\* What a thread's stop_all has dealt with stays dealt with.

\* A list without its last name.
LEMMA FrontOf ==
  ASSUME NEW s \in Seq(Procs), s # <<>>
  PROVE  /\ Len(s) \in Nat /\ Len(s) > 0
         /\ Len(SubSeq(s, 1, Len(s) - 1)) = Len(s) - 1
         /\ \A i \in 1..(Len(s) - 1) : SubSeq(s, 1, Len(s) - 1)[i] = s[i]
  <1>1. Len(s) \in Nat /\ Len(s) # 0
    BY EmptySeq, LenProperties
  <1>2. \A i \in 1..Len(s) : s[i] \in Procs
    BY ElementOfSeq
  <1>3. /\ Len(s) - 1 \in Int /\ Len(s) - 1 - 1 + 1 = Len(s) - 1
        /\ \A i \in 1..(Len(s) - 1) : s[i] \in Procs
    BY <1>1, <1>2
  <1>4. \A i \in 1..(Len(s) - 1) : 1 + i - 1 = i
    BY <1>1
  <1> QED BY <1>1, <1>3, <1>4, SubSeqProperties

\* The first of the names left is the last of the list.
LEMMA LastTaken ==
  ASSUME NEW s \in Seq(Procs), s # <<>>, NEW p, NEW k \in 1..Len(s), s[k] = p
  PROVE  \/ p = s[Len(s)]
         \/ \E j \in 1..Len(SubSeq(s, 1, Len(s) - 1)) :
              SubSeq(s, 1, Len(s) - 1)[j] = p
  BY FrontOf

\* stop_all takes its next name: what is on its list is on the shorter list, or
\* is the process it turns to.
LEMMA StopRestHandles ==
  ASSUME TypeOK, NEW t \in Threads, StopRest(t, "stop_all", th[t].rest),
         NEW p \in Procs, InRest(t, p)
  PROVE  InRest(t, p)' \/ BeingStopped(t, p)'
  <1> DEFINE s == th[t].rest
  <1>1. s \in Seq(Procs)
    BY TypeParts, ThreadFacts DEF ThreadRecs
  <1>2. PICK k \in 1..Len(s) : s[k] = p
    BY DEF InRest
  <1>3. s # <<>>
    BY <1>2, EmptySeq
  <1>4. /\ th'[t].rest = SubSeq(s, 1, Len(s) - 1)
        /\ th'[t].at = "stop_one" /\ th'[t].proc = s[Len(s)]
    <2>1. ThreadsOK /\ StopRest(t, "stop_all", s)
      BY TypeParts
    <2> HIDE DEF s
    <2> QED BY <1>1, <1>3, <2>1, ThreadStopsNext DEF ThreadIs
  <1> HIDE DEF s
  <1>5. p = s[Len(s)] \/ \E j \in 1..Len(th'[t].rest) : th'[t].rest[j] = p
    <2>1. \/ p = s[Len(s)]
          \/ \E j \in 1..Len(SubSeq(s, 1, Len(s) - 1)) :
               SubSeq(s, 1, Len(s) - 1)[j] = p
      BY <1>1, <1>2, <1>3, LastTaken
    <2> QED BY <1>4, <2>1
  <1> QED BY <1>4, <1>5 DEF InRest, BeingStopped

\* A step within start_one_ or a refresh does not begin another job ...
LEMMA JobKept ==
  ASSUME TypeOK, NEW t \in Threads \ {"poll"}, StartOne(t) \/ Refresh(t)
  PROVE  th'[t].job = th[t].job
  <1>1. th[t] \in ThreadRecs /\ ThreadsOK
    BY TypeParts, ThreadFacts
  <1>2. \/ \E l : Goto(t, l) \/ Return(t, l)
        \/ StartProceeds(t) \/ (\E d \in Procs : PingAnswered(t, d))
        \/ \E p, a : Saw(t, p, a)
        \/ Refreshed(t)
    BY DEF StartOne, StartAlready, PingNotRunning, PingUnanswered, MarkStarting, Fork,
       ForkFails, LookReady, LookGone, LookAgain, WaitExpires,
       Finish, Refresh, AskDown, AskAnswered, AskUnanswered, CommitDown,
       CommitSilent, CommitStatus
  <1>3. ASSUME NEW r, th' = [th EXCEPT ![t] = r], r.job = th[t].job
        PROVE  th'[t].job = th[t].job
    BY <1>1, <1>3 DEF ThreadsOK
  <1>4. ASSUME NEW l, Goto(t, l) \/ Return(t, l) PROVE th'[t].job = th[t].job
    BY <1>1, <1>4, ThreadGoes DEF Keeps, ThreadIs
  <1>5. CASE StartProceeds(t)
    <2> DEFINE r == [th[t] EXCEPT !.at = "ping", !.todo = Deps[th[t].proc]]
    <2>1. th' = [th EXCEPT ![t] = r] /\ r.job = th[t].job
      BY <1>1, <1>5 DEF StartProceeds, ThreadRecs
    <2> HIDE DEF r
    <2> QED BY <1>3, <2>1
  <1>6. ASSUME NEW d \in Procs, PingAnswered(t, d) PROVE th'[t].job = th[t].job
    <2> DEFINE r == [th[t] EXCEPT !.todo = @ \ {d}]
    <2>1. th' = [th EXCEPT ![t] = r] /\ r.job = th[t].job
      BY <1>1, <1>6 DEF PingAnswered, ThreadRecs
    <2> HIDE DEF r
    <2> QED BY <1>3, <2>1
  <1>7. ASSUME NEW p, NEW a, Saw(t, p, a) PROVE th'[t].job = th[t].job
    <2> DEFINE r == [th[t] EXCEPT !.at = "commit", !.proc = p, !.seen = a]
    <2>1. th' = [th EXCEPT ![t] = r] /\ r.job = th[t].job
      BY <1>1, <1>7 DEF Saw, ThreadRecs
    <2> HIDE DEF r
    <2> QED BY <1>3, <2>1
  <1>8. CASE Refreshed(t)
    <2> DEFINE r == [th[t] EXCEPT !.at = "look", !.seen = "none"]
    <2>1. th' = [th EXCEPT ![t] = r] /\ r.job = th[t].job
      BY <1>1, <1>8 DEF Refreshed, ThreadRecs
    <2> HIDE DEF r
    <2> QED BY <1>3, <2>1
  <1> QED BY <1>2, <1>4, <1>5, <1>6, <1>7, <1>8

\* ... and these begin job j.
LEMMA JobBegun ==
  ASSUME ThreadsOK, NEW t \in Threads, NEW j,
         \/ Rest(t, j)
         \/ \E m, s : Sweep(t, j, m, s)
         \/ \E f, p, s : CallFor(t, j, f, p, s)
         \/ \E s : StopRest(t, j, s)
         \/ t = "control" /\ j = "start_all" /\ \E s : StartRest(s)
  PROVE  th'[t].job = j
  <1>1. ASSUME NEW r, th' = [th EXCEPT ![t] = r], r.job = j PROVE th'[t].job = j
    BY <1>1 DEF ThreadsOK
  <1>2. ASSUME NEW f, NEW p, NEW s, CallFor(t, j, f, p, s) PROVE th'[t].job = j
    <2> DEFINE r == [Resting(j) EXCEPT !.at = f, !.proc = p, !.rest = s]
    <2>1. th' = [th EXCEPT ![t] = r] /\ r.job = j
      BY <1>2 DEF CallFor, Become, Resting
    <2> HIDE DEF r
    <2> QED BY <1>1, <2>1
  <1>3. CASE Become(t, [Resting(j) EXCEPT !.at = "ok"])
    <2> DEFINE r == [Resting(j) EXCEPT !.at = "ok"]
    <2>1. th' = [th EXCEPT ![t] = r] /\ r.job = j
      BY <1>3 DEF Become, Resting
    <2> HIDE DEF r
    <2> QED BY <1>1, <2>1
  <1>4. ASSUME NEW s, StopRest(t, j, s) PROVE th'[t].job = j
    BY <1>2, <1>3, <1>4 DEF StopRest
  <1>5. ASSUME NEW s, StartRest(s), t = "control", j = "start_all" PROVE th'[t].job = j
    BY <1>2, <1>3, <1>5 DEF StartRest
  <1> QED BY <1>2, <1>4, <1>5, ThreadRests, ThreadSweeps DEF ThreadIs

StopAllJobs == {"stop_safe", "stop_all"}

\* How a thread that runs stop_all gets into it, and what it does there.
LEMMA StopAllSteps ==
  ASSUME TypeOK, Posted, [Next]_vars, NEW t \in {"control", "main"}
  PROVE  \/ th'[t] = th[t]
         \/ StopOne(t) \/ ApplyMode(t) \/ StopAll(t)
         \/ StopAllBegins(t)
         \/ th'[t].job \notin StopAllJobs
  <1> USE TypeParts
  <1>0. Threads = {"control", "monitor", "poll", "main"}
    BY DEF Threads
  <1>1. CASE UNCHANGED th
    BY <1>1
  <1>2. ASSUME NEW u \in Threads \ {t}, OnlyMoves(u) PROVE th'[t] = th[t]
    BY <1>0, <1>2 DEF OnlyMoves
  <1>3. CASE Accept \/ ControlJob
    <2>1. CASE t = "main"
      BY <1>0, <1>2, <1>3, <2>1, ControlMoves
    <2>2. ASSUME NEW j, j \notin StopAllJobs, t = "control",
                 \/ Rest("control", j)
                 \/ \E m, s : Sweep("control", j, m, s)
                 \/ \E f, p, s : CallFor("control", j, f, p, s)
                 \/ \E s : StopRest("control", j, s)
                 \/ j = "start_all" /\ \E s : StartRest(s)
          PROVE  th'[t].job \notin StopAllJobs
      BY <1>0, <2>2, JobBegun
    <2>3. CASE t = "control" /\ Accept
      <3>1. CASE CmdStop
        BY <2>2, <2>3, <3>1 DEF CmdStop, StopAllNothing, AfterStopAll, StopAllJobs
      <3>2. CASE CmdStart
        <4>1. StartRest(Order) /\ "start_all" \notin StopAllJobs
          BY <3>2 DEF CmdStart, StopAllJobs
        <4> QED BY <2>2, <2>3, <4>1
      <3>3. ASSUME NEW p \in Procs, CmdStartProc(p) \/ CmdStopProc(p) \/ CmdRestart(p)
            PROVE  th'[t].job \notin StopAllJobs
        <4>1. PICK j \in {"call", "restart"} : \E f, s : CallFor("control", j, f, p, s)
          BY <3>3 DEF CmdStartProc, CmdStopProc, CmdRestart
        <4> QED BY <2>2, <2>3, <4>1 DEF StopAllJobs
      <3>4. ASSUME NEW m \in CmdModes, CmdMode(m) PROVE th'[t].job \notin StopAllJobs
        BY <2>2, <2>3, <3>4 DEF CmdMode, StopAllJobs
      <3>5. CASE CmdStartAlready \/ \E m \in CmdModes : CmdModeRefused(m)
        BY <3>5 DEF CmdStartAlready, CmdModeRefused
      <3> QED BY <2>3, <3>1, <3>2, <3>3, <3>4, <3>5 DEF Accept
    <2>4. CASE t = "control" /\ ControlJob
      <3>1. \/ \E j \in {"idle", "undo", "call", "start_all", "start_safe"} :
                 \/ Rest("control", j)
                 \/ \E m, s : Sweep("control", j, m, s)
                 \/ \E f, p, s : CallFor("control", j, f, p, s)
                 \/ \E s : StopRest("control", j, s)
                 \/ j = "start_all" /\ \E s : StartRest(s)
        BY <2>4 DEF ControlJob, StartAllNext, StartAllDone, StartAllSafe,
           StartAllUndo, UndoNext, UndoEnds, RestartStarts, Replied, SetModeDone
      <3> QED BY <2>2, <2>4, <3>1 DEF StopAllJobs
    <2> QED BY <1>3, <2>1, <2>3, <2>4
  <1>4. CASE MonitorJob
    BY <1>0, <1>2, <1>4, MonitorMoves
  <1>5. CASE PollExits
    BY <1>0, <1>5 DEF PollExits, Rest, Become, ThreadsOK
  <1>6. ASSUME NEW u \in Threads, Call(u), u # t PROVE th'[t] = th[t]
    BY <1>2, <1>6, CallMoves
  <1>7. CASE Call(t)
    <2>1. CASE StartOne(t) \/ Refresh(t)
      <3>1. th'[t].job = th[t].job
        BY <1>0, <2>1, JobKept
      <3>2. th[t].at \in StartPoints \/ th[t].job = "idle"
        BY <2>1 DEF StartOne, StartAlready, StartProceeds, PingAnswered,
           PingNotRunning, PingUnanswered, MarkStarting, Fork, ForkFails, LookReady,
           LookGone, LookAgain, WaitExpires, Finish, Refresh,
           AskDown, AskAnswered, AskUnanswered, Asks, CommitDown, CommitSilent,
           CommitStatus, StartPoints
      <3>3. th[t].job \notin StopAllJobs
        BY <1>0, <3>2 DEF Posted, Placed, PointsOf, SweepJobs, StartPoints, StopPoints,
                          Ends, StopAllJobs
      <3> QED BY <3>1, <3>3
    <2> QED BY <1>7, <2>1 DEF Call
  <1>8. CASE MainJob \/ Shutdown
    <2>1. CASE t = "control"
      <3>1. th'["control"] \in {th["control"], Resting("exited")}
        BY <1>0, <1>8 DEF MainJob, Launch, MainSafe, MainStops, StopAllNothing,
           StopAllBegins, AfterStopAll, StopBackground, JoinBackground, PokeKills,
           StopControl, JoinControl, Shutdown, Sweep, Rest, Become, ThreadsOK
      <3> QED BY <2>1, <3>1 DEF Resting, StopAllJobs
    <2>2. CASE t = "main"
      <3>1. ASSUME NEW j, j \notin StopAllJobs,
                   Rest("main", j) \/ \E m, s : Sweep("main", j, m, s)
            PROVE  th'[t].job \notin StopAllJobs
        BY <1>0, <2>2, <3>1, JobBegun
      <3>2. CASE MainStops
        BY <2>2, <3>1, <3>2 DEF MainStops, StopAllNothing, AfterStopAll, StopAllJobs
      <3>3. CASE Shutdown \/ MainSafe \/ StopBackground \/ JoinBackground \/ StopControl
        <4>1. PICK j \in {"main_safe", "main_stop", "join_bg", "stop_control",
                          "join_control"} :
                Rest("main", j) \/ \E m, s : Sweep("main", j, m, s)
          BY <3>3 DEF Shutdown, MainSafe, StopBackground, JoinBackground, StopControl
        <4> QED BY <3>1, <4>1 DEF StopAllJobs
      <3>4. CASE Launch
        BY <1>0, <2>2, <3>4 DEF Launch, ThreadsOK, Resting, StopAllJobs
      <3>5. CASE PokeKills
        BY <1>0, <2>2, <3>5 DEF PokeKills, ThreadsOK, Resting, StopAllJobs
      <3>6. CASE JoinControl
        <4> DEFINE r == [Resting("main_safe") EXCEPT !.at = "mode", !.mode = "SAFE",
                                                     !.todo = Procs]
        <4>1. /\ th' = [th EXCEPT !["control"] = Resting("exited"), !["main"] = r]
              /\ r.job = "main_safe"
          BY <3>6 DEF JoinControl, Resting
        <4> HIDE DEF r
        <4> QED BY <1>0, <2>2, <4>1 DEF ThreadsOK, StopAllJobs
      <3> QED BY <1>8, <3>2, <3>3, <3>4, <3>5, <3>6 DEF MainJob
    <2> QED BY <2>1, <2>2
  <1> QED BY <1>1, <1>3, <1>4, <1>5, <1>6, <1>7, <1>8 DEF Next, Terminated, vars

\* The one step of the two inductions.  While thread t is in stop_all nobody may
\* put another process on record as p, or add p to the start order.
LEMMA HandledByStep ==
  ASSUME TypeOK, RecordConsistent, Posted, [Next]_vars, DeadStay,
         NEW t \in {"control", "main"}, NEW p \in Procs, HandledBy(t, p),
         th[t].job \in StopAllJobs =>
           NotReplaced(p) /\ (InStartOrder(p)' => InStartOrder(p))
  PROVE  HandledBy(t, p)'
  <1> USE TypeParts
  <1>0. t \in Threads
    BY DEF Threads
  <1>1. CASE th'[t].job \notin StopAllJobs
    BY <1>1 DEF HandledBy, StopAllJobs
  <1>2. CASE th'[t] = th[t] /\ th[t].job \in StopAllJobs
    <2>1. InRest(t, p) => InRest(t, p)'
      BY <1>2 DEF InRest
    <2> QED BY <1>0, <1>2, <2>1, StaysUnrecorded, StaysBeingStopped DEF HandledBy
  <1>3. CASE (StopOne(t) \/ ApplyMode(t)) /\ th[t].job \in StopAllJobs
    <2>1. \E l : Keeps(t, l)
      BY <1>0, <1>3, StopOneKeeps, ApplyModeKeeps
    <2>2. th'[t].job = th[t].job /\ (InRest(t, p) => InRest(t, p)')
      BY <2>1 DEF Keeps, ThreadIs, InRest
    <2>3. StopsOn(t, p)
      <3>1. CASE ApplyMode(t)
        BY <1>0, <3>1, ApplyModeKeeps DEF StopsOn, BeingStopped
      <3> QED BY <1>0, <1>3, <3>1, StopOneKeeps
    <2> QED BY <1>3, <2>2, <2>3, StaysUnrecorded DEF HandledBy, StopsOn
  <1>4. CASE StopAllSafe(t) \/ StopAllNext(t)
    <2>1. /\ StopRest(t, "stop_all", th[t].rest)
          /\ th[t].job \in StopAllJobs
          /\ th[t].job = "stop_all" => Ended(t)
      BY <1>4 DEF StopAllSafe, StopAllNext, StopAllJobs
    <2>2. th'[t].job = "stop_all"
      BY <1>0, <2>1, JobBegun
    <2>3. InRest(t, p) \/ ~RecordedLive(p) \/ ~InStartOrder(p)
      BY <2>1 DEF HandledBy, BeingStopped, Ended, StopAllJobs
    <2>4. CASE InRest(t, p)
      BY <1>0, <2>1, <2>2, <2>4, StopRestHandles DEF HandledBy
    <2>5. CASE ~RecordedLive(p)
      BY <2>1, <2>2, <2>5, StaysUnrecorded DEF HandledBy
    <2>6. CASE ~InStartOrder(p)
      BY <2>1, <2>6 DEF HandledBy
    <2> QED BY <2>3, <2>4, <2>5, <2>6
  <1>5. CASE StopAllEnds(t)
    <2>1. PICK j \in {"idle", "stop_bg", "exited"} : ThreadIs(t, j, "none", <<>>)
      BY <1>0, <1>5, ThreadAfterStopAll DEF StopAllEnds
    <2> QED BY <2>1 DEF ThreadIs, HandledBy
  <1>6. CASE StopAllBegins(t)
    <2>1. ThreadIs(t, "stop_safe", "mode", startOrder) /\ UNCHANGED startOrder
      BY <1>0, <1>6, ThreadSweeps DEF StopAllBegins
    <2> QED BY <2>1 DEF HandledBy, ThreadIs, InRest, InStartOrder
  <1>7. CASE th[t].job \notin StopAllJobs /\ (StopOne(t) \/ ApplyMode(t))
    <2>1. \E l : Keeps(t, l)
      BY <1>0, <1>7, StopOneKeeps, ApplyModeKeeps
    <2> QED BY <1>1, <1>7, <2>1 DEF Keeps, ThreadIs
  <1> QED BY <1>1, <1>2, <1>3, <1>4, <1>5, <1>6, <1>7, StopAllSteps DEF StopAll

\* Nothing brings a dead child back to life.
LEMMA StepStay ==
  ASSUME TypeOK, [Next]_vars
  PROVE  DeadStay
  <1> USE TypeParts
  <1>1. ASSUME NEW t \in Threads, Call(t) PROVE DeadStay
    <2>1. CASE StartOne(t)
      <3>1. CASE Fork(t)
        <4>1. th[t].proc \in Procs
          BY <3>1, ThreadFacts DEF Fork, CallPoints
        <4> QED BY <3>1, <4>1, SpawnStay DEF Fork
      <3>2. ASSUME NEW d \in Procs, PingUnanswered(t, d) PROVE DeadStay
        BY <3>2, UnansweredStay DEF PingUnanswered
      <3>3. CASE UNCHANGED child
        BY <3>3, DeadSame
      <3> QED BY <2>1, <3>1, <3>2, <3>3 DEF StartOne, StartAlready, StartProceeds,
         PingAnswered, PingNotRunning, MarkStarting, ForkFails, LookReady, LookGone,
         LookAgain, WaitExpires, Finish, childVars
    <2>2. CASE Refresh(t)
      <3>1. ASSUME NEW p \in Procs, AskUnanswered(t, p) PROVE DeadStay
        BY <3>1, UnansweredStay DEF AskUnanswered
      <3>2. CASE UNCHANGED child
        BY <3>2, DeadSame
      <3> QED BY <2>2, <3>1, <3>2 DEF Refresh, AskDown, AskAnswered, CommitDown,
         CommitSilent, CommitStatus, childVars
    <2>3. CASE StopOne(t)
      <3>1. CASE StopSignal(t)
        <4>1. th[t].proc \in Procs
          BY <3>1, ThreadFacts DEF StopSignal, CallPoints
        <4>2. runtime[th[t].proc].pid \in 1..Len(child)
          BY <3>1, <4>1, ChildFacts DEF StopSignal
        <4> QED BY <3>1, <4>2, TermStay DEF StopSignal
      <3>2. CASE StopEscalate(t)
        <4>1. th[t].pid \in 1..Len(child)
          BY <3>2, ThreadFacts, ChildFacts DEF StopEscalate, Fits
        <4> QED BY <3>2, <4>1, KillStay DEF StopEscalate
      <3>3. CASE UNCHANGED child
        BY <3>3, DeadSame
      <3> QED BY <2>3, <3>1, <3>2, <3>3 DEF StopOne, StopNothing, StopDone,
         StopTimeout, childVars
    <2>4. CASE ApplyMode(t)
      BY <2>4, ApplyModeKeeps
    <2>5. CASE StopAll(t)
      BY <2>5, DeadSame DEF StopAll, StopAllSafe, StopAllNext, StopAllEnds,
         EnterSafeEnds, childVars
    <2> QED BY <1>1, <2>1, <2>2, <2>3, <2>4, <2>5 DEF Call
  <1>2. CASE MonitorJob
    <2>1. CASE MonitorReaps
      <3>1. th["monitor"].pid \in 1..Len(child)
        BY <2>1, ThreadFacts, ChildFacts DEF MonitorReaps, Fits, Threads
      <3> QED BY <2>1, <3>1, ReapStay DEF MonitorReaps
    <2>2. CASE UNCHANGED child
      BY <2>2, DeadSame
    <2> QED BY <1>2, <2>1, <2>2 DEF MonitorJob, MonitorLook, MonitorNothing, Account,
         AccountStopped, AccountCritical, AccountExited, AccountRestart, MonitorSafe,
         EnterSafeEnds, MonitorError, Revive, Revived, MonitorExits, childVars
  <1>3. CASE Accept \/ ControlJob \/ MainJob \/ Shutdown \/ PollExits
    <2>1. Accept => UNCHANGED child
      BY DEF Accept, CmdStartAlready, CmdStart, CmdStop, CmdStartProc,
         CmdStopProc, CmdRestart, CmdModeRefused, CmdMode, StopAllNothing,
         StopAllBegins, childVars
    <2>2. ControlJob => UNCHANGED child
      BY DEF ControlJob, StartAllNext, StartAllDone, StartAllSafe, StartAllUndo,
         UndoNext, UndoEnds, RestartStarts, Replied, SetModeDone, childVars
    <2>3. MainJob \/ Shutdown => UNCHANGED child
      BY DEF MainJob, Launch, MainSafe, EnterSafeEnds, MainStops,
         StopAllNothing, StopAllBegins, StopBackground, JoinBackground, PokeKills,
         StopControl, JoinControl, Shutdown, childVars
    <2>4. UNCHANGED child
      BY <1>3, <2>1, <2>2, <2>3 DEF PollExits, childVars
    <2> QED BY <2>4, DeadSame
  <1>4. CASE UNCHANGED child
    BY <1>4, DeadSame
  <1>5. ASSUME NEW i \in 1..Len(child), ChildStep(i) PROVE DeadStay
    BY <1>5, ChildStepStay
  <1> QED BY <1>1, <1>2, <1>3, <1>4, <1>5 DEF Next, Terminated, vars, childVars

\* While the program is being destroyed only the main thread moves.
LEMMA HandledStep ==
  ASSUME TypeOK, RecordConsistent, Posted, Alone, Handled, [Next]_vars
  PROVE  Handled'
  <1> USE TypeParts
  <1>1. CASE th["main"].job \notin StopAllJobs
    <2>1. \A p \in Procs : HandledBy("main", p)
      BY <1>1 DEF HandledBy, StopAllJobs
    <2> QED BY <1>1, <2>1, StepStay, HandledByStep DEF Handled
  <1>2. CASE th["main"].job \in StopAllJobs /\ ~Destroying
    <2>1. ~(MainJob \/ Shutdown)
      BY <1>2 DEF StopAllJobs, MainJob, Launch, MainSafe, MainStops, StopBackground,
         JoinBackground, PokeKills, StopControl, JoinControl, Shutdown
    <2>2. UNCHANGED bgRunning
      BY <2>1, StepMoves DEF MainMoves, OtherMoves, ChildMoves
    <2> QED BY <1>2, <2>2 DEF Destroying, StopAllJobs, Handled
  <1>3. CASE th["main"].job \in StopAllJobs /\ Destroying
    <2>1. ASSUME NEW t \in Threads, th[t].at \in StartPoints \ {"commit"} PROVE FALSE
      <3>1. t # "main" /\ th[t].job # "exited"
        BY <2>1, ForkedBy, ThreadFacts DEF Fits, RestingJobs, StartPoints
      <3> QED BY <1>3, <2>1, <3>1 DEF Alone, Others
    <2>2. \A p \in Procs : NotReplaced(p)
      BY <2>1, PidSteps DEF NotReplaced, Fork, StartPoints
    <2>3. ~StartAllDone
      BY <1>3 DEF StartAllDone, Alone, Others, Threads
    <2>4. UNCHANGED startOrder
      BY <2>1, <2>3, OrderSteps DEF Finish, StartPoints
    <2>5. \A p \in Procs : InStartOrder(p)' => InStartOrder(p)
      BY <2>4 DEF InStartOrder
    <2>6. \A p \in Procs : HandledBy("main", p)
      BY <1>3 DEF Handled
    <2> QED BY <2>2, <2>5, <2>6, StepStay, HandledByStep DEF Handled
  <1> QED BY <1>1, <1>2, <1>3

\* While the control thread is in stop_all the monitor alone starts processes, and
\* p is none of those.
LEMMA HandledForGoodStep ==
  ASSUME TypeOK, RecordConsistent, Posted, HandledForGood, [Next]_vars
  PROVE  HandledForGood'
  <1> USE TypeParts
  <1>1. ASSUME NEW p \in Procs, ~MayRestart(p) PROVE HandledBy("control", p)'
    <2>1. CASE th["control"].job \notin StopAllJobs
      <3>1. HandledBy("control", p)
        BY <2>1 DEF HandledBy, StopAllJobs
      <3> QED BY <2>1, <3>1, StepStay, HandledByStep
    <2>2. CASE th["control"].job \in StopAllJobs
      <3>1. ASSUME NEW t \in Threads, th[t].at \in StartPoints \ {"commit"}
            PROVE  th[t].proc # p
        BY <1>1, <2>2, <3>1, ForkedBy DEF StopAllJobs
      <3>2. NotReplaced(p)
        BY <3>1, PidSteps DEF NotReplaced, Fork, StartPoints
      <3>3. ~StartAllDone
        BY <2>2 DEF StartAllDone, StopAllJobs
      <3>4. InStartOrder(p)' => InStartOrder(p)
        <4>1. CASE UNCHANGED startOrder
          BY <4>1 DEF InStartOrder
        <4>2. ASSUME NEW t \in Threads, Finish(t)
              PROVE  InStartOrder(p)' => InStartOrder(p)
          <5>1. th[t].proc # p
            BY <3>1, <4>2 DEF Finish, StartPoints
          <5> QED BY <4>2, <5>1, FinishAdds
        <4> QED BY <3>3, <4>1, <4>2, OrderSteps
      <3>5. HandledBy("control", p)
        BY <1>1 DEF HandledForGood
      <3> QED BY <3>2, <3>4, <3>5, StepStay, HandledByStep
    <2> QED BY <2>1, <2>2
  <1> QED BY <1>1 DEF HandledForGood, MayRestart

\* At the end of a stop_all what it has dealt with is dead.
LEMMA StoppedAtEnd ==
  ASSUME NEW t \in Threads, NEW p \in Procs, HandledBy(t, p), StopAllEnds(t),
         InStartOrder(p)
  PROVE  ~RecordedLive(p)
  <1>1. /\ th[t].job = "stop_all" /\ Ended(t)
        /\ th[t].rest = <<>>
    BY DEF StopAllEnds
  <1>2. ~InRest(t, p) /\ ~BeingStopped(t, p)
    BY <1>1, EmptySeq DEF InRest, BeingStopped, Ended
  <1> QED BY <1>1, <1>2 DEF HandledBy

--------------------------------------------------------------------------
\* When the last stop_all comes to its end every process that was started is
\* dead, or has no pid on record, whatever was running, hanging or being started
\* when the signal came: the SIGKILL of stop_one_ goes to the pid that is on
\* record, because nobody else is left to replace it.
THEOREM LastStopComplete == Spec => ExitComplete
  <1>1. Init => Alone /\ Handled
    <2>1. Init => th["main"].at = "none" /\ th["main"].job = "launch"
      BY DEF Init, Resting
    <2> QED BY <2>1 DEF Alone, Handled, Destroying
  <1>2. TypeOK /\ RecordConsistent /\ Posted /\ Alone /\ Handled /\ [Next]_vars
          => Alone' /\ Handled'
    BY AloneStep, HandledStep
  <1>3. ASSUME Handled, StopAllEnds("main"), ~bgRunning,
               NEW p \in Procs, InStartOrder(p)
        PROVE  ~RecordedLive(p)
    BY <1>3, StoppedAtEnd DEF Handled, Destroying, StopAllEnds, Threads
  <1>4. Handled =>
          [StopAllEnds("main") /\ ~bgRunning =>
             \A p \in Procs : InStartOrder(p) => ~RecordedLive(p)]_vars
    BY <1>3
  <1> QED BY <1>1, <1>2, <1>4, TypeCorrect, RecordsConsistent, ThreadsPosted, PTL
          DEF Spec, ExitComplete

\* When a stop_all of the control thread comes to its end every process that was
\* started and is not restarted automatically is dead, whatever the monitor
\* revives meanwhile and although the main thread may be stopping everything at
\* the same time.
THEOREM StopCompletePerProcess == Spec => StopCompleteEach
  <1>1. Init => HandledForGood
    BY DEF Init, HandledForGood, HandledBy, Resting
  <1>2. TypeOK /\ RecordConsistent /\ Posted /\ HandledForGood /\ [Next]_vars
          => HandledForGood'
    BY HandledForGoodStep
  <1>3. ASSUME HandledForGood, StopAllEnds("control"), NEW p \in Procs,
               InStartOrder(p), ~MayRestart(p)
        PROVE  ~RecordedLive(p)
    BY <1>3, StoppedAtEnd DEF HandledForGood, Threads
  <1>4. HandledForGood =>
          [StopAllEnds("control") =>
             \A p \in Procs : InStartOrder(p) /\ ~MayRestart(p)
                               => ~RecordedLive(p)]_vars
    BY <1>3
  <1> QED BY <1>1, <1>2, <1>4, TypeCorrect, RecordsConsistent, ThreadsPosted, PTL
          DEF Spec, StopCompleteEach

\* Where no process is restarted automatically, stop_all leaves none alive.
THEOREM StopCompleteWithoutRestarts ==
  ASSUME \A p \in Procs : ~MayRestart(p)
  PROVE  Spec => StopComplete
  <1>1. [StopAllEnds("control") =>
           \A p \in Procs : InStartOrder(p) /\ ~MayRestart(p) => ~RecordedLive(p)]_vars
        => [StopAllEnds("control") =>
              \A p \in Procs : InStartOrder(p) => ~RecordedLive(p)]_vars
    OBVIOUS
  <1> QED BY <1>1, StopCompletePerProcess, PTL DEF StopCompleteEach, StopComplete
--------------------------------------------------------------------------
\* The order in which stop_all stops.

\* Operators start all processes at once, and nothing is restarted by itself.
OnlyStartAll ==
  /\ \A p \in Procs : ~MayRestart(p)
  /\ Ops \cap {"start_proc", "restart"} = {}

\* start_order_ and its copies are the first names of Order ...
Prefixed(s) == Len(s) <= Len(Order) /\ \A k \in 1..Len(s) : s[k] = Order[k]

\* ... they have all that is up, but for the process start_all has come to ...
Forking == {"fork", "ask", "commit", "look", "finish"}

Underway(p) ==
  /\ th["control"].job = "start_all" /\ th["control"].proc = p
  /\ th["control"].at \in Forking

UpListed ==
  \A p \in Procs : runtime[p].state \in UpStates => InStartOrder(p) \/ Underway(p)

\* ... and start_all, which has names r left, has gone through Order up to there.
LeftToStart(r) ==
  /\ Len(r) <= Len(Order) /\ Len(Order) - Len(r) <= Len(startOrder)
  /\ \A k \in 1..Len(r) : r[k] = Order[Len(Order) - Len(r) + k]

StartsInOrder ==
  LET c == th["control"] IN
  /\ c.job = "start_all" =>
       /\ LeftToStart(c.rest)
       /\ c.at # "ok" => c.rest # <<>> /\ c.proc = Head(c.rest)
       /\ c.at = "ok" /\ c.rest # <<>> =>
            Len(Order) - Len(c.rest) < Len(startOrder)
  /\ c.job = "call" => c.at \in StopPoints \cup Ends
  /\ c.job # "restart"

\* stop_all goes back through the names before the one it is at.
StopsInOrder(t) ==
  th[t].job \in StopAllJobs =>
    /\ Prefixed(th[t].rest)
    /\ th[t].at = "stop_one" =>
         /\ Len(th[t].rest) < Len(Order)
         /\ th[t].proc = Order[Len(th[t].rest) + 1]

InOrder ==
  /\ Prefixed(startOrder) /\ UpListed /\ StartsInOrder
  /\ StopsInOrder("control") /\ StopsInOrder("main")

LEMMA OrderFacts ==
  /\ Order \in Seq(Procs) /\ Len(Order) \in Nat
  /\ \A k \in 1..Len(Order) : Order[k] \in Procs
  /\ \A p \in Procs : \E k \in 1..Len(Order) : Order[k] = p
  /\ \A j, k \in 1..Len(Order) :
       /\ Order[j] = Order[k] => j = k
       /\ Order[j] \in Deps[Order[k]] => j < k
  BY OrderAssumption, LenProperties, ElementOfSeq

\* A name that is on a list of the first names has all names before it there.
LEMMA ListedUpTo ==
  ASSUME NEW s \in Seq(Procs), Prefixed(s), NEW n \in Nat, n < Len(Order),
         NEW k \in 1..Len(s), s[k] = Order[n + 1]
  PROVE  n < Len(s)
  <1>1. Len(s) \in Nat /\ Len(Order) \in Nat
    BY LenProperties, OrderFacts
  <1>2. k \in 1..Len(Order) /\ n + 1 \in 1..Len(Order) /\ Order[k] = Order[n + 1]
    BY <1>1 DEF Prefixed
  <1>3. k = n + 1
    BY <1>2, OrderFacts
  <1> QED BY <1>1, <1>3

LEMMA FinishLists ==
  ASSUME TypeOK, NEW t \in Threads, Finish(t)
  PROVE  /\ th[t].proc \in Procs
         /\ \/ startOrder' = startOrder /\ InStartOrder(th[t].proc)
            \/ /\ startOrder' = Append(startOrder, th[t].proc)
               /\ ~InStartOrder(th[t].proc)
         /\ \A p \in Procs : InStartOrder(p) => InStartOrder(p)'
         /\ \E k \in 1..Len(startOrder') : startOrder'[k] = th[t].proc
  <1>1. th[t].proc \in Procs /\ startOrder \in Seq(Procs)
    <2>1. startOrder \in Seq(Procs) /\ th[t].at = "finish"
      BY DEF TypeOK, ManagerOK, Finish
    <2> QED BY <2>1, TypeParts, ThreadFacts DEF CallPoints
  <1>2. CASE startOrder' = startOrder /\ InStartOrder(th[t].proc)
    BY <1>1, <1>2 DEF InStartOrder
  <1>3. CASE startOrder' = Append(startOrder, th[t].proc) /\ ~InStartOrder(th[t].proc)
    <2>1. /\ Len(startOrder) \in Nat /\ Len(startOrder') = Len(startOrder) + 1
          /\ \A i \in 1..Len(startOrder) : startOrder'[i] = startOrder[i]
          /\ startOrder'[Len(startOrder) + 1] = th[t].proc
      BY <1>1, <1>3, AppendProperties, LenProperties
    <2>2. \A i \in 1..Len(startOrder) : i \in 1..Len(startOrder')
      BY <2>1
    <2>3. Len(startOrder) + 1 \in 1..Len(startOrder')
      BY <2>1
    <2> QED BY <1>1, <1>3, <2>1, <2>2, <2>3 DEF InStartOrder
  <1> QED BY <1>2, <1>3 DEF Finish, InStartOrder

\* Only start_all adds to the start order, each time the next name of Order.
LEMMA OrderGrows ==
  ASSUME OnlyStartAll, TypeOK, Posted, Prefixed(startOrder), StartsInOrder,
         [Next]_vars
  PROVE  /\ Prefixed(startOrder) => Prefixed(startOrder')
         /\ Len(startOrder) <= Len(startOrder')
         /\ \A p \in Procs : InStartOrder(p) => InStartOrder(p)'
         /\ \A t \in Threads : Finish(t) =>
              /\ t = "control" /\ th[t].job = "start_all"
              /\ Len(Order) - Len(th[t].rest) < Len(startOrder')
  <1> USE TypeParts
  <1>0. startOrder \in Seq(Procs) /\ Len(startOrder) \in Nat
    BY LenProperties DEF TypeOK, ManagerOK
  <1>1. CASE UNCHANGED startOrder /\ ~\E t \in Threads : Finish(t)
    BY <1>0, <1>1 DEF InStartOrder
  <1>2. CASE StartAllDone /\ ~\E t \in Threads : Finish(t)
    <2>1. startOrder' = Order
      BY <1>2 DEF StartAllDone
    <2>2. Prefixed(startOrder') /\ \A p \in Procs : InStartOrder(p)'
      BY <2>1, OrderFacts DEF Prefixed, InStartOrder
    <2> QED BY <1>0, <1>2, <2>1, <2>2, OrderFacts DEF Prefixed
  <1>3. ASSUME NEW t \in Threads, Finish(t)
        PROVE  /\ Prefixed(startOrder') /\ Len(startOrder) <= Len(startOrder')
               /\ \A p \in Procs : InStartOrder(p) => InStartOrder(p)'
               /\ t = "control" /\ th[t].job = "start_all"
               /\ Len(Order) - Len(th[t].rest) < Len(startOrder')
    <2> DEFINE r == th[t].rest
    <2> DEFINE q == th[t].proc
    <2> DEFINE n == Len(Order) - Len(r)
    <2>1. th[t].at = "finish" /\ q \in Procs
      BY <1>3, FinishLists DEF Finish
    <2>2. t = "control" /\ th[t].job = "start_all"
      BY <2>1, ForkedBy DEF OnlyStartAll, StartsInOrder, StartPoints, StopPoints, Ends
    <2>3. r \in Seq(Procs) /\ LeftToStart(r) /\ r # <<>> /\ q = Head(r)
      BY <2>1, <2>2, ThreadFacts DEF StartsInOrder, ThreadRecs
    <2> HIDE DEF r, q
    <2>4. /\ Len(r) \in Nat /\ Len(r) > 0 /\ q = r[1]
      BY <2>3, FrontOf, HeadTailProperties
    <2>5. n \in Nat /\ n < Len(Order) /\ n <= Len(startOrder) /\ q = Order[n + 1]
      <3>1. Len(r) <= Len(Order) /\ n <= Len(startOrder) /\ r[1] = Order[n + 1]
        BY <2>3, <2>4 DEF LeftToStart
      <3> QED BY <2>4, <3>1, OrderFacts
    <2> HIDE DEF n
    <2>6. CASE startOrder' = startOrder /\ InStartOrder(q)
      <3>1. n < Len(startOrder)
        BY <1>0, <2>5, <2>6, ListedUpTo DEF InStartOrder
      <3> QED BY <1>0, <2>2, <2>6, <3>1 DEF InStartOrder, n, r
    <2>7. CASE startOrder' = Append(startOrder, q) /\ ~InStartOrder(q)
      <3>1. ~(n < Len(startOrder))
        <4>1. n < Len(startOrder) => n + 1 \in 1..Len(startOrder)
          BY <1>0, <2>5
        <4> QED BY <2>5, <2>7, <4>1 DEF InStartOrder, Prefixed
      <3>2. Len(startOrder) = n
        BY <1>0, <2>5, <3>1
      <3>3. /\ Len(startOrder') = n + 1
            /\ \A i \in 1..n : startOrder'[i] = startOrder[i]
            /\ startOrder'[n + 1] = q
        BY <1>0, <2>1, <2>7, <3>2, AppendProperties DEF q
      <3>4. ASSUME NEW k \in 1..(n + 1) PROVE startOrder'[k] = Order[k]
        BY <2>5, <3>2, <3>3, <3>4 DEF Prefixed
      <3>5. Prefixed(startOrder')
        BY <2>5, <3>3, <3>4, OrderFacts DEF Prefixed
      <3>6. \A p \in Procs : InStartOrder(p) => InStartOrder(p)'
        BY <1>3, FinishLists
      <3>7. n < Len(startOrder') /\ Len(startOrder) <= Len(startOrder')
        BY <2>5, <3>2, <3>3
      <3> QED BY <2>2, <3>5, <3>6, <3>7 DEF n, r
    <2> QED BY <1>3, <2>6, <2>7, FinishLists DEF q
  <1> QED BY <1>1, <1>2, <1>3, OrderSteps

\* Within start_one_ the control thread keeps its job, its process and the names
\* it has left.
LEMMA ThreadStays ==
  ASSUME ThreadsOK, NEW t \in Threads, NEW r, th' = [th EXCEPT ![t] = r],
         r.job = th[t].job, r.proc = th[t].proc, r.rest = th[t].rest
  PROVE  Keeps(t, r.at)
  BY DEF ThreadsOK, Keeps, ThreadIs

LEMMA StartGoes ==
  ASSUME TypeOK, NEW t \in Threads \ {"poll"}, StartOne(t) \/ Refresh(t)
  PROVE  /\ th[t].at \in StartPoints
         /\ \E l \in (StartPoints \cup Ends) \ {"start_one"} :
              /\ Keeps(t, l)
              /\ l = "ok" => StartAlready(t) \/ Finish(t)
              /\ th[t].at \in Forking =>
                   l \in Forking \/ Finish(t) \/ runtime'[th[t].proc].state \notin UpStates
              /\ MarkStarting(t) \/ Fork(t) => l \in Forking
  <1> USE TypeParts
  <1>1. CASE StartAlready(t)
    <2>1. Keeps(t, "ok") /\ th[t].at = "start_one"
      BY <1>1, ThreadGoes DEF StartAlready
    <2> QED BY <1>1, <2>1 DEF StartPoints, Ends, Forking, MarkStarting, Fork
  <1>2. CASE StartProceeds(t)
    <2> DEFINE r == [th[t] EXCEPT !.at = "ping", !.todo = Deps[th[t].proc]]
    <2>1. /\ th' = [th EXCEPT ![t] = r] /\ th[t].at = "start_one"
          /\ r.job = th[t].job /\ r.proc = th[t].proc /\ r.rest = th[t].rest
          /\ r.at = "ping"
      BY <1>2, ThreadFacts DEF StartProceeds, ThreadRecs
    <2> HIDE DEF r
    <2>2. Keeps(t, "ping")
      BY <2>1, ThreadStays
    <2> QED BY <2>1, <2>2 DEF StartPoints, Ends, Forking, MarkStarting, Fork
  <1>3. ASSUME NEW d \in Procs, PingAnswered(t, d)
        PROVE  Keeps(t, "ping") /\ th[t].at = "ping" /\ th[t].todo # {}
    <2> DEFINE r == [th[t] EXCEPT !.todo = @ \ {d}]
    <2>1. /\ th' = [th EXCEPT ![t] = r] /\ th[t].at = "ping" /\ d \in th[t].todo
          /\ r.job = th[t].job /\ r.proc = th[t].proc /\ r.rest = th[t].rest
          /\ r.at = "ping"
      BY <1>3, ThreadFacts DEF PingAnswered, ThreadRecs
    <2> HIDE DEF r
    <2> QED BY <2>1, ThreadStays
  <1>4. ASSUME NEW d \in Procs, PingNotRunning(t, d) \/ PingUnanswered(t, d)
        PROVE  Keeps(t, "thrown") /\ th[t].at = "ping" /\ th[t].todo # {}
    BY <1>4, ThreadGoes DEF PingNotRunning, PingUnanswered
  <1>5. CASE MarkStarting(t)
    <2>1. Keeps(t, "fork") /\ th[t].at = "ping"
      BY <1>5, ThreadGoes DEF MarkStarting
    <2> QED BY <2>1 DEF StartPoints, Ends, Forking
  <1>6. CASE Fork(t) \/ LookAgain(t) \/ LookReady(t)
    <2>1. \E l \in {"ask", "finish"} : Keeps(t, l)
      BY <1>6, ThreadGoes DEF Fork, LookAgain, LookReady
    <2>2. th[t].at \in {"fork", "look"}
      BY <1>6 DEF Fork, LookAgain, LookReady
    <2> QED BY <2>1, <2>2 DEF StartPoints, Ends, Forking
  <1>7. CASE ForkFails(t) \/ WaitExpires(t)
    <2>1. /\ Keeps(t, "thrown") /\ th[t].at \in {"fork", "ask"}
          /\ SetState(th[t].proc, "Failed")
      BY <1>7, ThreadGoes DEF ForkFails, WaitExpires
    <2>2. th[t].proc \in Procs
      BY <2>1, ThreadFacts DEF CallPoints
    <2>3. runtime'[th[t].proc].state = "Failed"
      BY <2>1, <2>2 DEF SetState, RuntimeOK, Runtimes
    <2>4. ~(MarkStarting(t) \/ Fork(t))
      <3>1. th'[t].at = "thrown"
        BY <2>1 DEF Keeps, ThreadIs
      <3>2. ~MarkStarting(t)
        BY <2>1 DEF MarkStarting
      <3>3. Fork(t) => th'[t].at = "ask"
        BY ThreadGoes DEF Fork, Keeps, ThreadIs
      <3> QED BY <3>1, <3>2, <3>3
    <2> QED BY <2>1, <2>3, <2>4 DEF StartPoints, Ends, Forking, UpStates
  <1>8. CASE LookGone(t)
    <2>1. /\ Keeps(t, "thrown") /\ th[t].at = "look"
          /\ runtime'[th[t].proc].state \in {"Exited", "Failed"}
      BY <1>8, ThreadGoes DEF LookGone, superVars
    <2> QED BY <2>1 DEF StartPoints, Ends, Forking, UpStates, MarkStarting, Fork
  <1>9. CASE Finish(t)
    <2>1. Keeps(t, "ok") /\ th[t].at = "finish"
      BY <1>9, ThreadGoes DEF Finish
    <2> QED BY <1>9, <2>1 DEF StartPoints, Ends, MarkStarting, Fork
  <1>10. ASSUME NEW p \in Procs, AskDown(t, p) \/ AskAnswered(t, p) \/ AskUnanswered(t, p)
         PROVE  Keeps(t, "commit") /\ th[t].at = "ask"
    <2>1. PICK a : Asks(t, p) /\ Saw(t, p, a)
      BY <1>10 DEF AskDown, AskAnswered, AskUnanswered
    <2> DEFINE r == [th[t] EXCEPT !.at = "commit", !.proc = p, !.seen = a]
    <2>2. /\ th' = [th EXCEPT ![t] = r] /\ th[t].at = "ask"
          /\ r.job = th[t].job /\ r.proc = th[t].proc /\ r.rest = th[t].rest
          /\ r.at = "commit"
      BY <2>1, ThreadFacts DEF Asks, Saw, ThreadRecs
    <2> HIDE DEF r
    <2> QED BY <2>2, ThreadStays
  <1>11. CASE CommitDown(t) \/ CommitSilent(t) \/ CommitStatus(t)
    <2>1. th[t].at = "commit" /\ Refreshed(t)
      BY <1>11 DEF CommitDown, CommitSilent, CommitStatus
    <2> DEFINE r == [th[t] EXCEPT !.at = "look", !.seen = "none"]
    <2>2. /\ th' = [th EXCEPT ![t] = r]
          /\ r.job = th[t].job /\ r.proc = th[t].proc /\ r.rest = th[t].rest
          /\ r.at = "look"
      BY <2>1, ThreadFacts DEF Refreshed, ThreadRecs
    <2> HIDE DEF r
    <2>3. Keeps(t, "look")
      BY <2>2, ThreadStays
    <2> QED BY <2>1, <2>3 DEF StartPoints, Ends, Forking, MarkStarting, Fork
  <1>12. ASSUME NEW d \in Procs,
                PingAnswered(t, d) \/ PingNotRunning(t, d) \/ PingUnanswered(t, d)
         PROVE  /\ Keeps(t, "ping") \/ Keeps(t, "thrown")
                /\ th[t].at = "ping" /\ ~(MarkStarting(t) \/ Fork(t))
    BY <1>3, <1>4, <1>12 DEF MarkStarting, Fork
  <1>13. ASSUME NEW p \in Procs, AskDown(t, p) \/ AskAnswered(t, p) \/ AskUnanswered(t, p)
         PROVE  Keeps(t, "commit") /\ th[t].at = "ask" /\ ~(MarkStarting(t) \/ Fork(t))
    BY <1>10, <1>13 DEF MarkStarting, Fork
  <1>14. CASE \E d \in Procs :
                PingAnswered(t, d) \/ PingNotRunning(t, d) \/ PingUnanswered(t, d)
    BY <1>12, <1>14 DEF StartPoints, Ends, Forking
  <1>15. CASE Refresh(t)
    BY <1>11, <1>13, <1>15 DEF Refresh, StartPoints, Ends, Forking
  <1> QED BY <1>1, <1>2, <1>5, <1>6, <1>7, <1>8, <1>9, <1>14, <1>15 DEF StartOne

LEMMA StartRestGoes ==
  ASSUME ThreadsOK, NEW s \in Seq(Procs), StartRest(s)
  PROVE  LET c == th'["control"] IN
         /\ c.job = "start_all" /\ c.rest = s
         /\ c.at \in {"ok", "start_one"}
         /\ s # <<>> => c.at = "start_one" /\ c.proc = Head(s)
         /\ s = <<>> => c.at = "ok"
  <1>0. "control" \in Threads
    BY DEF Threads
  <1>1. ASSUME NEW r, th' = [th EXCEPT !["control"] = r] PROVE th'["control"] = r
    BY <1>0, <1>1 DEF ThreadsOK
  <1>2. CASE s = <<>>
    <2> DEFINE r == [Resting("start_all") EXCEPT !.at = "ok"]
    <2>1. /\ th' = [th EXCEPT !["control"] = r]
          /\ r.job = "start_all" /\ r.rest = s /\ r.at = "ok"
      BY <1>2 DEF StartRest, Become, Resting
    <2> HIDE DEF r
    <2> QED BY <1>1, <1>2, <2>1
  <1>3. CASE s # <<>>
    <2> DEFINE r == [Resting("start_all") EXCEPT !.at = "start_one", !.proc = Head(s),
                                                 !.rest = s]
    <2>1. /\ th' = [th EXCEPT !["control"] = r]
          /\ r.job = "start_all" /\ r.rest = s /\ r.at = "start_one"
          /\ r.proc = Head(s)
      BY <1>3 DEF StartRest, CallFor, Become, Resting
    <2> HIDE DEF r
    <2> QED BY <1>1, <1>3, <2>1
  <1> QED BY <1>2, <1>3

\* The jobs of the control thread that StartsInOrder speaks of, and the points
\* between two calls.
StartJobs == {"start_all", "call", "restart"}
Between == {"none"} \cup Ends

\* What the control thread does where operators only start all.
LEMMA ControlSteps ==
  ASSUME OnlyStartAll, TypeOK, Posted, StartsInOrder, [Next]_vars
  PROVE  LET c == th["control"] IN
         \/ th'["control"] = c
         \/ StartOne("control") \/ Refresh("control")
         \/ StopOne("control") \/ ApplyMode("control")
         \/ /\ c.at \in Between
            /\ \/ CmdStart \/ StartAllNext
               \/ th'["control"].job = "call" /\ th'["control"].at = "stop_one"
               \/ th'["control"].job \notin StartJobs
  <1> USE TypeParts
  <1>0. "control" \in Threads
    BY DEF Threads
  <1>1. CASE UNCHANGED th
    BY <1>1
  <1>2. ASSUME NEW u \in Threads \ {"control"}, OnlyMoves(u)
        PROVE  th'["control"] = th["control"]
    BY <1>0, <1>2 DEF OnlyMoves
  <1> DEFINE Begins(j) == \/ Rest("control", j)
                          \/ \E m, s : Sweep("control", j, m, s)
                          \/ \E s : StopRest("control", j, s)
  <1>3. ASSUME NEW j \in {"idle", "start_safe", "set_mode", "undo", "stop_safe",
                         "stop_all"}, Begins(j)
        PROVE  th'["control"].job \notin StartJobs
    <2>1. th'["control"].job = j
      BY <1>0, <1>3, JobBegun
    <2> QED BY <2>1 DEF StartJobs
  <1> HIDE DEF Begins
  <1>4. ASSUME Accept, th'["control"] # th["control"]
        PROVE  /\ th["control"].at \in Between
               /\ \/ CmdStart
                  \/ th'["control"].job = "call" /\ th'["control"].at = "stop_one"
                  \/ th'["control"].job \notin StartJobs
    <2>1. th["control"].job = "idle"
      BY <1>4 DEF Accept, CmdStartAlready, CmdStart, CmdStop, CmdStartProc,
         CmdStopProc, CmdRestart, CmdModeRefused, CmdMode, Command
    <2>2. th["control"].at \in Between
      BY <1>0, <2>1, ThreadFacts DEF Fits, Between
    <2>3. CASE CmdStop
      <3>1. \E j \in {"idle", "stop_safe"} : Begins(j)
        BY <2>3 DEF Begins, CmdStop, StopAllNothing, StopAllBegins, AfterStopAll
      <3> QED BY <1>3, <2>2, <3>1
    <2>4. ASSUME NEW p \in Procs, CmdStopProc(p)
          PROVE  th'["control"].job = "call" /\ th'["control"].at = "stop_one"
      <3> DEFINE r == [Resting("call") EXCEPT !.at = "stop_one", !.proc = p,
                                              !.rest = <<>>]
      <3>1. th' = [th EXCEPT !["control"] = r] /\ r.job = "call" /\ r.at = "stop_one"
        BY <2>4 DEF CmdStopProc, CallFor, Become, Resting
      <3> HIDE DEF r
      <3> QED BY <1>0, <3>1 DEF ThreadsOK
    <2>5. ASSUME NEW p \in Procs PROVE ~CmdStartProc(p) /\ ~CmdRestart(p)
      BY DEF CmdStartProc, CmdRestart, Command, OnlyStartAll
    <2>6. ASSUME NEW m \in CmdModes, CmdMode(m)
          PROVE  th'["control"].job \notin StartJobs
      <3>1. Begins("set_mode")
        BY <2>6 DEF Begins, CmdMode
      <3> QED BY <1>3, <2>2, <3>1
    <2>7. ~CmdStartAlready /\ \A m \in CmdModes : ~CmdModeRefused(m)
      BY <1>4 DEF CmdStartAlready, CmdModeRefused
    <2> QED BY <1>4, <2>2, <2>3, <2>4, <2>5, <2>6, <2>7 DEF Accept
  <1>5. ASSUME ControlJob
        PROVE  /\ th["control"].at \in Between
               /\ StartAllNext \/ th'["control"].job \notin StartJobs
    <2>1. th["control"].at \in Between
      BY <1>5 DEF ControlJob, StartAllNext, StartAllDone, StartAllSafe, StartAllUndo,
         UndoNext, UndoEnds, RestartStarts, Replied, SetModeDone, Between, Ends, Ended
    <2>2. ~RestartStarts
      BY DEF RestartStarts, StartsInOrder
    <2>3. CASE StartAllDone
      <3>1. \E j \in {"start_safe"} : Begins(j)
        BY <2>3 DEF Begins, StartAllDone
      <3> QED BY <1>3, <2>1, <3>1
    <2>4. CASE StartAllUndo \/ UndoNext
      <3>1. \E j \in {"undo"} : Begins(j)
        BY <2>4 DEF Begins, StartAllUndo, UndoNext
      <3> QED BY <1>3, <2>1, <3>1
    <2>5. CASE StartAllSafe \/ UndoEnds \/ Replied \/ SetModeDone
      <3>1. \E j \in {"idle"} : Begins(j)
        BY <2>5 DEF Begins, StartAllSafe, UndoEnds, Replied, SetModeDone
      <3> QED BY <1>3, <2>1, <3>1
    <2> QED BY <1>5, <2>1, <2>2, <2>3, <2>4, <2>5 DEF ControlJob
  <1>6. ASSUME StopAll("control")
        PROVE  th["control"].at \in Between /\ th'["control"].job \notin StartJobs
    <2>1. th["control"].at \in Between
      BY <1>6 DEF StopAll, StopAllSafe, StopAllNext, StopAllEnds, EnterSafeEnds,
         Between, Ends, Ended
    <2>2. CASE StopAllSafe("control") \/ StopAllNext("control")
      <3>1. \E j \in {"stop_all"} : Begins(j)
        BY <2>2 DEF Begins, StopAllSafe, StopAllNext
      <3> QED BY <1>3, <2>1, <3>1
    <2>3. CASE StopAllEnds("control")
      <3>1. \E j \in {"idle"} : Begins(j)
        BY <2>3 DEF Begins, StopAllEnds, AfterStopAll
      <3> QED BY <1>3, <2>1, <3>1
    <2> QED BY <1>6, <2>1, <2>2, <2>3 DEF StopAll
  <1>7. ASSUME MainJob \/ Shutdown
        PROVE  \/ th'["control"] = th["control"]
               \/ /\ th["control"].at \in Between
                  /\ th'["control"].job \notin StartJobs
    <2>1. th'["control"] \in {th["control"], Resting("exited")}
      BY <1>0, <1>7 DEF MainJob, Launch, MainSafe, MainStops, StopAllNothing,
         StopAllBegins, AfterStopAll, StopBackground, JoinBackground, PokeKills,
         StopControl, JoinControl, Shutdown, Sweep, Rest, Become, ThreadsOK
    <2>2. th'["control"] = th["control"] \/ th["control"].job = "idle"
      BY <1>0, <1>7 DEF MainJob, Launch, MainSafe, MainStops, StopAllNothing,
         StopAllBegins, AfterStopAll, StopBackground, JoinBackground, PokeKills,
         StopControl, JoinControl, Shutdown, Sweep, Rest, Become, ThreadsOK
    <2>3. th["control"].job = "idle" => th["control"].at \in Between
      BY <1>0, ThreadFacts DEF Fits, Between
    <2>4. Resting("exited").job \notin StartJobs
      BY DEF Resting, StartJobs
    <2> QED BY <2>1, <2>2, <2>3, <2>4
  <1>8. ASSUME NEW u \in Threads, Call(u), u # "control"
        PROVE  th'["control"] = th["control"]
    BY <1>2, <1>8, CallMoves
  <1>9. CASE MonitorJob
    BY <1>0, <1>2, <1>9, MonitorMoves DEF Threads
  <1>10. CASE PollExits
    BY <1>0, <1>10 DEF PollExits, Rest, Become, ThreadsOK
  <1>11. CASE Call("control")
    BY <1>6, <1>11 DEF Call
  <1> QED BY <1>1, <1>4, <1>5, <1>7, <1>8, <1>9, <1>10, <1>11
          DEF Next, Terminated, vars

\* start_all turns to the next name of Order: it has passed no name that is not in
\* the start order.
LEMMA NextToStart ==
  ASSUME TypeOK, TypeOK', NEW s \in Seq(Procs), LeftToStart(s), StartRest(s),
         Len(startOrder) <= Len(startOrder')
  PROVE  StartsInOrder'
  <1>1. /\ th'["control"].job = "start_all" /\ th'["control"].rest = s
        /\ th'["control"].at \in {"ok", "start_one"}
        /\ s # <<>> => th'["control"].at = "start_one" /\ th'["control"].proc = Head(s)
        /\ s = <<>> => th'["control"].at = "ok"
    BY StartRestGoes, TypeParts
  <1>2. /\ Len(startOrder) \in Nat /\ Len(startOrder') \in Nat
        /\ Len(s) \in Nat /\ Len(Order) \in Nat
    BY LenProperties, OrderFacts DEF TypeOK, ManagerOK
  <1>3. LeftToStart(s)'
    <2>1. Len(Order) - Len(s) <= Len(startOrder')
      BY <1>2 DEF LeftToStart
    <2> QED BY <2>1 DEF LeftToStart
  <1> QED BY <1>1, <1>3 DEF StartsInOrder

LEMMA StartsStep ==
  ASSUME OnlyStartAll, TypeOK, TypeOK', RecordConsistent, Posted,
         Prefixed(startOrder), UpListed, StartsInOrder, [Next]_vars
  PROVE  StartsInOrder'
  <1> USE TypeParts
  <1> DEFINE c == th["control"]
  <1> DEFINE d == th'["control"]
  <1>0. "control" \in Threads \ {"poll"}
    BY DEF Threads
  <1>1. /\ Len(startOrder) \in Nat /\ Len(startOrder') \in Nat
        /\ Len(startOrder) <= Len(startOrder') /\ Len(Order) \in Nat
        /\ c.rest \in Seq(Procs) /\ Len(c.rest) \in Nat
    <2>1. c.rest \in Seq(Procs)
      BY <1>0, ThreadFacts DEF ThreadRecs
    <2>2. Len(startOrder) <= Len(startOrder')
      BY OrderGrows
    <2> QED BY <2>1, <2>2, LenProperties, OrderFacts DEF TypeOK, ManagerOK
  <1>2. ASSUME c.job = "start_all", d.rest = c.rest
        PROVE  LeftToStart(th["control"].rest)'
    <2>1. LeftToStart(c.rest)
      BY <1>2 DEF StartsInOrder
    <2>2. Len(Order) - Len(c.rest) <= Len(startOrder')
      BY <1>1, <2>1 DEF LeftToStart
    <2> QED BY <1>2, <2>1, <2>2 DEF LeftToStart
  <1>3. CASE d = c
    <2>1. c.job = "start_all" /\ c.at = "ok" /\ c.rest # <<>> =>
            Len(Order) - Len(c.rest) < Len(startOrder')
      BY <1>1 DEF StartsInOrder
    <2> QED BY <1>2, <1>3, <2>1 DEF StartsInOrder
  <1>4. CASE StartOne("control") \/ Refresh("control")
    <2>1. PICK l \in (StartPoints \cup Ends) \ {"start_one"} :
            /\ Keeps("control", l)
            /\ l = "ok" => StartAlready("control") \/ Finish("control")
      BY <1>0, <1>4, StartGoes
    <2>2. d.job = c.job /\ d.at = l /\ d.rest = c.rest /\ d.proc = c.proc
      BY <2>1 DEF Keeps, ThreadIs
    <2>3. c.at \in StartPoints /\ c.job # "restart"
      BY <1>0, <1>4, StartGoes DEF StartsInOrder
    <2>4. c.job # "call"
      BY <2>3 DEF StartsInOrder, StartPoints, StopPoints, Ends
    <2>5. c.job = "start_all" => c.rest # <<>> /\ c.proc = Head(c.rest)
      BY <2>3 DEF StartsInOrder, StartPoints
    <2>6. c.job = "start_all" /\ l = "ok" => Len(Order) - Len(c.rest) < Len(startOrder')
      <3>1. CASE Finish("control")
        BY <1>0, <3>1, OrderGrows
      <3>2. CASE StartAlready("control") /\ c.job = "start_all"
        <4>1. /\ c.at = "start_one" /\ runtime[c.proc].state \in {"Running", "Starting"}
              /\ c.proc \in Procs
          BY <1>0, <3>2, ThreadFacts DEF StartAlready, CallPoints
        <4>2. InStartOrder(c.proc)
          BY <4>1 DEF UpListed, UpStates, Underway, Forking
        <4>3. LeftToStart(c.rest)
          BY <3>2 DEF StartsInOrder
        <4> DEFINE n == Len(Order) - Len(c.rest)
        <4>4. c.proc = c.rest[1] /\ Len(c.rest) > 0
          BY <1>1, <2>5, <3>2, FrontOf, HeadTailProperties
        <4>5. n \in Nat /\ n < Len(Order) /\ c.proc = Order[n + 1]
          <5>1. 1 \in 1..Len(c.rest)
            BY <1>1, <4>4
          <5>2. Len(c.rest) <= Len(Order) /\ c.rest[1] = Order[n + 1]
            BY <4>3, <5>1 DEF LeftToStart
          <5> QED BY <1>1, <4>4, <5>2
        <4> HIDE DEF n
        <4>6. PICK k \in 1..Len(startOrder) : startOrder[k] = c.proc
          BY <4>2 DEF InStartOrder
        <4>7. n < Len(startOrder)
          <5>1. startOrder \in Seq(Procs)
            BY DEF TypeOK, ManagerOK
          <5> QED BY <4>5, <4>6, <5>1, ListedUpTo
        <4>8. n < Len(startOrder')
          BY <1>1, <4>5, <4>7
        <4> QED BY <4>8 DEF n
      <3> QED BY <2>1, <3>1, <3>2
    <2> QED BY <1>2, <2>2, <2>3, <2>4, <2>5, <2>6 DEF StartsInOrder
  <1>5. CASE StopOne("control") \/ ApplyMode("control")
    <2>1. StopOne("control") => \E l \in {"term", "kill", "ok", "thrown"} : Keeps("control", l)
      BY <1>0, StopOneKeeps
    <2>2. ApplyMode("control") => c.at = "mode" /\ \E l : Keeps("control", l)
      BY <1>0, ApplyModeKeeps
    <2>3. StopOne("control") => c.at \in StopPoints
      BY DEF StopOne, StopNothing, StopSignal, StopDone, StopEscalate, StopTimeout,
         StopPoints
    <2>4. c.job # "start_all" /\ c.job # "restart"
      BY <1>0, <1>5, <2>2, <2>3 DEF Posted, Placed, PointsOf, SweepJobs, StartPoints,
         StopPoints, Ends, StartsInOrder
    <2>5. d.job = c.job /\ (c.job = "call" => d.at \in StopPoints \cup Ends)
      BY <1>5, <2>1, <2>2 DEF Keeps, ThreadIs, StartsInOrder, StopPoints, Ends
    <2> QED BY <2>4, <2>5 DEF StartsInOrder
  <1>6. CASE CmdStart
    <2>1. LeftToStart(Order) /\ StartRest(Order)
      BY <1>1, <1>6, OrderFacts DEF CmdStart, LeftToStart
    <2> QED BY <1>1, <2>1, OrderFacts, NextToStart
  <1>7. CASE StartAllNext
    <2>1. c.job = "start_all" /\ c.at = "ok" /\ Len(c.rest) > 1 /\ StartRest(Tail(c.rest))
      BY <1>7 DEF StartAllNext
    <2> DEFINE r == c.rest
    <2> DEFINE s == Tail(r)
    <2>2. r \in Seq(Procs) /\ Len(r) \in Nat /\ Len(r) > 1 /\ r # <<>>
      BY <1>1, <2>1, EmptySeq
    <2>3. LeftToStart(r) /\ Len(Order) - Len(r) < Len(startOrder)
      BY <2>1, <2>2 DEF StartsInOrder
    <2> HIDE DEF r
    <2>4. /\ s \in Seq(Procs) /\ Len(s) = Len(r) - 1
          /\ \A k \in 1..Len(s) : s[k] = r[k + 1]
      BY <2>2, HeadTailProperties
    <2> HIDE DEF s
    <2>5. LeftToStart(s)
      <3>1. Len(s) <= Len(Order) /\ Len(Order) - Len(s) <= Len(startOrder)
        BY <1>1, <2>2, <2>3, <2>4 DEF LeftToStart
      <3>2. ASSUME NEW k \in 1..Len(s) PROVE s[k] = Order[Len(Order) - Len(s) + k]
        <4>1. k + 1 \in 1..Len(r) /\ s[k] = r[k + 1]
          BY <2>2, <2>4
        <4>2. r[k + 1] = Order[Len(Order) - Len(r) + (k + 1)]
          BY <2>3, <4>1 DEF LeftToStart
        <4>3. Len(Order) - Len(r) + (k + 1) = Len(Order) - Len(s) + k
          BY <1>1, <2>2, <2>4
        <4> QED BY <4>1, <4>2, <4>3
      <3> QED BY <3>1, <3>2 DEF LeftToStart
    <2> QED BY <1>1, <2>1, <2>4, <2>5, NextToStart DEF r, s
  <1>8. CASE d.job = "call" /\ d.at = "stop_one"
    BY <1>8 DEF StartsInOrder, StopPoints
  <1>9. CASE d.job \notin StartJobs
    BY <1>9 DEF StartsInOrder, StartJobs
  <1> QED BY <1>3, <1>4, <1>5, <1>6, <1>7, <1>8, <1>9, ControlSteps

LEMMA UpListedStep ==
  ASSUME OnlyStartAll, TypeOK, RecordConsistent, Posted, Prefixed(startOrder),
         UpListed, StartsInOrder, [Next]_vars
  PROVE  UpListed'
  <1> USE TypeParts
  <1> DEFINE c == th["control"]
  <1> DEFINE d == th'["control"]
  <1>0. "control" \in Threads \ {"poll"}
    BY DEF Threads
  <1> SUFFICES ASSUME NEW p \in Procs, runtime'[p].state \in UpStates
               PROVE  InStartOrder(p)' \/ Underway(p)'
    BY DEF UpListed
  <1>1. CASE \E t \in Threads : (MarkStarting(t) \/ Fork(t)) /\ th[t].proc = p
    <2>1. PICK t \in Threads : (MarkStarting(t) \/ Fork(t)) /\ th[t].proc = p
      BY <1>1
    <2>2. th[t].at \in {"ping", "fork"}
      BY <2>1 DEF MarkStarting, Fork
    <2>3. t = "control" /\ c.job = "start_all"
      BY <2>1, <2>2, ForkedBy
         DEF OnlyStartAll, StartsInOrder, StartPoints, StopPoints, Ends
    <2>4. \E l \in Forking : Keeps("control", l)
      BY <1>0, <2>1, <2>3, StartGoes DEF StartOne
    <2> QED BY <2>1, <2>3, <2>4 DEF Keeps, ThreadIs, Underway
  <1>2. CASE ~\E t \in Threads : (MarkStarting(t) \/ Fork(t)) /\ th[t].proc = p
    <2>1. InStartOrder(p) \/ Underway(p)
      BY <1>2, UpSteps DEF UpListed
    <2>2. CASE InStartOrder(p)
      BY <2>2, OrderGrows
    <2>3. CASE Underway(p)
      <3>1. c.job = "start_all" /\ c.proc = p /\ c.at \in Forking
        BY <2>3 DEF Underway
      <3>2. CASE d = c
        BY <3>1, <3>2 DEF Underway
      <3>3. CASE StartOne("control") \/ Refresh("control")
        <4>1. PICK l : /\ Keeps("control", l)
                       /\ \/ l \in Forking \/ Finish("control")
                          \/ runtime'[p].state \notin UpStates
          BY <1>0, <3>1, <3>3, StartGoes
        <4>2. CASE l \in Forking
          BY <3>1, <4>1, <4>2 DEF Keeps, ThreadIs, Underway
        <4>3. CASE Finish("control")
          BY <1>0, <3>1, <4>3, FinishLists DEF InStartOrder
        <4> QED BY <4>1, <4>2, <4>3
      <3>4. ~(StopOne("control") \/ ApplyMode("control"))
        <4>1. ~ApplyMode("control")
          BY <1>0, <3>1, ApplyModeKeeps DEF Forking
        <4> QED BY <3>1, <4>1 DEF StopOne, StopNothing, StopSignal, StopDone,
                StopEscalate, StopTimeout, Forking
      <3>5. c.at \notin Between
        BY <3>1 DEF Forking, Between, Ends
      <3> QED BY <3>2, <3>3, <3>4, <3>5, ControlSteps
    <2> QED BY <2>1, <2>2, <2>3
  <1> QED BY <1>1, <1>2

\* A list of the first names without its last one is such a list.
LEMMA PrefixedFront ==
  ASSUME NEW s \in Seq(Procs), s # <<>>, Prefixed(s)
  PROVE  LET f == SubSeq(s, 1, Len(s) - 1) IN
         /\ Prefixed(f) /\ Len(f) < Len(Order) /\ s[Len(s)] = Order[Len(f) + 1]
  <1>1. /\ Len(s) \in Nat /\ Len(s) > 0 /\ Len(s) <= Len(Order)
        /\ Len(SubSeq(s, 1, Len(s) - 1)) = Len(s) - 1
        /\ \A i \in 1..(Len(s) - 1) : SubSeq(s, 1, Len(s) - 1)[i] = s[i]
        /\ Len(Order) \in Nat
    BY FrontOf, OrderFacts DEF Prefixed
  <1>2. Len(s) - 1 + 1 = Len(s) /\ Len(s) \in 1..Len(s) /\ Len(s) - 1 < Len(Order)
        /\ Len(s) - 1 <= Len(Order) /\ \A i \in 1..(Len(s) - 1) : i \in 1..Len(s)
    BY <1>1
  <1>3. \A i \in 1..Len(s) : s[i] = Order[i]
    BY DEF Prefixed
  <1> QED BY <1>1, <1>2, <1>3 DEF Prefixed

LEMMA StopsStep ==
  ASSUME TypeOK, RecordConsistent, Posted, Prefixed(startOrder), [Next]_vars,
         NEW t \in {"control", "main"}, StopsInOrder(t)
  PROVE  StopsInOrder(t)'
  <1> USE TypeParts
  <1>0. t \in Threads /\ th[t].rest \in Seq(Procs) /\ startOrder \in Seq(Procs)
    <2>1. t \in Threads
      BY DEF Threads
    <2> QED BY <2>1, ThreadFacts DEF ThreadRecs, TypeOK, ManagerOK
  <1>1. CASE th'[t] = th[t] \/ th'[t].job \notin StopAllJobs
    BY <1>1 DEF StopsInOrder
  <1>2. CASE StopOne(t) \/ ApplyMode(t)
    <2>1. \E l \in {"term", "kill", "ok", "thrown", "mode"} : Keeps(t, l)
      BY <1>0, <1>2, StopOneKeeps, ApplyModeKeeps
    <2>2. /\ th'[t].job = th[t].job /\ th'[t].rest = th[t].rest
          /\ th'[t].at # "stop_one"
      BY <2>1 DEF Keeps, ThreadIs
    <2> QED BY <2>2 DEF StopsInOrder
  <1>3. CASE StopAllBegins(t)
    <2>1. th'[t].at = "mode" /\ th'[t].rest = startOrder
      BY <1>0, <1>3, ThreadSweeps DEF StopAllBegins, ThreadIs
    <2> QED BY <2>1 DEF StopsInOrder, Prefixed
  <1>4. CASE StopAll(t)
    <2>1. CASE StopAllSafe(t) \/ StopAllNext(t)
      <3> DEFINE s == th[t].rest
      <3>1. StopRest(t, "stop_all", s) /\ Prefixed(s)
        BY <2>1 DEF StopAllSafe, StopAllNext, StopsInOrder, StopAllJobs
      <3>2. s \in Seq(Procs) /\ ThreadsOK
        BY <1>0
      <3> HIDE DEF s
      <3>3. CASE s = <<>>
        <4>1. th'[t].at = "ok" /\ th'[t].rest = <<>>
          BY <1>0, <3>1, <3>2, <3>3, ThreadStopsNext DEF ThreadIs
        <4>2. Prefixed(<<>>)
          BY OrderFacts, EmptySeq DEF Prefixed
        <4> QED BY <4>1, <4>2 DEF StopsInOrder, Prefixed
      <3>4. CASE s # <<>>
        <4> DEFINE f == SubSeq(s, 1, Len(s) - 1)
        <4>1. th'[t].at = "stop_one" /\ th'[t].rest = f /\ th'[t].proc = s[Len(s)]
          BY <1>0, <3>1, <3>2, <3>4, ThreadStopsNext DEF ThreadIs
        <4>2. Prefixed(f) /\ Len(f) < Len(Order) /\ s[Len(s)] = Order[Len(f) + 1]
          BY <3>1, <3>2, <3>4, PrefixedFront
        <4> HIDE DEF f
        <4> QED BY <4>1, <4>2 DEF StopsInOrder, Prefixed
      <3> QED BY <3>3, <3>4
    <2>2. CASE StopAllEnds(t)
      BY <1>0, <2>2, ThreadAfterStopAll DEF StopAllEnds, ThreadIs, StopsInOrder,
         StopAllJobs
    <2> QED BY <1>4, <2>1, <2>2 DEF StopAll
  <1> QED BY <1>1, <1>2, <1>3, <1>4, StopAllSteps

\* Where stop_all turns to a process, a started process that depends on it is
\* behind: not among the names left and not the process itself.
LEMMA DependantsBehind ==
  ASSUME TypeOK, NEW t \in Threads, StopsInOrder(t), th[t].job = "stop_all",
         th[t].at = "stop_one", NEW q \in Procs, th[t].proc \in Deps[q]
  PROVE  ~InRest(t, q) /\ th[t].proc # q
  <1> DEFINE n == Len(th[t].rest)
  <1> HIDE DEF n
  <1>1. /\ n \in Nat /\ n < Len(Order) /\ th[t].proc = Order[n + 1]
        /\ \A k \in 1..n : th[t].rest[k] = Order[k]
        /\ Len(Order) \in Nat
    <2>1. th[t].rest \in Seq(Procs)
      BY TypeParts, ThreadFacts DEF ThreadRecs
    <2> QED BY <2>1, LenProperties, OrderFacts DEF StopsInOrder, StopAllJobs, Prefixed, n
  <1>2. PICK k \in 1..Len(Order) : Order[k] = q
    BY OrderFacts
  <1>3. n + 1 \in 1..Len(Order) /\ n + 1 < k
    <2>1. n + 1 \in 1..Len(Order)
      BY <1>1
    <2>2. Order[n + 1] \in Deps[Order[k]]
      BY <1>1, <1>2
    <2> QED BY <2>1, <2>2, OrderFacts
  <1>4. ASSUME NEW i \in 1..n, th[t].rest[i] = q PROVE FALSE
    <2>1. i \in 1..Len(Order) /\ Order[i] = Order[k]
      BY <1>1, <1>2, <1>4
    <2>2. i = k
      BY <1>2, <2>1, OrderFacts
    <2> QED BY <1>1, <1>3, <2>2
  <1>5. th[t].proc # q
    <2>1. ASSUME Order[n + 1] = Order[k] PROVE n + 1 = k
      BY <1>3, <2>1, OrderFacts
    <2>2. n + 1 # k
      BY <1>1, <1>3
    <2> QED BY <1>1, <1>2, <2>1, <2>2
  <1> QED BY <1>4, <1>5 DEF InRest, n

\* Where operators start all processes at once and nothing is restarted by itself,
\* stop_all stops dependants first.  start_order_ is then at every moment a list
\* of the first names of topo_order_, so that its reverse is the order to stop in.
THEOREM StopsInDependencyOrder ==
  ASSUME OnlyStartAll
  PROVE  Spec => StopsDependantsFirst
  <1>1. Init => InOrder /\ HandledForGood /\ Alone /\ Handled
    <2> SUFFICES ASSUME Init PROVE InOrder /\ HandledForGood /\ Alone /\ Handled
      OBVIOUS
    <2>1. /\ th["main"].at = "none" /\ th["main"].job = "launch"
          /\ th["control"].job = "idle" /\ startOrder = <<>>
          /\ \A p \in Procs : runtime[p].state = "Stopped"
      BY DEF Init, Resting, NewRuntime
    <2>2. Prefixed(startOrder)
      BY <2>1, OrderFacts, EmptySeq DEF Prefixed
    <2>3. UpListed /\ StartsInOrder /\ StopsInOrder("control") /\ StopsInOrder("main")
      BY <2>1 DEF UpListed, UpStates, StartsInOrder, StopsInOrder, StopAllJobs
    <2>4. HandledForGood /\ Alone /\ Handled
      BY <2>1 DEF HandledForGood, HandledBy, Alone, Handled, Destroying
    <2> QED BY <2>2, <2>3, <2>4 DEF InOrder
  <1>2. /\ TypeOK /\ TypeOK' /\ RecordConsistent /\ Posted /\ InOrder
        /\ HandledForGood /\ Alone /\ Handled /\ [Next]_vars
        => InOrder' /\ HandledForGood' /\ Alone' /\ Handled'
    <2> SUFFICES ASSUME TypeOK, TypeOK', RecordConsistent, Posted, InOrder,
                        HandledForGood, Alone, Handled, [Next]_vars
                 PROVE  InOrder' /\ HandledForGood' /\ Alone' /\ Handled'
      OBVIOUS
    <2>1. Prefixed(startOrder')
      BY OrderGrows DEF InOrder
    <2>2. Prefixed(startOrder)'
      BY <2>1 DEF Prefixed
    <2>3. UpListed' /\ StartsInOrder'
      BY UpListedStep, StartsStep DEF InOrder
    <2>4. StopsInOrder("control")' /\ StopsInOrder("main")'
      BY StopsStep DEF InOrder
    <2>5. HandledForGood' /\ Alone' /\ Handled'
      BY HandledForGoodStep, AloneStep, HandledStep
    <2> QED BY <2>2, <2>3, <2>4, <2>5 DEF InOrder
  <1>3. ASSUME TypeOK, InOrder, HandledForGood, Handled, NEW t \in {"control", "main"},
               StopSignal(t), th[t].job = "stop_all", t = "main" => ~bgRunning,
               NEW q \in Procs, th[t].proc \in Deps[q], InStartOrder(q)
        PROVE  ~RecordedLive(q)
    <2>1. t \in Threads /\ th[t].at = "stop_one"
      BY <1>3 DEF Threads, StopSignal
    <2>2. StopsInOrder(t)
      BY <1>3 DEF InOrder
    <2>3. ~InRest(t, q) /\ th[t].proc # q
      BY <1>3, <2>1, <2>2, DependantsBehind
    <2>4. HandledBy(t, q)
      BY <1>3 DEF HandledForGood, Handled, Destroying, OnlyStartAll
    <2> QED BY <1>3, <2>3, <2>4 DEF HandledBy, BeingStopped
  <1>4. TypeOK /\ InOrder /\ HandledForGood /\ Handled =>
          [\A t \in {"control", "main"} :
             StopSignal(t) /\ th[t].job = "stop_all" /\ (t = "main" => ~bgRunning)
               => \A q \in Procs :
                    th[t].proc \in Deps[q] /\ InStartOrder(q) => ~RecordedLive(q)]_vars
    BY <1>3
  <1> QED BY <1>1, <1>2, <1>4, TypeCorrect, RecordsConsistent, ThreadsPosted, PTL
          DEF Spec, StopsDependantsFirst
==========================================================================
