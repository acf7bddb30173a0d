----------------------- MODULE SupervisorModeProofs -----------------------
(***************************************************************************)
(* Proofs about the pids on record (they belong to their own process, and  *)
(* none that has been waited for stays there) and about the modes of the   *)
(* children: that set_mode_all() reaches all of them, and that actuators   *)
(* are enabled last and disabled first, as long as one thread at a time    *)
(* tells them a mode (OneSweeper).                                         *)
(*                                                                         *)
(* The last two rest on one fact (Swept): what a sweep has passed by is in *)
(* its mode or was started since.  A child that listens is in a mode it    *)
(* was told, or in its initial mode (ListensStep).                         *)
(***************************************************************************)
EXTENDS SupervisorStopProofs

\* A path leads to an instance of its process, and so does a recorded pid ...
OwnSocket == \A p \in Procs : sock[p] # 0 => child[sock[p]].proc = p
OwnPid == \A p \in Procs : Recorded(p) => child[runtime[p].pid].proc = p

\* ... and a child that does not listen yet has not been told anything.
BootMode ==
  \A i \in 1..Len(child) : child[i].phase = "boot" => child[i].mode = "INIT"

Owned == OwnSocket /\ OwnPid /\ BootMode

\* Those whose turn is yet to come in the sweep of thread t.
Untold(t) == IF th[t].at = "mode" THEN th[t].todo ELSE {}

\* A sweep that has not failed has left its mode with all it has passed by.
Swept ==
  \A t \in Threads : Sweeping(t) /\ th[t].at \in {"mode", "ok"} =>
    \A p \in Procs \ Untold(t) : Listens(p) => ModeOf(p) \in {th[t].mode, "INIT"}

--------------------------------------------------------------------------
\* What the steps do to the children.

\* The monitor waits for child i in this step.
WaitedFor(i) == MonitorReaps /\ i = th["monitor"].pid

\* No child is forked or told a mode, no path gets a new listener, and only the
\* monitor waits for a child.
ModesKept ==
  /\ Len(child') = Len(child)
  /\ \A i \in 1..Len(child) :
       /\ child'[i].proc = child[i].proc
       /\ child'[i].mode \in {child[i].mode, "INIT"}
       /\ child'[i].phase = "boot" => child[i].phase = "boot"
       /\ child'[i].phase = "gone" => child[i].phase = "gone" \/ WaitedFor(i)
  /\ \A p \in Procs : sock'[p] \in {sock[p], 0}

LEMMA ModesSame ==
  ASSUME UNCHANGED <<child, sock>>
  PROVE  ModesKept
  BY DEF ModesKept

LEMMA ModesUpdated ==
  ASSUME ChildTypeOK, NEW i \in 1..Len(child), NEW r,
         child' = [child EXCEPT ![i] = r],
         r.proc = child[i].proc, r.mode \in {child[i].mode, "INIT"},
         r.phase = "boot" => child[i].phase = "boot",
         r.phase = "gone" => child[i].phase = "gone" \/ WaitedFor(i),
         \A p \in Procs : sock'[p] \in {sock[p], 0}
  PROVE  ModesKept
  <1>1. child \in [1..Len(child) -> ChildRecs] /\ Len(child) \in Nat
    BY LenProperties DEF ChildTypeOK
  <1>2. Len(child') = Len(child)
    <2>1. DOMAIN child' = 1..Len(child)
      BY <1>1
    <2>2. child' \in Seq({child[j] : j \in 1..Len(child)} \cup {r})
      BY <1>1
    <2> QED BY <1>1, <2>1, <2>2, LenProperties
  <1>3. \A j \in 1..Len(child) : child'[j] = IF j = i THEN r ELSE child[j]
    BY <1>1
  <1> QED BY <1>2, <1>3 DEF ModesKept

LEMMA DieModes ==
  ASSUME ChildTypeOK, NEW i \in 1..Len(child), NEW b, Die(i, b)
  PROVE  ModesKept
  <1> DEFINE r == Corpse(i, b)
  <1>1. child[i] \in ChildRecs /\ child' = [child EXCEPT ![i] = r]
    BY ChildFacts DEF Die
  <1>2. r.phase = "zombie" /\ r.proc = child[i].proc /\ r.mode = "INIT"
    BY DEF Corpse, NewChild
  <1>3. \A p \in Procs : sock'[p] \in {sock[p], 0}
    BY DEF Die, Closed
  <1> HIDE DEF r
  <1> QED BY <1>1, <1>2, <1>3, ModesUpdated

LEMMA KillModes ==
  ASSUME ChildTypeOK, NEW i \in 1..Len(child), Kill(i)
  PROVE  ModesKept
  BY DieModes, ModesSame DEF Kill

LEMMA TermModes ==
  ASSUME ChildTypeOK, NEW i \in 1..Len(child), Term(i)
  PROVE  ModesKept
  <1> DEFINE r == [child[i] EXCEPT !.termed = TRUE]
  <1>1. child[i] \in ChildRecs
    BY ChildFacts
  <1>2. /\ child' = [child EXCEPT ![i] = r] \/ UNCHANGED child
        /\ UNCHANGED sock
    BY DEF Term
  <1>3. r.phase = child[i].phase /\ r.proc = child[i].proc /\ r.mode = child[i].mode
    BY <1>1 DEF ChildRecs
  <1> HIDE DEF r
  <1> QED BY <1>2, <1>3, ModesUpdated, ModesSame

LEMMA ReapModes ==
  ASSUME ChildTypeOK, NEW i \in 1..Len(child), Reap(i), WaitedFor(i)
  PROVE  ModesKept
  <1> DEFINE r == [child[i] EXCEPT !.phase = "gone"]
  <1>1. child[i] \in ChildRecs /\ child' = [child EXCEPT ![i] = r] /\ UNCHANGED sock
    BY ChildFacts DEF Reap
  <1>2. r.phase = "gone" /\ r.proc = child[i].proc /\ r.mode = child[i].mode
    BY <1>1 DEF ChildRecs
  <1> HIDE DEF r
  <1> QED BY <1>1, <1>2, ModesUpdated

LEMMA UnansweredModes ==
  ASSUME ChildTypeOK, NEW p \in Procs, Unanswered(p)
  PROVE  ModesKept
  <1> DEFINE i == sock[p]
  <1> DEFINE r == [child[i] EXCEPT !.asked = TRUE]
  <1>1. CASE i = 0
    BY <1>1, ModesSame DEF Unanswered
  <1>2. CASE i # 0
    <2>1. i \in 1..Len(child) /\ child[i] \in ChildRecs
      BY <1>2, ChildFacts
    <2>2. child' = [child EXCEPT ![i] = r] /\ UNCHANGED sock
      BY <1>2 DEF Unanswered
    <2>3. r.phase = child[i].phase /\ r.proc = child[i].proc /\ r.mode = child[i].mode
      BY <2>1 DEF ChildRecs
    <2> HIDE DEF r, i
    <2> QED BY <2>1, <2>2, <2>3, ModesUpdated
  <1> QED BY <1>1, <1>2

LEMMA ChildStepModes ==
  ASSUME ChildTypeOK, NEW i \in 1..Len(child), ChildStep(i), ~Boot(i)
  PROVE  ModesKept
  <1>0. child[i] \in ChildRecs
    BY ChildFacts
  <1>1. CASE Crash(i) \/ Quit(i) \/ BrokenPipe(i) \/ Terminate(i)
    <2>1. PICK b : Die(i, b)
      BY <1>1 DEF Crash, Quit, BrokenPipe, Terminate
    <2> QED BY <2>1, DieModes
  <1>2. CASE Hang(i) \/ Wake(i)
    <2>1. PICK s \in {"hung", "serving"} :
            child' = [child EXCEPT ![i] = [child[i] EXCEPT !.phase = s]] /\ UNCHANGED sock
      BY <1>2 DEF Hang, Wake
    <2> DEFINE r == [child[i] EXCEPT !.phase = s]
    <2>2. r.phase = s /\ r.proc = child[i].proc /\ r.mode = child[i].mode
      BY <1>0 DEF ChildRecs
    <2>3. child' = [child EXCEPT ![i] = r] /\ UNCHANGED sock
      BY <2>1
    <2> HIDE DEF r
    <2> QED BY <2>2, <2>3, ModesUpdated
  <1>3. CASE Sicken(i) \/ Heal(i)
    <2>1. PICK s \in {"OK", "ERR"} :
            child' = [child EXCEPT ![i] = [child[i] EXCEPT !.health = s]] /\ UNCHANGED sock
      BY <1>3 DEF Sicken, Heal
    <2> DEFINE r == [child[i] EXCEPT !.health = s]
    <2>2. r.phase = child[i].phase /\ r.proc = child[i].proc /\ r.mode = child[i].mode
      BY <1>0 DEF ChildRecs
    <2>3. child' = [child EXCEPT ![i] = r] /\ UNCHANGED sock
      BY <2>1
    <2> HIDE DEF r
    <2> QED BY <2>2, <2>3, ModesUpdated
  <1>4. CASE TerminateUnlinks(i)
    <2> DEFINE r == Corpse(i, FALSE)
    <2>1. child' = [child EXCEPT ![i] = r] /\ \A p \in Procs : sock'[p] \in {sock[p], 0}
      BY <1>4 DEF TerminateUnlinks, ChildTypeOK
    <2>2. r.phase = "zombie" /\ r.proc = child[i].proc /\ r.mode = "INIT"
      BY DEF Corpse, NewChild
    <2> HIDE DEF r
    <2> QED BY <2>1, <2>2, ModesUpdated
  <1> QED BY <1>1, <1>2, <1>3, <1>4 DEF ChildStep

\* Thread t, on a sweep, tells p its mode.
Tells(t, p) ==
  /\ Visits(t, p) /\ Told(p, th[t].mode)
  /\ UNCHANGED runtime

LEMMA CallModes ==
  ASSUME TypeOK, NEW t \in Threads, Call(t)
  PROVE  ModesKept \/ Fork(t) \/ \E p \in Procs : Tells(t, p)
  <1> USE TypeParts
  <1>0. th[t].at \in {"term", "kill"} => th[t].pid \in 1..Len(child)
    BY ThreadFacts, ChildFacts DEF Fits
  <1>1. CASE StartOne(t) /\ ~Fork(t)
    BY <1>1, UnansweredModes, ModesSame DEF StartOne, StartAlready, StartProceeds,
       PingAnswered, PingNotRunning, PingUnanswered, MarkStarting, ForkFails,
       LookReady, LookGone, LookAgain, WaitExpires, Finish,
       childVars
  <1>2. CASE Refresh(t)
    BY <1>2, UnansweredModes, ModesSame DEF Refresh, AskDown, AskAnswered,
       AskUnanswered, CommitDown, CommitSilent, CommitStatus, childVars
  <1>3. CASE StopOne(t)
    <2>1. CASE StopSignal(t)
      <3>1. th[t].proc \in Procs
        BY <2>1, ThreadFacts DEF StopSignal, CallPoints
      <3>2. runtime[th[t].proc].pid \in 1..Len(child)
        BY <2>1, <3>1, ChildFacts DEF StopSignal
      <3> QED BY <2>1, <3>2, TermModes DEF StopSignal
    <2>2. CASE StopEscalate(t)
      BY <1>0, <2>2, KillModes DEF StopEscalate
    <2> QED BY <1>3, <2>1, <2>2, ModesSame DEF StopOne, StopNothing, StopDone,
               StopTimeout, childVars
  <1>4. CASE ApplyMode(t)
    BY <1>4, UnansweredModes, ModesSame DEF ApplyMode, ModeSkip, ModeTold, ModeLate,
       ModeUnanswered, ModeDone, SetMode, Tells, superVars, childVars
  <1>5. CASE StopAll(t)
    BY <1>5, ModesSame DEF StopAll, StopAllSafe, StopAllNext, StopAllEnds,
       EnterSafeEnds, childVars
  <1> QED BY <1>1, <1>2, <1>3, <1>4, <1>5 DEF Call

\* A child binds its socket.
Boots(i) == Boot(i) /\ UNCHANGED runtime

LEMMA StepModes ==
  ASSUME TypeOK, [Next]_vars
  PROVE  \/ ModesKept
         \/ \E t \in Threads : Fork(t)
         \/ \E t \in Threads, p \in Procs : Tells(t, p)
         \/ \E i \in 1..Len(child) : Boots(i)
  <1> USE TypeParts
  <1>1. CASE UNCHANGED childVars
    BY <1>1, ModesSame DEF childVars
  <1>2. CASE MonitorReaps
    <2>1. "monitor" \in Threads /\ th["monitor"].job = "waitpid"
      BY <1>2 DEF MonitorReaps, Threads
    <2>2. th["monitor"].pid \in 1..Len(child)
      BY <2>1, ThreadFacts, ChildFacts DEF Fits
    <2> QED BY <1>2, <2>2, ReapModes DEF MonitorReaps, WaitedFor
  <1>3. CASE MonitorJob /\ ~MonitorReaps
    <2>1. UNCHANGED childVars
      BY <1>3 DEF MonitorJob, MonitorLook, MonitorNothing, AccountStopped,
         AccountCritical, AccountExited, AccountRestart, Account, MonitorSafe,
         EnterSafeEnds, MonitorError, Revive, Revived, MonitorExits
    <2> QED BY <1>1, <2>1
  <1>4. CASE Accept
    <2>1. UNCHANGED childVars
      BY <1>4 DEF Accept, CmdStartAlready, CmdStart, CmdStop, StopAllNothing,
         StopAllBegins, CmdStartProc, CmdStopProc, CmdRestart, CmdModeRefused, CmdMode
    <2> QED BY <1>1, <2>1
  <1>5. CASE ControlJob
    <2>1. UNCHANGED childVars
      BY <1>5 DEF ControlJob, StartAllNext, StartAllDone, StartAllSafe, StartAllUndo,
         UndoNext, UndoEnds, RestartStarts, Replied, SetModeDone
    <2> QED BY <1>1, <2>1
  <1>6. CASE MainJob \/ Shutdown \/ PollExits
    <2>1. UNCHANGED childVars
      BY <1>6 DEF MainJob, Shutdown, PollExits, Launch, MainSafe, EnterSafeEnds,
         MainStops, StopAllNothing, StopAllBegins, StopBackground, JoinBackground,
         PokeKills, StopControl, JoinControl
    <2> QED BY <1>1, <2>1
  <1>7. ASSUME NEW i \in 1..Len(child), ChildStep(i), UNCHANGED superVars
        PROVE  ModesKept \/ Boots(i)
    BY <1>7, ChildStepModes DEF Boots, superVars
  <1> QED BY <1>1, <1>2, <1>3, <1>4, <1>5, <1>6, <1>7, CallModes
          DEF Next, Terminated, vars

--------------------------------------------------------------------------
\* Paths and recorded pids lead to the right process.

\* fork() adds a new child behind the others.
LEMMA ForkAppends ==
  ASSUME TypeOK, NEW t \in Threads, Fork(t)
  PROVE  /\ th[t].proc \in Procs
         /\ \A i \in 1..Len(child) : child'[i] = child[i]
         /\ child'[Len(child) + 1] = NewChild(th[t].proc)
         /\ Len(child') = Len(child) + 1
  <1>1. child' = Append(child, NewChild(th[t].proc))
    BY DEF Fork, Spawn
  <1>2. child \in Seq(ChildRecs)
    BY TypeParts DEF ChildTypeOK
  <1>3. th[t].proc \in Procs
    BY TypeParts, ThreadFacts DEF Fork, CallPoints
  <1>4. NewChild(th[t].proc) \in ChildRecs
    BY <1>3 DEF NewChild, ChildRecs, Phases
  <1> QED BY <1>1, <1>2, <1>3, <1>4, AppendProperties

LEMMA OwnedStep ==
  ASSUME TypeOK, Owned, [Next]_vars
  PROVE  Owned'
  <1> USE TypeParts, ChildFacts
  <1>1. CASE ModesKept
    <2>1. \A p \in Procs : runtime'[p].pid \in {runtime[p].pid, 0}
      <3>1. ASSUME NEW t \in Threads, Fork(t) PROVE FALSE
        <4>1. th[t].proc \in Procs
          BY <3>1, ThreadFacts DEF Fork, CallPoints
        <4> QED BY <1>1, <3>1, <4>1, SpawnOK DEF Fork, ModesKept
      <3> QED BY <3>1, PidSteps
    <2>2. \A p \in Procs : sock'[p] \in {sock[p], 0}
      BY <1>1 DEF ModesKept
    <2> QED BY <1>1, <2>1, <2>2
            DEF ModesKept, Owned, OwnSocket, OwnPid, BootMode, Recorded
  <1>2. ASSUME NEW t \in Threads, Fork(t) PROVE Owned'
    <2> DEFINE q == th[t].proc
    <2>1. q \in Procs
      BY <1>2, ForkAppends
    <2>2. /\ \A i \in 1..Len(child) : child'[i] = child[i]
          /\ child'[Len(child) + 1] = NewChild(q)
          /\ Len(child') = Len(child) + 1
      BY <1>2, ForkAppends
    <2>3. /\ sock' = sock
          /\ runtime'[q].pid = Len(child) + 1
          /\ \A p \in Procs \ {q} : runtime'[p] = runtime[p]
      BY <1>2, <2>1 DEF Fork, Spawn, RuntimeOK, Runtimes
    <2>4. NewChild(q).proc = q /\ NewChild(q).mode = "INIT"
      BY DEF NewChild
    <2>5. OwnSocket'
      BY <2>2, <2>3 DEF Owned, OwnSocket
    <2>6. OwnPid'
      BY <2>2, <2>3, <2>4 DEF Owned, OwnPid, Recorded
    <2>7. BootMode'
      BY <2>2, <2>4 DEF Owned, BootMode
    <2> QED BY <2>5, <2>6, <2>7 DEF Owned
  <1>3. ASSUME NEW t \in Threads, NEW q \in Procs, Tells(t, q) PROVE Owned'
    <2> DEFINE r == [child[sock[q]] EXCEPT !.mode = th[t].mode]
    <2>1. sock[q] \in 1..Len(child) /\ child[sock[q]].phase = "serving"
      BY <1>3 DEF Tells, Told, Answers
    <2>2. child' = [child EXCEPT ![sock[q]] = r] /\ UNCHANGED <<sock, runtime>>
      BY <1>3 DEF Tells, Told
    <2>3. r.proc = child[sock[q]].proc /\ r.phase = "serving"
      BY <2>1 DEF ChildRecs
    <2> HIDE DEF r
    <2>4. \A i \in 1..Len(child) : child'[i] = IF i = sock[q] THEN r ELSE child[i]
      BY <2>2, LenProperties DEF ChildTypeOK
    <2>5. Len(child') = Len(child)
      BY <2>2, LenProperties DEF ChildTypeOK
    <2> QED BY <2>2, <2>3, <2>4, <2>5
            DEF Owned, OwnSocket, OwnPid, BootMode, Recorded
  <1>4. ASSUME NEW i \in 1..Len(child), Boots(i) PROVE Owned'
    <2> DEFINE r == [child[i] EXCEPT !.phase = "serving"]
    <2>1. /\ child' = [child EXCEPT ![i] = r] /\ UNCHANGED runtime
          /\ sock' = [sock EXCEPT ![child[i].proc] = i]
      BY <1>4 DEF Boots, Boot
    <2>2. r.proc = child[i].proc /\ r.phase = "serving" /\ child[i].proc \in Procs
      BY DEF ChildRecs
    <2> HIDE DEF r
    <2>3. \A j \in 1..Len(child) : child'[j] = IF j = i THEN r ELSE child[j]
      BY <2>1, LenProperties DEF ChildTypeOK
    <2>4. Len(child') = Len(child)
      BY <2>1, LenProperties DEF ChildTypeOK
    <2>5. \A p \in Procs : sock'[p] = IF p = child[i].proc THEN i ELSE sock[p]
      BY <2>1 DEF ChildTypeOK
    <2>6. OwnSocket'
      BY <2>2, <2>3, <2>5 DEF Owned, OwnSocket
    <2>7. OwnPid'
      BY <2>1, <2>2, <2>3 DEF Owned, OwnPid, Recorded
    <2>8. BootMode'
      BY <2>2, <2>3, <2>4 DEF Owned, BootMode
    <2> QED BY <2>6, <2>7, <2>8 DEF Owned
  <1> QED BY <1>1, <1>2, <1>3, <1>4, StepModes

--------------------------------------------------------------------------
\* The pids that threads remember.

\* A thread that remembers a pid took it from the record of its process.
RemembersOwn ==
  /\ \A t \in Threads : th[t].pid # 0 => child[th[t].pid].proc = th[t].proc
  /\ th["poll"].pid = 0

\* Thread t forgets its pid, keeps it with its process, or takes the recorded one.
TakesPid(t) ==
  \/ th'[t].pid = 0
  \/ th'[t].pid = th[t].pid /\ (th'[t].proc = th[t].proc \/ t = "poll")
  \/ /\ th'[t].proc \in Procs /\ Recorded(th'[t].proc)
     /\ th'[t].pid = runtime[th'[t].proc].pid /\ t # "poll"

\* A step within a call ...
LEMMA CallTakes ==
  ASSUME TypeOK, Posted, NEW t \in Threads,
         StartOne(t) \/ Refresh(t) \/ StopOne(t) \/ ApplyMode(t)
  PROVE  TakesPid(t)
  <1> USE TypeParts
  <1>1. th[t] \in ThreadRecs
    BY ThreadFacts
  <1>2. ASSUME NEW r, th' = [th EXCEPT ![t] = r],
               \/ r.pid = 0
               \/ r.pid = th[t].pid /\ (r.proc = th[t].proc \/ t = "poll")
        PROVE  TakesPid(t)
    BY <1>2 DEF ThreadsOK, TakesPid
  <1>3. ASSUME NEW l, Goto(t, l) PROVE TakesPid(t)
    <2> DEFINE r == [th[t] EXCEPT !.at = l]
    <2>1. th' = [th EXCEPT ![t] = r] /\ r.pid = th[t].pid /\ r.proc = th[t].proc
      BY <1>1, <1>3 DEF Goto, ThreadRecs
    <2> HIDE DEF r
    <2> QED BY <1>2, <2>1
  <1>4. ASSUME NEW l, Return(t, l) PROVE TakesPid(t)
    <2> DEFINE r == [th[t] EXCEPT !.at = l, !.pid = 0, !.todo = {}, !.seen = "none"]
    <2>1. th' = [th EXCEPT ![t] = r] /\ r.pid = 0
      BY <1>1, <1>4 DEF Return, ThreadRecs
    <2> HIDE DEF r
    <2> QED BY <1>2, <2>1
  <1>5. CASE StartProceeds(t)
    <2> DEFINE r == [th[t] EXCEPT !.at = "ping", !.todo = Deps[th[t].proc]]
    <2>1. th' = [th EXCEPT ![t] = r] /\ r.pid = th[t].pid /\ r.proc = th[t].proc
      BY <1>1, <1>5 DEF StartProceeds, ThreadRecs
    <2> HIDE DEF r
    <2> QED BY <1>2, <2>1
  <1>6. ASSUME NEW d \in Procs, PingAnswered(t, d) \/ ModeSkip(t, d) \/ ModeTold(t, d)
        PROVE  TakesPid(t)
    <2> DEFINE r == [th[t] EXCEPT !.todo = @ \ {d}]
    <2>1. th' = [th EXCEPT ![t] = r] /\ r.pid = th[t].pid /\ r.proc = th[t].proc
      BY <1>1, <1>6 DEF PingAnswered, ModeSkip, ModeTold, ThreadRecs
    <2> HIDE DEF r
    <2> QED BY <1>2, <2>1
  <1>7. ASSUME NEW p \in Procs, NEW a, Asks(t, p), Saw(t, p, a) PROVE TakesPid(t)
    <2> DEFINE r == [th[t] EXCEPT !.at = "commit", !.proc = p, !.seen = a]
    <2>1. th' = [th EXCEPT ![t] = r] /\ r.pid = th[t].pid /\ r.proc = p
      BY <1>1, <1>7 DEF Saw, ThreadRecs
    <2>2. p = th[t].proc \/ t = "poll"
      BY <1>7 DEF Asks
    <2> HIDE DEF r
    <2> QED BY <1>2, <2>1, <2>2
  <1>8. CASE Refreshed(t)
    <2> DEFINE r == [th[t] EXCEPT !.at = "look", !.seen = "none"]
    <2>1. r.pid = th[t].pid /\ r.proc = th[t].proc /\ Resting("idle").pid = 0
      BY <1>1 DEF ThreadRecs, Resting
    <2>2. th' = [th EXCEPT ![t] = r] \/ th' = [th EXCEPT ![t] = Resting("idle")]
      BY <1>8 DEF Refreshed, Rest, Become
    <2> HIDE DEF r
    <2> QED BY <1>2, <2>1, <2>2
  <1>9. CASE StopSignal(t)
    <2> DEFINE q == th[t].proc
    <2>1. th[t].at = "stop_one" /\ q \in Procs /\ Recorded(q) /\ t # "poll"
      <3>1. th[t].at = "stop_one" /\ q \in Procs /\ Recorded(q)
        BY <1>9, ThreadFacts DEF StopSignal, Recorded, CallPoints
      <3> QED BY <3>1 DEF Posted, Placed, JobsOf, PointsOf, SweepJobs, StartPoints, Ends
    <2>2. th' = [th EXCEPT ![t].at = "term", ![t].pid = runtime[q].pid]
      BY <1>9 DEF StopSignal
    <2> QED BY <1>1, <2>1, <2>2 DEF TakesPid, ThreadsOK, ThreadRecs
  <1>10. CASE StartOne(t)
    BY <1>3, <1>4, <1>5, <1>6, <1>10 DEF StartOne, StartAlready, PingNotRunning,
       PingUnanswered, MarkStarting, Fork, ForkFails, LookReady, LookGone, LookAgain,
       WaitExpires, Finish
  <1>11. CASE Refresh(t)
    BY <1>7, <1>8, <1>11 DEF Refresh, AskDown, AskAnswered, AskUnanswered, CommitDown,
       CommitSilent, CommitStatus
  <1>12. CASE StopOne(t)
    BY <1>3, <1>4, <1>9, <1>12 DEF StopOne, StopNothing, StopDone, StopEscalate,
       StopTimeout
  <1>13. CASE ApplyMode(t)
    BY <1>4, <1>6, <1>13 DEF ApplyMode, ModeLate, ModeUnanswered, ModeDone
  <1> QED BY <1>10, <1>11, <1>12, <1>13

\* ... and any step of the program.
LEMMA StepTakes ==
  ASSUME TypeOK, Posted, [Next]_vars, NEW t \in Threads
  PROVE  TakesPid(t)
  <1> USE TypeParts
  <1>0. Threads = {"control", "monitor", "poll", "main"}
    BY DEF Threads
  <1>1. CASE th'[t] = th[t]
    BY <1>1 DEF TakesPid
  <1>2. ASSUME NEW u \in Threads \ {t}, OnlyMoves(u) PROVE TakesPid(t)
    BY <1>1, <1>2 DEF OnlyMoves
  <1>3. ASSUME NEW r, th' = [th EXCEPT ![t] = r], r.pid = 0 PROVE TakesPid(t)
    BY <1>3 DEF ThreadsOK, TakesPid
  <1>4. ASSUME NEW j, Rest(t, j) PROVE TakesPid(t)
    <2>1. th' = [th EXCEPT ![t] = Resting(j)] /\ Resting(j).pid = 0
      BY <1>4 DEF Rest, Become, Resting
    <2> QED BY <1>3, <2>1
  <1>5. ASSUME NEW j, NEW f, NEW p, NEW s, CallFor(t, j, f, p, s) PROVE TakesPid(t)
    <2> DEFINE r == [Resting(j) EXCEPT !.at = f, !.proc = p, !.rest = s]
    <2>1. th' = [th EXCEPT ![t] = r] /\ r.pid = 0
      BY <1>5 DEF CallFor, Become, Resting
    <2> HIDE DEF r
    <2> QED BY <1>3, <2>1
  <1>6. ASSUME NEW j, NEW m, NEW s, Sweep(t, j, m, s) PROVE TakesPid(t)
    <2> DEFINE r == [Resting(j) EXCEPT !.at = "mode", !.mode = m, !.todo = Procs,
                                       !.rest = s]
    <2>1. th' = [th EXCEPT ![t] = r] /\ r.pid = 0
      BY <1>6 DEF Sweep, Become, Resting
    <2> HIDE DEF r
    <2> QED BY <1>3, <2>1
  <1>7. ASSUME NEW j, Become(t, [Resting(j) EXCEPT !.at = "ok"]) PROVE TakesPid(t)
    <2> DEFINE r == [Resting(j) EXCEPT !.at = "ok"]
    <2>1. th' = [th EXCEPT ![t] = r] /\ r.pid = 0
      BY <1>7 DEF Become, Resting
    <2> HIDE DEF r
    <2> QED BY <1>3, <2>1
  <1>8. ASSUME NEW j, NEW s, StopRest(t, j, s) PROVE TakesPid(t)
    BY <1>5, <1>7, <1>8 DEF StopRest
  <1>9. ASSUME NEW s, StartRest(s), t = "control" PROVE TakesPid(t)
    BY <1>5, <1>7, <1>9 DEF StartRest
  <1>10. CASE Accept \/ ControlJob
    <2>1. CASE t # "control"
      BY <1>0, <1>2, <1>10, <2>1, ControlMoves
    <2>2. CASE t = "control" /\ Accept
      BY <1>1, <1>4, <1>5, <1>6, <1>9, <2>2 DEF Accept, CmdStartAlready, CmdStart,
         CmdStop, CmdStartProc, CmdStopProc, CmdRestart, CmdModeRefused, CmdMode,
         StopAllNothing, StopAllBegins, AfterStopAll
    <2>3. CASE t = "control" /\ ControlJob
      BY <1>4, <1>5, <1>6, <1>8, <1>9, <2>3 DEF ControlJob, StartAllNext, StartAllDone,
         StartAllSafe, StartAllUndo, UndoNext, UndoEnds, RestartStarts, Replied,
         SetModeDone
    <2> QED BY <1>10, <2>1, <2>2, <2>3
  <1>11. CASE MonitorJob
    <2>1. CASE t # "monitor"
      BY <1>0, <1>2, <1>11, <2>1, MonitorMoves
    <2>2. ASSUME NEW p \in Procs, MonitorLook(p), t = "monitor" PROVE TakesPid(t)
      <3> DEFINE r == [Resting("waitpid") EXCEPT !.proc = p, !.pid = runtime[p].pid]
      <3>1. /\ th' = [th EXCEPT ![t] = r] /\ r.proc = p /\ r.pid = runtime[p].pid
            /\ Recorded(p)
        BY <2>2 DEF MonitorLook, Become, Resting, Recorded
      <3> HIDE DEF r
      <3> QED BY <2>2, <3>1 DEF ThreadsOK, TakesPid
    <2>3. CASE t = "monitor" /\ MonitorReaps
      <3> DEFINE r == [th[t] EXCEPT !.job = "account"]
      <3>1. th' = [th EXCEPT ![t] = r] /\ th[t] \in ThreadRecs
        BY <2>3, ThreadFacts DEF MonitorReaps
      <3>2. r.pid = th[t].pid /\ r.proc = th[t].proc
        BY <3>1 DEF ThreadRecs
      <3> HIDE DEF r
      <3> QED BY <3>1, <3>2 DEF ThreadsOK, TakesPid
    <2>4. CASE t = "monitor" /\ ~MonitorReaps /\ ~\E p \in Procs : MonitorLook(p)
      BY <1>4, <1>5, <1>6, <1>11, <2>4 DEF MonitorJob, MonitorNothing, AccountStopped,
         AccountCritical, AccountExited, AccountRestart, MonitorSafe, MonitorError,
         Revive, Revived, MonitorExits
    <2> QED BY <2>1, <2>2, <2>3, <2>4
  <1>12. CASE PollExits
    <2>1. CASE t = "poll"
      BY <1>4, <1>12, <2>1 DEF PollExits
    <2>2. CASE t # "poll"
      BY <1>0, <1>1, <1>12, <2>2 DEF PollExits, Rest, Become, ThreadsOK
    <2> QED BY <2>1, <2>2
  <1>13. CASE MainJob \/ Shutdown
    <2>1. TakesPid(t)
      <3>1. Launch => th'[t] = th[t] \/ th'[t].pid = 0
        BY <1>0 DEF Launch, ThreadsOK, Resting
      <3>2. PokeKills => th'[t] = th[t] \/ th'[t].pid = 0
        BY <1>0 DEF PokeKills, ThreadsOK, Resting
      <3>3. JoinControl => th'[t] = th[t] \/ th'[t].pid = 0
        BY <1>0 DEF JoinControl, ThreadsOK, Resting
      <3>4. CASE ~Launch /\ ~PokeKills /\ ~JoinControl
        <4>1. \/ \E j : Rest("main", j)
              \/ \E j, m, s : Sweep("main", j, m, s)
          BY <1>13, <3>4 DEF MainJob, MainSafe, MainStops, StopAllNothing,
             StopAllBegins, AfterStopAll, StopBackground, JoinBackground, StopControl,
             Shutdown
        <4>2. t # "main" => th'[t] = th[t]
          BY <1>0, <4>1 DEF Rest, Sweep, Become, ThreadsOK
        <4>3. t = "main" => TakesPid(t)
          BY <1>4, <1>6, <4>1
        <4> QED BY <1>1, <4>2, <4>3
      <3> QED BY <3>1, <3>2, <3>3, <3>4 DEF TakesPid
    <2> QED BY <2>1
  <1>14. ASSUME NEW u \in Threads, Call(u) PROVE TakesPid(t)
    <2>1. CASE u # t
      BY <1>2, <1>14, <2>1, CallMoves
    <2>2. CASE u = t /\ StopAll(t)
      BY <1>4, <1>8, <2>2 DEF StopAll, StopAllSafe, StopAllNext, StopAllEnds,
         AfterStopAll
    <2> QED BY <1>14, <2>1, <2>2, CallTakes DEF Call
  <1>15. CASE UNCHANGED th
    BY <1>1, <1>15
  <1> QED BY <1>10, <1>11, <1>12, <1>13, <1>14, <1>15 DEF Next, Terminated, vars

\* No step changes whose instance a child is.
LEMMA InstancesKept ==
  ASSUME TypeOK, [Next]_vars
  PROVE  \A i \in 1..Len(child) : child'[i].proc = child[i].proc
  <1> USE TypeParts, ChildFacts
  <1>1. CASE ModesKept
    BY <1>1 DEF ModesKept
  <1>2. ASSUME NEW t \in Threads, Fork(t), NEW i \in 1..Len(child)
        PROVE  child'[i].proc = child[i].proc
    BY <1>2, ForkAppends
  <1>3. ASSUME NEW i \in 1..Len(child), NEW r, child' = [child EXCEPT ![i] = r],
               r.proc = child[i].proc
        PROVE  \A j \in 1..Len(child) : child'[j].proc = child[j].proc
    BY <1>3, LenProperties DEF ChildTypeOK
  <1>4. ASSUME NEW t \in Threads, NEW q \in Procs, Tells(t, q)
        PROVE  \A j \in 1..Len(child) : child'[j].proc = child[j].proc
    <2> DEFINE r == [child[sock[q]] EXCEPT !.mode = th[t].mode]
    <2>1. sock[q] \in 1..Len(child) /\ child' = [child EXCEPT ![sock[q]] = r]
      BY <1>4 DEF Tells, Told, Answers
    <2>2. r.proc = child[sock[q]].proc
      BY <2>1 DEF ChildRecs
    <2> HIDE DEF r
    <2> QED BY <1>3, <2>1, <2>2
  <1>5. ASSUME NEW i \in 1..Len(child), Boots(i)
        PROVE  \A j \in 1..Len(child) : child'[j].proc = child[j].proc
    <2> DEFINE r == [child[i] EXCEPT !.phase = "serving"]
    <2>1. child' = [child EXCEPT ![i] = r] /\ r.proc = child[i].proc
      BY <1>5 DEF Boots, Boot, ChildRecs
    <2> HIDE DEF r
    <2> QED BY <1>3, <2>1
  <1> QED BY <1>1, <1>2, <1>4, <1>5, StepModes

LEMMA RemembersOwnStep ==
  ASSUME TypeOK, Posted, Owned, RemembersOwn, [Next]_vars
  PROVE  RemembersOwn'
  <1>1. \A i \in 1..Len(child) : child'[i].proc = child[i].proc
    BY InstancesKept
  <1>2. "poll" \in Threads
    BY DEF Threads
  <1>3. th'["poll"].pid = 0
    BY <1>2, StepTakes DEF TakesPid, RemembersOwn
  <1>4. ASSUME NEW t \in Threads, th'[t].pid # 0
        PROVE  child'[th'[t].pid].proc = th'[t].proc
    <2>1. t # "poll" /\ TakesPid(t)
      BY <1>3, <1>4, StepTakes
    <2>2. CASE th'[t].pid = th[t].pid /\ th'[t].proc = th[t].proc
      <3>1. th[t].pid \in 1..Len(child)
        BY <1>4, <2>2, TypeParts, ThreadFacts, ChildFacts
      <3> QED BY <1>1, <1>4, <2>2, <3>1 DEF RemembersOwn
    <2>3. ASSUME NEW p \in Procs, Recorded(p), th'[t].proc = p,
                 th'[t].pid = runtime[p].pid
          PROVE  child'[th'[t].pid].proc = th'[t].proc
      <3>1. runtime[p].pid \in 1..Len(child)
        BY <2>3, TypeParts, ChildFacts DEF Recorded
      <3> QED BY <1>1, <2>3, <3>1 DEF Owned, OwnPid
    <2> QED BY <1>4, <2>1, <2>2, <2>3 DEF TakesPid
  <1> QED BY <1>3, <1>4 DEF RemembersOwn

\* Between a waitpid and the account the monitor does nothing else.
LEMMA AccountPends ==
  ASSUME TypeOK, [Next]_vars, th["monitor"].job = "account"
  PROVE  \/ UNCHANGED th["monitor"]
         \/ runtime'[th["monitor"].proc].pid = 0
  <1> USE TypeParts
  <1>0. "monitor" \in Threads /\ Threads = {"control", "monitor", "poll", "main"}
    BY DEF Threads
  <1>1. th["monitor"].at = "none" /\ th["monitor"].proc \in Procs
    BY <1>0, ThreadFacts DEF Fits, RestingJobs, NamedJobs
  <1>2. ASSUME NEW u \in Threads \ {"monitor"}, OnlyMoves(u)
        PROVE  UNCHANGED th["monitor"]
    BY <1>0, <1>2 DEF OnlyMoves
  <1>3. CASE MonitorJob
    <2>1. \E s \in ProcStates : Account(s)
      BY <1>3 DEF MonitorJob, MonitorLook, MonitorNothing, MonitorReaps,
         AccountStopped, AccountCritical, AccountExited, AccountRestart, MonitorSafe,
         MonitorError, Revive, Revived, MonitorExits, ProcStates
    <2>2. PICK s \in ProcStates : Account(s)
      BY <2>1
    <2> DEFINE q == th["monitor"].proc
    <2>3. runtime' = [runtime EXCEPT ![q].pid = 0, ![q].reach = FALSE, ![q].state = s]
      BY <2>2 DEF Account
    <2>4. runtime \in [Procs -> Runtimes] /\ q \in Procs
      BY <1>1 DEF RuntimeOK
    <2> HIDE DEF q
    <2>5. runtime'[q].pid = 0
      BY <2>3, <2>4 DEF Runtimes
    <2> QED BY <2>5 DEF q
  <1>4. ASSUME NEW t \in Threads, Call(t) PROVE UNCHANGED th["monitor"]
    <2>1. CASE t # "monitor"
      BY <1>2, <1>4, <2>1, CallMoves
    <2>2. CASE t = "monitor"
      BY <1>1, <1>4, <2>2 DEF Call, StartOne, StartAlready, StartProceeds,
         PingAnswered, PingNotRunning, PingUnanswered, MarkStarting, Fork, ForkFails,
         LookReady, LookGone, LookAgain, WaitExpires, Finish, Refresh, AskDown,
         AskAnswered, AskUnanswered, Asks, CommitDown, CommitSilent, CommitStatus,
         StopOne, StopNothing, StopSignal, StopDone, StopEscalate, StopTimeout,
         ApplyMode, ModeSkip, ModeTold, ModeLate, ModeUnanswered, ModeDone, Visits,
         StopAll, StopAllSafe, StopAllNext, StopAllEnds
    <2> QED BY <2>1, <2>2
  <1>5. CASE Accept \/ ControlJob
    BY <1>0, <1>2, <1>5, ControlMoves
  <1>6. CASE MainJob \/ Shutdown \/ PollExits
    BY <1>0, <1>6 DEF MainJob, Shutdown, PollExits, Launch, MainSafe, MainStops,
       StopAllNothing, StopAllBegins, AfterStopAll, StopBackground, JoinBackground,
       PokeKills, StopControl, JoinControl, Sweep, Rest, Become, ThreadsOK
  <1>7. CASE UNCHANGED th
    BY <1>7
  <1> QED BY <1>3, <1>4, <1>5, <1>6, <1>7 DEF Next, Terminated, vars

LEMMA PidsUnreapedStep ==
  ASSUME TypeOK, Owned, RemembersOwn, PidsUnreaped, [Next]_vars
  PROVE  PidsUnreaped'
  <1> SUFFICES ASSUME NEW p \in Procs, runtime'[p].pid # 0,
                      child'[runtime'[p].pid].phase = "gone"
               PROVE  /\ th'["monitor"].job = "account" /\ th'["monitor"].proc = p
                      /\ th'["monitor"].pid = runtime'[p].pid
    BY DEF PidsUnreaped
  <1> USE TypeParts, ChildFacts
  <1> DEFINE i == runtime'[p].pid
  <1>0. "monitor" \in Threads
    BY DEF Threads
  <1>1. ASSUME i = runtime[p].pid, child[i].phase = "gone"
        PROVE  /\ th'["monitor"].job = "account" /\ th'["monitor"].proc = p
               /\ th'["monitor"].pid = i
    <2>1. /\ th["monitor"].job = "account" /\ th["monitor"].proc = p
          /\ th["monitor"].pid = i
      BY <1>1 DEF PidsUnreaped
    <2> QED BY <2>1, AccountPends
  <1>2. ASSUME i = runtime[p].pid, WaitedFor(i)
        PROVE  /\ th'["monitor"].job = "account" /\ th'["monitor"].proc = p
               /\ th'["monitor"].pid = i
    <2>1. child[i].proc = p
      BY <1>2 DEF Owned, OwnPid, Recorded
    <2>2. child[i].proc = th["monitor"].proc /\ th["monitor"].pid = i
      BY <1>0, <1>2 DEF WaitedFor, RemembersOwn
    <2> DEFINE r == [th["monitor"] EXCEPT !.job = "account"]
    <2>3. th' = [th EXCEPT !["monitor"] = r] /\ th["monitor"] \in ThreadRecs
      BY <1>0, <1>2, ThreadFacts DEF WaitedFor, MonitorReaps
    <2>4. r.job = "account" /\ r.proc = p /\ r.pid = i
      BY <2>1, <2>2, <2>3 DEF ThreadRecs
    <2> HIDE DEF r
    <2> QED BY <1>0, <2>3, <2>4 DEF ThreadsOK
  <1>3. i = runtime[p].pid => i \in 1..Len(child)
    OBVIOUS
  <1>4. CASE ModesKept
    <2>1. ASSUME NEW t \in Threads, Fork(t) PROVE FALSE
      <3>1. th[t].proc \in Procs
        BY <2>1, ThreadFacts DEF Fork, CallPoints
      <3> QED BY <1>4, <2>1, <3>1, SpawnOK DEF Fork, ModesKept
    <2>2. i = runtime[p].pid
      BY <2>1, PidSteps
    <2> QED BY <1>1, <1>2, <1>3, <1>4, <2>2 DEF ModesKept
  <1>5. ASSUME NEW t \in Threads, Fork(t)
        PROVE  i = runtime[p].pid /\ child[i].phase = "gone"
    <2> DEFINE q == th[t].proc
    <2>1. q \in Procs
      BY <1>5, ForkAppends
    <2>2. /\ \A j \in 1..Len(child) : child'[j] = child[j]
          /\ child'[Len(child) + 1] = NewChild(q)
      BY <1>5, ForkAppends
    <2>3. runtime'[q].pid = Len(child) + 1 /\ (p # q => runtime'[p] = runtime[p])
      BY <1>5, <2>1 DEF Fork, RuntimeOK, Runtimes
    <2>4. p # q
      BY <2>2, <2>3 DEF NewChild
    <2> QED BY <1>3, <2>2, <2>3, <2>4
  <1>6. ASSUME NEW t \in Threads, NEW q \in Procs, Tells(t, q)
        PROVE  i = runtime[p].pid /\ child[i].phase = "gone"
    <2> DEFINE r == [child[sock[q]] EXCEPT !.mode = th[t].mode]
    <2>1. sock[q] \in 1..Len(child) /\ child[sock[q]].phase = "serving"
      BY <1>6 DEF Tells, Told, Answers
    <2>2. child' = [child EXCEPT ![sock[q]] = r] /\ UNCHANGED runtime
      BY <1>6 DEF Tells, Told
    <2>3. r.phase = "serving"
      BY <2>1 DEF ChildRecs
    <2> HIDE DEF r
    <2>4. \A j \in 1..Len(child) : child'[j] = IF j = sock[q] THEN r ELSE child[j]
      BY <2>2, LenProperties DEF ChildTypeOK
    <2> QED BY <1>3, <2>2, <2>3, <2>4
  <1>7. ASSUME NEW j \in 1..Len(child), Boots(j)
        PROVE  i = runtime[p].pid /\ child[i].phase = "gone"
    <2> DEFINE r == [child[j] EXCEPT !.phase = "serving"]
    <2>1. child' = [child EXCEPT ![j] = r] /\ UNCHANGED runtime
      BY <1>7 DEF Boots, Boot
    <2>2. r.phase = "serving"
      BY DEF ChildRecs
    <2> HIDE DEF r
    <2>3. \A k \in 1..Len(child) : child'[k] = IF k = j THEN r ELSE child[k]
      BY <2>1, LenProperties DEF ChildTypeOK
    <2> QED BY <1>3, <2>1, <2>2, <2>3
  <1> QED BY <1>1, <1>4, <1>5, <1>6, <1>7, StepModes

\* Whatever is forked over, unlinked, killed or waited for, the path of a process
\* leads to an instance of that process, and so does the pid on its record.
THEOREM ChildrenOwned == Spec => []Owned
  <1>1. Init => Owned
    BY EmptySeq DEF Init, ChildInit, NewRuntime, Owned, OwnSocket, OwnPid, BootMode,
                    Recorded
  <1>2. TypeOK /\ Owned /\ [Next]_vars => Owned'
    BY OwnedStep
  <1> QED BY <1>1, <1>2, TypeCorrect, PTL DEF Spec

\* What a thread remembers after the mutex was given up is a pid of the process it
\* is at work on, although that process may have been started again meanwhile.
LEMMA RemembersOwnAlways == Spec => []RemembersOwn
  <1>1. Init => RemembersOwn
    BY DEF Init, Threads, Resting, RemembersOwn
  <1>2. TypeOK /\ Posted /\ Owned /\ RemembersOwn /\ [Next]_vars => RemembersOwn'
    BY RemembersOwnStep
  <1> QED BY <1>1, <1>2, TypeCorrect, ThreadsPosted, ChildrenOwned, PTL DEF Spec

\* A recorded pid has been waited for only while the monitor is on its way from
\* waitpid() to the account, which will erase it: outside that window the kernel
\* cannot have given the number on record to a stranger.
THEOREM RecordedPidsUnreaped == Spec => []PidsUnreaped
  <1>1. Init => PidsUnreaped
    BY DEF Init, NewRuntime, PidsUnreaped
  <1>2. TypeOK /\ Owned /\ RemembersOwn /\ PidsUnreaped /\ [Next]_vars
          => PidsUnreaped'
    BY PidsUnreapedStep
  <1> QED BY <1>1, <1>2, TypeCorrect, ChildrenOwned, RemembersOwnAlways, PTL DEF Spec

--------------------------------------------------------------------------
\* What the children listen to.

\* A process that listens after a step has just bound its socket, or it listened
\* before and its mode is what it was or what a sweep has just told it.
LEMMA ListensStep ==
  ASSUME TypeOK, Owned, [Next]_vars, NEW p \in Procs, Listens(p)'
  PROVE  \/ ModeOf(p)' = "INIT"
         \/ /\ Listens(p)
            /\ \/ ModeOf(p)' = ModeOf(p)
               \/ \E t \in Threads : Tells(t, p) /\ ModeOf(p)' = th[t].mode
  <1> USE TypeParts, ChildFacts
  <1>0. sock'[p] = runtime'[p].pid /\ runtime'[p].pid # 0
    BY DEF Listens, Recorded
  <1>1. CASE ModesKept
    <2>1. runtime'[p].pid \in {runtime[p].pid, 0}
      <3>1. ASSUME NEW t \in Threads, Fork(t) PROVE FALSE
        <4>1. th[t].proc \in Procs
          BY <3>1, ThreadFacts DEF Fork, CallPoints
        <4> QED BY <1>1, <3>1, <4>1, SpawnOK DEF Fork, ModesKept
      <3> QED BY <3>1, PidSteps
    <2>2. sock'[p] \in {sock[p], 0}
      BY <1>1 DEF ModesKept
    <2>3. Listens(p) /\ runtime'[p].pid = runtime[p].pid
      BY <1>0, <2>1, <2>2 DEF Listens, Recorded
    <2> QED BY <1>1, <2>3 DEF ModesKept, ModeOf, Listens, Recorded
  <1>2. ASSUME NEW t \in Threads, Fork(t)
        PROVE  Listens(p) /\ ModeOf(p)' = ModeOf(p)
    <2> DEFINE q == th[t].proc
    <2>1. q \in Procs
      BY <1>2, ThreadFacts DEF Fork, CallPoints
    <2>2. \A i \in 1..Len(child) : child'[i] = child[i]
      BY <1>2, <2>1, AppendProperties DEF Fork, Spawn, ChildTypeOK
    <2>3. /\ sock' = sock
          /\ runtime'[q].pid = Len(child) + 1
          /\ \A u \in Procs \ {q} : runtime'[u] = runtime[u]
      BY <1>2, <2>1 DEF Fork, Spawn, RuntimeOK, Runtimes
    <2>4. p # q
      BY <1>0, <2>3
    <2>5. runtime'[p] = runtime[p]
      BY <2>3, <2>4
    <2> QED BY <1>0, <2>2, <2>3, <2>5 DEF Listens, Recorded, ModeOf
  <1>3. ASSUME NEW t \in Threads, NEW q \in Procs, Tells(t, q)
        PROVE  /\ Listens(p)
               /\ \/ ModeOf(p)' = ModeOf(p)
                  \/ Tells(t, p) /\ ModeOf(p)' = th[t].mode
    <2> DEFINE r == [child[sock[q]] EXCEPT !.mode = th[t].mode]
    <2>1. sock[q] \in 1..Len(child)
      BY <1>3 DEF Tells, Told, Answers
    <2>2. child' = [child EXCEPT ![sock[q]] = r] /\ UNCHANGED <<sock, runtime>>
      BY <1>3 DEF Tells, Told
    <2>3. r.mode = th[t].mode
      BY <2>1 DEF ChildRecs
    <2> HIDE DEF r
    <2>4. \A i \in 1..Len(child) : child'[i] = IF i = sock[q] THEN r ELSE child[i]
      BY <2>2, LenProperties DEF ChildTypeOK
    <2>5. Listens(p)
      BY <1>0, <2>2 DEF Listens, Recorded
    <2>6. sock[p] = sock[q] => p = q
      BY <2>1, <2>5 DEF Owned, OwnSocket, Listens, Recorded
    <2> QED BY <1>3, <2>2, <2>3, <2>4, <2>5, <2>6 DEF ModeOf, Listens, Recorded
  <1>4. ASSUME NEW i \in 1..Len(child), Boots(i)
        PROVE  \/ ModeOf(p)' = "INIT"
               \/ Listens(p) /\ ModeOf(p)' = ModeOf(p)
    <2> DEFINE r == [child[i] EXCEPT !.phase = "serving"]
    <2>1. /\ child' = [child EXCEPT ![i] = r] /\ UNCHANGED runtime
          /\ sock' = [sock EXCEPT ![child[i].proc] = i]
      BY <1>4 DEF Boots, Boot
    <2>2. r.mode = "INIT"
      BY <1>4 DEF Boots, Boot, Owned, BootMode, ChildRecs
    <2> HIDE DEF r
    <2>3. \A j \in 1..Len(child) : child'[j] = IF j = i THEN r ELSE child[j]
      BY <2>1, LenProperties DEF ChildTypeOK
    <2>4. sock'[p] \in {i, sock[p]}
      BY <2>1 DEF ChildTypeOK
    <2>5. CASE runtime[p].pid = i
      <3>1. child'[i] = r /\ runtime'[p].pid = i
        BY <2>1, <2>3, <2>5
      <3> QED BY <2>2, <3>1 DEF ModeOf
    <2>6. CASE runtime[p].pid # i
      BY <1>0, <2>1, <2>3, <2>4, <2>6 DEF Listens, Recorded, ModeOf
    <2> QED BY <2>5, <2>6
  <1> QED BY <1>1, <1>2, <1>3, <1>4, StepModes

--------------------------------------------------------------------------
\* What the steps do to the sweeps.

\* If thread t is on a sweep after the step, it has just begun it, or it goes on
\* with it: a process it has passed by meanwhile had no pid or was told.
SweepGoesOn(t) ==
  Sweeping(t)' =>
    \/ th'[t].at = "mode" /\ th'[t].todo = Procs
    \/ /\ Sweeping(t) /\ th'[t].mode = th[t].mode
       /\ th'[t].at \in {"mode", "ok"} =>
            /\ th[t].at \in {"mode", "ok"}
            /\ \A p \in Untold(t) \ Untold(t)' :
                 (runtime[p].pid = 0 /\ UNCHANGED runtime) \/ Tells(t, p)

LEMMA BecomesSweep ==
  ASSUME ThreadsOK, NEW t \in Threads, NEW r, th' = [th EXCEPT ![t] = r],
         r.job \in SweepJobs => r.at = "mode" /\ r.todo = Procs
  PROVE  SweepGoesOn(t)
  <1>1. th'[t] = r
    BY DEF ThreadsOK
  <1> QED BY <1>1 DEF SweepGoesOn, Sweeping

LEMMA RestSweep ==
  ASSUME ThreadsOK, NEW t \in Threads, NEW j, j \notin SweepJobs, Rest(t, j)
  PROVE  SweepGoesOn(t)
  <1> DEFINE r == Resting(j)
  <1>1. th' = [th EXCEPT ![t] = r] /\ r.job = j
    BY DEF Rest, Become, Resting
  <1> HIDE DEF r
  <1> QED BY <1>1, BecomesSweep

LEMMA CallForSweep ==
  ASSUME ThreadsOK, NEW t \in Threads, NEW j, j \notin SweepJobs, NEW f, NEW p,
         NEW s, CallFor(t, j, f, p, s)
  PROVE  SweepGoesOn(t)
  <1> DEFINE r == [Resting(j) EXCEPT !.at = f, !.proc = p, !.rest = s]
  <1>1. th' = [th EXCEPT ![t] = r] /\ r.job = j
    BY DEF CallFor, Become, Resting
  <1> HIDE DEF r
  <1> QED BY <1>1, BecomesSweep

LEMMA ListEndedSweep ==
  ASSUME ThreadsOK, NEW t \in Threads, NEW j, j \notin SweepJobs,
         Become(t, [Resting(j) EXCEPT !.at = "ok"])
  PROVE  SweepGoesOn(t)
  <1> DEFINE r == [Resting(j) EXCEPT !.at = "ok"]
  <1>1. th' = [th EXCEPT ![t] = r] /\ r.job = j
    BY DEF Become, Resting
  <1> HIDE DEF r
  <1> QED BY <1>1, BecomesSweep

LEMMA SweepBegins ==
  ASSUME ThreadsOK, NEW t \in Threads, NEW j, NEW m, NEW s, Sweep(t, j, m, s)
  PROVE  SweepGoesOn(t)
  <1> DEFINE r == [Resting(j) EXCEPT !.at = "mode", !.mode = m, !.todo = Procs,
                                     !.rest = s]
  <1>1. th' = [th EXCEPT ![t] = r] /\ r.at = "mode" /\ r.todo = Procs
    BY DEF Sweep, Become, Resting
  <1> HIDE DEF r
  <1> QED BY <1>1, BecomesSweep

LEMMA StopRestSweep ==
  ASSUME ThreadsOK, NEW t \in Threads, NEW j \in {"undo", "stop_all"}, NEW s,
         StopRest(t, j, s)
  PROVE  SweepGoesOn(t)
  BY ListEndedSweep, CallForSweep DEF StopRest, SweepJobs

LEMMA StartRestSweep ==
  ASSUME ThreadsOK, NEW s, StartRest(s)
  PROVE  SweepGoesOn("control")
  BY ListEndedSweep, CallForSweep DEF StartRest, SweepJobs, Threads

LEMMA ApplyModeSweep ==
  ASSUME TypeOK, NEW t \in Threads, ApplyMode(t)
  PROVE  SweepGoesOn(t)
  <1> USE TypeParts
  <1>0. th[t] \in ThreadRecs /\ t \in DOMAIN th
    BY ThreadFacts DEF ThreadsOK
  <1>1. ASSUME NEW p \in Procs, ModeSkip(t, p) \/ ModeTold(t, p)
        PROVE  SweepGoesOn(t)
    <2> DEFINE r == [th[t] EXCEPT !.todo = @ \ {p}]
    <2>1. th' = [th EXCEPT ![t] = r] /\ th[t].at = "mode"
      BY <1>1 DEF ModeSkip, ModeTold, Visits
    <2>2. /\ r.job = th[t].job /\ r.mode = th[t].mode /\ r.at = "mode"
          /\ r.todo = th[t].todo \ {p}
      BY <1>0, <2>1 DEF ThreadRecs
    <2> HIDE DEF r
    <2>3. th'[t] = r
      BY <1>0, <2>1
    <2>4. (runtime[p].pid = 0 /\ UNCHANGED runtime) \/ Tells(t, p)
      BY <1>1 DEF ModeSkip, ModeTold, SetMode, Tells, superVars
    <2>5. Untold(t) \ Untold(t)' \subseteq {p}
      BY <2>1, <2>2, <2>3 DEF Untold
    <2> QED BY <2>1, <2>2, <2>3, <2>4, <2>5 DEF SweepGoesOn, Sweeping
  <1>2. ASSUME NEW p \in Procs, ModeLate(t, p) \/ ModeUnanswered(t, p)
        PROVE  SweepGoesOn(t)
    <2>1. Return(t, "thrown")
      BY <1>2 DEF ModeLate, ModeUnanswered
    <2>2. /\ th'[t].at = "thrown" /\ th'[t].job = th[t].job
          /\ th'[t].mode = th[t].mode
      BY <1>0, <2>1 DEF Return, ThreadRecs
    <2> QED BY <2>2 DEF SweepGoesOn, Sweeping
  <1>3. CASE ModeDone(t)
    <2>1. th[t].at = "mode" /\ th[t].todo = {} /\ Return(t, "ok")
      BY <1>3 DEF ModeDone
    <2>2. th'[t].job = th[t].job /\ th'[t].mode = th[t].mode
      BY <1>0, <2>1 DEF Return, ThreadRecs
    <2>3. Untold(t) = {}
      BY <2>1 DEF Untold
    <2> QED BY <2>1, <2>2, <2>3 DEF SweepGoesOn, Sweeping
  <1> QED BY <1>1, <1>2, <1>3 DEF ApplyMode

\* start_one_, stop_one_ and refresh_child_status_ keep to the job they serve; the
\* poller has none.
LEMMA CallJob ==
  ASSUME ThreadsOK, NEW t \in Threads, StartOne(t) \/ StopOne(t) \/ Refresh(t)
  PROVE  th'[t].job \in {th[t].job, "idle"}
  <1>0. th[t] \in ThreadRecs /\ t \in DOMAIN th
    BY ThreadFacts DEF ThreadsOK
  <1>1. CASE StartOne(t)
    <2>1. CASE \/ StartAlready(t) \/ StartProceeds(t) \/ MarkStarting(t)
               \/ \E d \in Procs :
                    PingAnswered(t, d) \/ PingNotRunning(t, d) \/ PingUnanswered(t, d)
      BY <1>0, <2>1 DEF StartAlready, StartProceeds, PingAnswered, PingNotRunning,
         PingUnanswered, MarkStarting, Goto, Return, ThreadRecs
    <2>2. CASE Fork(t) \/ ForkFails(t) \/ LookReady(t) \/ LookGone(t) \/ LookAgain(t)
      BY <1>0, <2>2 DEF Fork, ForkFails, LookReady, LookGone, LookAgain, Goto, Return,
         ThreadRecs
    <2>3. CASE WaitExpires(t) \/ Finish(t)
      BY <1>0, <2>3 DEF WaitExpires, Finish, Goto, Return,
         ThreadRecs
    <2> QED BY <1>1, <2>1, <2>2, <2>3 DEF StartOne
  <1>2. CASE StopOne(t)
    BY <1>0, <1>2 DEF StopOne, StopNothing, StopSignal, StopDone, StopEscalate,
       StopTimeout, Goto, Return, ThreadRecs
  <1>3. CASE Refresh(t)
    <2>1. ASSUME NEW p \in Procs, NEW a, Saw(t, p, a) PROVE th'[t].job = th[t].job
      BY <1>0, <2>1 DEF Saw, ThreadRecs
    <2>2. Refreshed(t) => th'[t].job \in {th[t].job, "idle"}
      BY <1>0 DEF Refreshed, Rest, Become, Resting, ThreadRecs
    <2>3. Refreshed(t) \/ \E p \in Procs : \E a : Saw(t, p, a)
      BY <1>3 DEF Refresh, AskDown, AskAnswered, AskUnanswered, CommitDown,
         CommitSilent, CommitStatus
    <2> QED BY <2>1, <2>2, <2>3
  <1> QED BY <1>1, <1>2, <1>3

\* In these functions no thread is on a sweep.
LEMMA CallSweep ==
  ASSUME TypeOK, Posted, NEW t \in Threads, Call(t)
  PROVE  SweepGoesOn(t)
  <1> USE TypeParts
  <1>1. CASE StartOne(t) \/ StopOne(t) \/ Refresh(t)
    <2>1. \/ th[t].at \in StartPoints \cup StopPoints
          \/ th[t].job = "idle"
      BY <1>1 DEF StartOne, StartAlready, StartProceeds, PingAnswered, PingNotRunning,
         PingUnanswered, MarkStarting, Fork, ForkFails, LookReady, LookGone, LookAgain,
         WaitExpires, Finish, StartPoints, StopOne, StopNothing,
         StopSignal, StopDone, StopEscalate, StopTimeout, StopPoints, Refresh, AskDown,
         AskAnswered, AskUnanswered, Asks, CommitDown, CommitSilent, CommitStatus
    <2>2. ~Sweeping(t)
      BY <2>1 DEF Posted, Placed, PointsOf, Sweeping, SweepJobs, StartPoints,
                  StopPoints, Ends
    <2> QED BY <1>1, <2>2, CallJob DEF SweepGoesOn, Sweeping, SweepJobs
  <1>2. CASE ApplyMode(t)
    BY <1>2, ApplyModeSweep
  <1>3. CASE StopAll(t)
    BY <1>3, StopRestSweep, RestSweep DEF StopAll, StopAllSafe, StopAllNext,
       StopAllEnds, AfterStopAll, SweepJobs
  <1> QED BY <1>1, <1>2, <1>3 DEF Call

LEMMA ControlSweep ==
  ASSUME TypeOK, Accept \/ ControlJob
  PROVE  SweepGoesOn("control")
  <1> USE TypeParts
  <1>0. "control" \in Threads
    BY DEF Threads
  <1>1. ASSUME NEW j \in {"call", "restart"}, NEW f, NEW p, NEW s,
               CallFor("control", j, f, p, s)
        PROVE  SweepGoesOn("control")
    BY <1>0, <1>1, CallForSweep DEF SweepJobs
  <1>2. Rest("control", "idle") => SweepGoesOn("control")
    BY <1>0, RestSweep DEF SweepJobs
  <1>3. ASSUME NEW j, NEW m, NEW s, Sweep("control", j, m, s)
        PROVE  SweepGoesOn("control")
    BY <1>0, <1>3, SweepBegins
  <1>4. CASE Accept
    <2>1. CASE UNCHANGED th
      BY <1>0, <2>1, BecomesSweep DEF SweepGoesOn, Sweeping, Untold
    <2>2. CASE ~UNCHANGED th
      BY <1>1, <1>2, <1>3, <1>4, <2>2, StartRestSweep DEF Accept, CmdStartAlready,
         CmdStart, CmdStop, StopAllNothing, StopAllBegins, AfterStopAll, CmdStartProc,
         CmdStopProc, CmdRestart, CmdModeRefused, CmdMode
    <2> QED BY <2>1, <2>2
  <1>5. CASE ControlJob
    BY <1>0, <1>1, <1>2, <1>3, <1>5, StartRestSweep, StopRestSweep DEF ControlJob,
       StartAllNext, StartAllDone, StartAllSafe, StartAllUndo, UndoNext, UndoEnds,
       RestartStarts, Replied, SetModeDone
  <1> QED BY <1>4, <1>5

LEMMA MonitorSweep ==
  ASSUME TypeOK, MonitorJob
  PROVE  SweepGoesOn("monitor")
  <1> USE TypeParts
  <1>0. "monitor" \in Threads /\ th["monitor"] \in ThreadRecs
    BY ThreadFacts DEF Threads
  <1>1. CASE \E p \in Procs : MonitorLook(p)
    <2>1. PICK p \in Procs : MonitorLook(p)
      BY <1>1
    <2> DEFINE r == [Resting("waitpid") EXCEPT !.proc = p, !.pid = runtime[p].pid]
    <2>2. th' = [th EXCEPT !["monitor"] = r] /\ r.job = "waitpid"
      BY <2>1 DEF MonitorLook, Become, Resting
    <2> HIDE DEF r
    <2> QED BY <1>0, <2>2, BecomesSweep DEF SweepJobs
  <1>2. CASE MonitorReaps
    <2> DEFINE r == [th["monitor"] EXCEPT !.job = "account"]
    <2>1. th' = [th EXCEPT !["monitor"] = r] /\ r.job = "account"
      BY <1>0, <1>2 DEF MonitorReaps, ThreadRecs
    <2> HIDE DEF r
    <2> QED BY <1>0, <2>1, BecomesSweep DEF SweepJobs
  <1> QED BY <1>0, <1>1, <1>2, RestSweep, CallForSweep, SweepBegins DEF MonitorJob,
         MonitorNothing, AccountStopped, AccountCritical, AccountExited, AccountRestart,
         MonitorSafe, MonitorError, Revive, Revived, MonitorExits, SweepJobs

LEMMA MainSweep ==
  ASSUME TypeOK, MainJob \/ Shutdown
  PROVE  SweepGoesOn("main")
  <1> USE TypeParts
  <1>0. "main" \in Threads /\ th \in [Threads -> ThreadRecs]
    BY DEF Threads, ThreadsOK
  <1>1. CASE Launch \/ PokeKills
    <2>1. th'["main"].job \in {"sleep", "exited"}
      BY <1>0, <1>1 DEF Launch, PokeKills, Resting
    <2> QED BY <2>1 DEF SweepGoesOn, Sweeping, SweepJobs
  <1>2. CASE JoinControl
    <2>1. th'["main"].at = "mode" /\ th'["main"].todo = Procs
      BY <1>0, <1>2 DEF JoinControl, Resting
    <2> QED BY <2>1 DEF SweepGoesOn
  <1> QED BY <1>0, <1>1, <1>2, RestSweep, SweepBegins DEF MainJob, Shutdown, MainSafe,
         MainStops, StopAllNothing, StopAllBegins, AfterStopAll, StopBackground,
         JoinBackground, StopControl, SweepJobs

LEMMA ThreadAtRest ==
  ASSUME NEW t, th'[t] = th[t]
  PROVE  SweepGoesOn(t)
  BY DEF SweepGoesOn, Sweeping, Untold

\* Launch, PokeKills and JoinControl move other threads too, to no sweep.
LEMMA MainSweepOthers ==
  ASSUME TypeOK, MainJob \/ Shutdown, NEW t \in Threads \ {"main"}
  PROVE  SweepGoesOn(t)
  <1> USE TypeParts
  <1>0. th \in [Threads -> ThreadRecs]
    BY DEF ThreadsOK
  <1>1. CASE Launch \/ PokeKills \/ JoinControl
    <2>1. th'[t] = th[t] \/ th'[t].job \in {"scan", "idle", "exited"}
      BY <1>0, <1>1 DEF Launch, PokeKills, JoinControl, Resting
    <2> QED BY <2>1, ThreadAtRest DEF SweepGoesOn, Sweeping, SweepJobs
  <1>2. CASE ~(Launch \/ PokeKills \/ JoinControl)
    <2>1. th'[t] = th[t]
      BY <1>0, <1>2 DEF MainJob, Shutdown, MainSafe, MainStops, StopAllNothing,
         StopAllBegins, AfterStopAll, StopBackground, JoinBackground, StopControl,
         Rest, Sweep, Become
    <2> QED BY <2>1, ThreadAtRest
  <1> QED BY <1>1, <1>2

LEMMA SweepStep ==
  ASSUME TypeOK, Posted, [Next]_vars, NEW t \in Threads
  PROVE  SweepGoesOn(t)
  <1> USE TypeParts
  <1>1. CASE UNCHANGED th
    BY <1>1, ThreadAtRest
  <1>2. CASE Accept \/ ControlJob
    BY <1>2, ControlSweep, ControlMoves, ThreadAtRest DEF OnlyMoves
  <1>3. CASE MonitorJob
    BY <1>3, MonitorSweep, MonitorMoves, ThreadAtRest DEF OnlyMoves
  <1>4. CASE PollExits
    <2>1. CASE t = "poll"
      BY <1>4, <2>1, RestSweep DEF PollExits, SweepJobs
    <2>2. CASE t # "poll"
      BY <1>4, <2>2, ThreadAtRest DEF PollExits, Rest, Become, ThreadsOK
    <2> QED BY <2>1, <2>2
  <1>5. CASE \E u \in Threads : Call(u)
    BY <1>5, CallSweep, CallMoves, ThreadAtRest DEF OnlyMoves
  <1>6. CASE MainJob \/ Shutdown
    BY <1>6, MainSweep, MainSweepOthers
  <1> QED BY <1>1, <1>2, <1>3, <1>4, <1>5, <1>6 DEF Next, Terminated, vars

--------------------------------------------------------------------------
\* What a sweep has passed by.

LEMMA TellsSweeping ==
  ASSUME Posted, NEW t \in Threads, NEW p, Tells(t, p)
  PROVE  Sweeping(t) /\ th[t].at = "mode"
  BY DEF Tells, Visits, Posted, Placed, PointsOf, Sweeping, SweepJobs, StartPoints,
         StopPoints, Ends

LEMMA SweptStep ==
  ASSUME TypeOK, Posted, Owned, OneSweeper, Swept, [Next]_vars
  PROVE  Swept'
  <1> SUFFICES ASSUME NEW t \in Threads, Sweeping(t)', th'[t].at \in {"mode", "ok"},
                      NEW p \in Procs, p \notin Untold(t)', Listens(p)'
               PROVE  ModeOf(p)' \in {th'[t].mode, "INIT"}
    BY DEF Swept
  <1>1. SweepGoesOn(t)
    BY SweepStep
  <1>2. ~(th'[t].at = "mode" /\ th'[t].todo = Procs)
    BY DEF Untold
  <1>3. /\ Sweeping(t) /\ th'[t].mode = th[t].mode /\ th[t].at \in {"mode", "ok"}
        /\ p \in Untold(t) => (runtime[p].pid = 0 /\ UNCHANGED runtime) \/ Tells(t, p)
    BY <1>1, <1>2 DEF SweepGoesOn
  <1>4. \/ ModeOf(p)' = "INIT"
        \/ Listens(p) /\ ModeOf(p)' = ModeOf(p)
        \/ \E u \in Threads : Tells(u, p) /\ ModeOf(p)' = th[u].mode
    BY ListensStep
  <1>5. ASSUME NEW u \in Threads, Tells(u, p) PROVE u = t
    BY <1>3, <1>5, TellsSweeping DEF OneSweeper
  <1>6. CASE Tells(t, p)
    <2>1. ModeOf(p)' = th[t].mode
      <3>1. Told(p, th[t].mode) /\ UNCHANGED runtime
        BY <1>6 DEF Tells
      <3>2. sock[p] \in 1..Len(child) /\ child[sock[p]] \in ChildRecs
        BY <3>1, TypeParts, ChildFacts DEF Told, Answers
      <3>3. child'[sock[p]].mode = th[t].mode
        BY <3>1, <3>2, TypeParts, LenProperties DEF Told, ChildTypeOK, ChildRecs
      <3> QED BY <3>1, <3>3 DEF Listens, Told, ModeOf
    <2> QED BY <1>3, <2>1
  <1>7. CASE ~Tells(t, p)
    <2>1. \/ ModeOf(p)' = "INIT"
          \/ Listens(p) /\ ModeOf(p)' = ModeOf(p)
      BY <1>4, <1>5, <1>7
    <2>2. CASE p \in Untold(t)
      BY <1>3, <1>7, <2>2 DEF Listens, Recorded
    <2>3. CASE p \notin Untold(t)
      BY <1>3, <2>1, <2>3 DEF Swept
    <2> QED BY <2>2, <2>3
  <1> QED BY <1>6, <1>7

LEMMA NobodySweepsFirst == Init => Swept
  <1>1. ASSUME Init PROVE \A t \in Threads : ~Sweeping(t)
    BY <1>1 DEF Init, Threads, Sweeping, SweepJobs, Resting
  <1> QED BY <1>1 DEF Swept

\* While one thread at a time is on a sweep, set_mode_all() that ends without an
\* exception has brought every process that listens to its mode, but for those
\* that were started since it was their turn: no crash, restart or late answer
\* and no process without a pid breaks that.
THEOREM ModesReached == Spec /\ []OneSweeper => ModeReached
  <1>1. TypeOK /\ Posted /\ Owned /\ OneSweeper /\ Swept /\ [Next]_vars => Swept'
    BY SweptStep
  <1>2. Swept => (SetModeDone =>
                    \A p \in Procs : Listens(p) => ModeOf(p) \in {th["control"].mode, "INIT"})
    BY DEF Swept, SetModeDone, Untold, Sweeping, SweepJobs, Threads
  <1> QED BY <1>1, <1>2, NobodySweepsFirst, TypeCorrect, ThreadsPosted, ChildrenOwned, PTL
          DEF Spec, ModeReached

--------------------------------------------------------------------------
\* Actuators last on, first off.

LEMMA SweepOrder ==
  ASSUME NEW t, NEW p \in Procs, NEW q \in Procs, Visits(t, p),
         IF th[t].mode \in {"SAFE", "IDLE"}
         THEN Role[p] # "Actuator" /\ Role[q] = "Actuator"
         ELSE Role[p] = "Actuator" /\ Role[q] # "Actuator"
  PROVE  th[t].at = "mode" /\ q \notin th[t].todo
  <1>1. Role[p] \in Roles /\ Role[q] \in Roles
    BY SpecsAssumption
  <1>2. ~VisitedBefore(th[t].mode, p, q)
    BY <1>1 DEF VisitedBefore, RoleRank, Roles
  <1> QED BY <1>2 DEF Visits

LEMMA ActuatorsStep ==
  ASSUME TypeOK, Posted, Owned, OneSweeper, Swept, ActuatorsLastOnFirstOff,
         [Next]_vars
  PROVE  ActuatorsLastOnFirstOff'
  <1> SUFFICES ASSUME NEW x \in Procs, NEW q \in Procs,
                      Role[x] = "Actuator", Listens(x)', ModeOf(x)' \in ActiveModes,
                      Role[q] # "Actuator", Listens(q)', ModeOf(q)' \in {"SAFE", "IDLE"}
               PROVE  FALSE
    BY DEF ActuatorsLastOnFirstOff, ActiveModes
  <1>1. /\ Listens(x)
        /\ \/ ModeOf(x)' = ModeOf(x)
           \/ \E t \in Threads : Tells(t, x) /\ ModeOf(x)' = th[t].mode
    BY ListensStep DEF ActiveModes
  <1>2. /\ Listens(q)
        /\ \/ ModeOf(q)' = ModeOf(q)
           \/ \E t \in Threads : Tells(t, q) /\ ModeOf(q)' = th[t].mode
    BY ListensStep
  <1>3. ASSUME NEW t \in Threads, Tells(t, x), ModeOf(x)' = th[t].mode,
               ModeOf(q)' = ModeOf(q)
        PROVE  FALSE
    <2>1. Sweeping(t) /\ th[t].at = "mode"
      BY <1>3, TellsSweeping
    <2>2. q \notin th[t].todo
      BY <1>3, SweepOrder DEF Tells, ActiveModes
    <2>3. ModeOf(q) \in {th[t].mode, "INIT"}
      BY <1>2, <2>1, <2>2 DEF Swept, Untold
    <2> QED BY <1>3, <2>3 DEF ActiveModes
  <1>4. ASSUME NEW t \in Threads, Tells(t, q), ModeOf(q)' = th[t].mode,
               ModeOf(x)' = ModeOf(x)
        PROVE  FALSE
    <2>1. Sweeping(t) /\ th[t].at = "mode"
      BY <1>4, TellsSweeping
    <2>2. x \notin th[t].todo
      BY <1>4, SweepOrder DEF Tells
    <2>3. ModeOf(x) \in {th[t].mode, "INIT"}
      BY <1>1, <2>1, <2>2 DEF Swept, Untold
    <2> QED BY <1>4, <2>3 DEF ActiveModes
  <1>5. ASSUME NEW t \in Threads, NEW u \in Threads, Tells(t, x), Tells(u, q),
               ModeOf(x)' = th[t].mode, ModeOf(q)' = th[u].mode
        PROVE  FALSE
    BY <1>5, TellsSweeping DEF OneSweeper, ActiveModes
  <1> QED BY <1>1, <1>2, <1>3, <1>4, <1>5 DEF ActuatorsLastOnFirstOff

\* While one thread at a time is on a sweep, no actuator is in an active mode
\* next to a sensor or compute process in SAFE or IDLE, whatever the roles, the
\* dependencies and the number of processes.
THEOREM ActuatorsOrdered == Spec /\ []OneSweeper => []ActuatorsLastOnFirstOff
  <1>1. Init => ActuatorsLastOnFirstOff
    BY DEF Init, NewRuntime, ActuatorsLastOnFirstOff, Listens, Recorded
  <1>2. TypeOK /\ Posted /\ Owned /\ OneSweeper /\ Swept /\ [Next]_vars => Swept'
    BY SweptStep
  <1>3. TypeOK /\ Posted /\ Owned /\ OneSweeper /\ Swept /\ ActuatorsLastOnFirstOff
          /\ [Next]_vars => ActuatorsLastOnFirstOff'
    BY ActuatorsStep
  <1> QED BY <1>1, <1>2, <1>3, NobodySweepsFirst, TypeCorrect, ThreadsPosted,
             ChildrenOwned, PTL DEF Spec

--------------------------------------------------------------------------
\* When only the control thread sweeps: no process is critical, so the monitor
\* never enters SAFE, and the program is not told to end.

Undisturbed == (\A p \in Procs : ~Critical[p]) /\ "shutdown" \notin Ops

ControlOnly ==
  /\ th["main"].job \in {"launch", "sleep"}
  /\ th["monitor"].job # "safe"

LEMMA ControlOnlyStep ==
  ASSUME Undisturbed, TypeOK, Posted, ControlOnly, [Next]_vars
  PROVE  ControlOnly'
  <1> USE TypeParts
  <1>0. /\ "main" \in Threads /\ "monitor" \in Threads
        /\ "main" # "monitor" /\ th \in [Threads -> ThreadRecs]
    BY DEF Threads, ThreadsOK
  <1>1. CASE UNCHANGED th
    BY <1>1 DEF ControlOnly
  <1>2. CASE Accept \/ ControlJob \/ PollExits
    <2>1. th'["main"] = th["main"] /\ th'["monitor"] = th["monitor"]
      BY <1>0, <1>2, ControlMoves
         DEF OnlyMoves, PollExits, Rest, Become, Threads
    <2> QED BY <2>1 DEF ControlOnly
  <1>3. CASE MonitorJob
    <2>1. th'["main"] = th["main"]
      BY <1>0, <1>3, MonitorMoves DEF OnlyMoves
    <2>2. ~AccountCritical
      <3>1. AccountCritical => th["monitor"].job = "account"
        BY DEF AccountCritical, Account
      <3>2. th["monitor"].job = "account" => th["monitor"].proc \in Procs
        BY <1>0, ThreadFacts DEF Fits, NamedJobs
      <3> QED BY <3>1, <3>2 DEF AccountCritical, Undisturbed
    <2>3. ~MonitorSafe
      BY DEF MonitorSafe, ControlOnly
    <2>4. th'["monitor"].job # "safe"
      <3>1. ASSUME NEW p \in Procs, MonitorLook(p) PROVE th'["monitor"].job = "waitpid"
        BY <1>0, <3>1 DEF MonitorLook, Become, Resting
      <3>2. MonitorReaps => th'["monitor"].job = "account"
        BY <1>0 DEF MonitorReaps, ThreadRecs
      <3>3. ASSUME NEW j \in {"scan", "exited"}, Rest("monitor", j)
            PROVE  th'["monitor"].job = j
        BY <1>0, <3>3 DEF Rest, Become, Resting
      <3>4. ASSUME NEW j \in {"backoff", "revive"}, NEW f, NEW p,
                   CallFor("monitor", j, f, p, <<>>)
            PROVE  th'["monitor"].job = j
        BY <1>0, <3>4 DEF CallFor, Become, Resting
      <3> QED BY <1>3, <2>2, <2>3, <3>1, <3>2, <3>3, <3>4 DEF MonitorJob,
             MonitorNothing, AccountStopped, AccountExited, AccountRestart,
             MonitorError, Revive, Revived, MonitorExits
    <2> QED BY <2>1, <2>4 DEF ControlOnly
  <1>4. CASE MainJob \/ Shutdown
    <2>1. Launch
      BY <1>4 DEF Undisturbed, ControlOnly, Shutdown, MainJob, MainSafe, MainStops,
         StopBackground, JoinBackground, PokeKills, StopControl, JoinControl
    <2>2. th'["main"].job = "sleep" /\ th'["monitor"].job \in {"scan", "exited"}
      BY <1>0, <2>1 DEF Launch, Resting
    <2> QED BY <2>2 DEF ControlOnly
  <1>5. ASSUME NEW t \in Threads, Call(t) PROVE ControlOnly'
    <2>1. th[t].at = "mode" \/ StopAll(t) => Sweeping(t) \/ th[t].job = "stop_all"
      BY DEF Posted, Placed, PointsOf, Sweeping, SweepJobs, StartPoints, StopPoints,
             Ends, StopAll, StopAllSafe, StopAllNext, StopAllEnds
    <2>2. CASE t = "main"
      <3>1. th["main"].at = "none" /\ ~Sweeping("main") /\ th["main"].job # "stop_all"
        BY <1>0 DEF ControlOnly, Posted, Placed, PointsOf, Sweeping, SweepJobs
      <3>2. ~StopOne("main")
        BY <3>1 DEF StopOne, StopNothing, StopSignal, StopDone, StopEscalate, StopTimeout
      <3>3. ~ApplyMode("main")
        BY <3>1 DEF ApplyMode, ModeSkip, ModeTold, ModeLate, ModeUnanswered, ModeDone,
                    Visits
      <3> QED BY <1>5, <2>1, <2>2, <3>1, <3>2, <3>3, MainCalls
    <2>3. CASE t = "monitor"
      <3>1. ~Sweeping("monitor") /\ th["monitor"].job # "stop_all"
        BY <1>0 DEF ControlOnly, Posted, Placed, JobsOf, Sweeping, SweepJobs
      <3>2. ~ApplyMode("monitor") /\ ~StopAll("monitor")
        BY <2>1, <2>3, <3>1 DEF ApplyMode, ModeSkip, ModeTold, ModeLate,
           ModeUnanswered, ModeDone, Visits
      <3>3. th'["monitor"].job # "safe"
        BY <1>5, <2>3, <3>2, CallJob DEF Call, ControlOnly
      <3> QED BY <1>0, <1>5, <2>3, <3>3, CallMoves DEF OnlyMoves, ControlOnly
    <2>4. CASE t \notin {"main", "monitor"}
      BY <1>0, <1>5, <2>4, CallMoves DEF OnlyMoves, ControlOnly
    <2> QED BY <2>2, <2>3, <2>4
  <1> QED BY <1>1, <1>2, <1>3, <1>4, <1>5 DEF Next, Terminated, vars

LEMMA ControlOnlyAlone ==
  ASSUME Posted, ControlOnly
  PROVE  OneSweeper
  <1>1. ASSUME NEW t \in Threads, Sweeping(t) PROVE t = "control"
    BY <1>1 DEF Posted, Placed, JobsOf, Sweeping, SweepJobs, ControlOnly, Threads
  <1> QED BY <1>1 DEF OneSweeper

\* Without critical processes and until the program is told to end only the
\* control thread sweeps, one command at a time: then no two sweeps overlap ...
THEOREM ControlSweepsAlone ==
  ASSUME Undisturbed
  PROVE  Spec => []OneSweeper
  <1>1. Init => ControlOnly
    BY DEF Init, ControlOnly, Resting
  <1>2. TypeOK /\ Posted /\ ControlOnly /\ [Next]_vars => ControlOnly'
    BY ControlOnlyStep
  <1>3. Posted /\ ControlOnly => OneSweeper
    BY ControlOnlyAlone
  <1> QED BY <1>1, <1>2, <1>3, TypeCorrect, ThreadsPosted, PTL DEF Spec

\* ... and every mode command keeps the actuators last on and first off.
THEOREM ActuatorsOrderedUndisturbed ==
  ASSUME Undisturbed
  PROVE  Spec => []ActuatorsLastOnFirstOff
  BY ControlSweepsAlone, ActuatorsOrdered, PTL

\* So it does with what set_mode_all() promises.
THEOREM ModesReachedUndisturbed ==
  ASSUME Undisturbed
  PROVE  Spec => ModeReached
  BY ControlSweepsAlone, ModesReached, PTL
==========================================================================
