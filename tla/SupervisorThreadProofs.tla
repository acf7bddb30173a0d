---------------------- MODULE SupervisorThreadProofs ----------------------
(***************************************************************************)
(* Where each thread of the supervisor can be: which jobs it ever has, and *)
(* which points of which functions a job takes it to (Posted).  The main   *)
(* and the poll thread never start or stop a process on their own account, *)
(* the monitor starts those it may restart, and the rest is the control    *)
(* thread's.                                                               *)
(***************************************************************************)
EXTENDS SupervisorRecordProofs

StartPoints == {"start_one", "ping", "fork", "ask", "commit", "look", "finish"}
StopPoints == {"stop_one", "term", "kill"}
Ends == {"ok", "thrown"}

JobsOf(t) ==
  CASE t = "control" -> {"idle", "exited", "start_all", "start_safe", "undo",
                         "call", "restart", "set_mode", "stop_safe", "stop_all"}
    [] t = "monitor" -> {"new", "exited", "scan", "waitpid", "account", "safe",
                         "error", "backoff", "revive"}
    [] t = "poll" -> {"new", "idle", "exited"}
    [] OTHER -> {"launch", "sleep", "main_safe", "main_stop", "stop_safe",
                 "stop_all", "stop_bg", "join_bg", "stop_control",
                 "join_control", "exited"}

PointsOf(j) ==
  CASE j \in {"start_all", "revive"} -> StartPoints \cup Ends
    [] j = "call" -> StartPoints \cup StopPoints \cup Ends
    [] j \in {"undo", "restart", "stop_all"} -> StopPoints \cup Ends
    [] j \in SweepJobs -> {"mode"} \cup Ends
    [] j = "idle" -> {"none", "commit"}
    [] OTHER -> {"none"}

\* Thread t can be where its record r says, and restarts what it may restart.
Placed(t, r) ==
  /\ r.job \in JobsOf(t)
  /\ r.at \in PointsOf(r.job)
  /\ r.job \in {"backoff", "revive"} => MayRestart(r.proc)

Posted == \A t \in Threads : Placed(t, th[t])

--------------------------------------------------------------------------
\* Thread steps.

LEMMA PlacedStep ==
  ASSUME ThreadsOK, Posted, NEW t \in Threads, NEW r, th' = [th EXCEPT ![t] = r],
         Placed(t, r)
  PROVE  Posted'
  <1>1. \A u \in Threads : th'[u] = IF u = t THEN r ELSE th[u]
    BY DEF ThreadsOK
  <1>2. \A u \in Threads : Placed(u, th'[u])
    BY <1>1 DEF Posted
  <1> QED BY <1>2 DEF Posted, Placed

LEMMA RestPosted ==
  ASSUME ThreadsOK, Posted, NEW t \in Threads, NEW j \in JobsOf(t),
         "none" \in PointsOf(j), j # "backoff", Rest(t, j)
  PROVE  Posted'
  <1> DEFINE r == Resting(j)
  <1>1. th' = [th EXCEPT ![t] = r] /\ r.job = j /\ r.at = "none"
    BY DEF Rest, Become, Resting
  <1>2. j # "revive"
    BY DEF PointsOf, StartPoints, Ends
  <1> HIDE DEF r
  <1> QED BY <1>1, <1>2, PlacedStep DEF Placed

LEMMA CallForPosted ==
  ASSUME ThreadsOK, Posted, NEW t \in Threads, NEW j \in JobsOf(t),
         NEW f \in PointsOf(j), NEW p, NEW s, CallFor(t, j, f, p, s),
         j \in {"backoff", "revive"} => MayRestart(p)
  PROVE  Posted'
  <1> DEFINE r == [Resting(j) EXCEPT !.at = f, !.proc = p, !.rest = s]
  <1>1. th' = [th EXCEPT ![t] = r] /\ r.job = j /\ r.at = f /\ r.proc = p
    BY DEF CallFor, Become, Resting
  <1> HIDE DEF r
  <1> QED BY <1>1, PlacedStep DEF Placed

LEMMA SweepPosted ==
  ASSUME ThreadsOK, Posted, NEW t \in Threads, NEW j \in JobsOf(t) \cap SweepJobs,
         NEW m, NEW s, Sweep(t, j, m, s)
  PROVE  Posted'
  <1> DEFINE r == [Resting(j) EXCEPT !.at = "mode", !.mode = m, !.todo = Procs,
                                     !.rest = s]
  <1>1. th' = [th EXCEPT ![t] = r] /\ r.job = j /\ r.at = "mode"
    BY DEF Sweep, Become, Resting
  <1>2. "mode" \in PointsOf(j) /\ j \notin {"backoff", "revive"}
    BY DEF PointsOf, SweepJobs
  <1> HIDE DEF r
  <1> QED BY <1>1, <1>2, PlacedStep DEF Placed

LEMMA ListEndedPosted ==
  ASSUME ThreadsOK, Posted, NEW t \in Threads,
         NEW j \in JobsOf(t) \cap {"start_all", "undo", "stop_all"},
         Become(t, [Resting(j) EXCEPT !.at = "ok"])
  PROVE  Posted'
  <1> DEFINE r == [Resting(j) EXCEPT !.at = "ok"]
  <1>1. th' = [th EXCEPT ![t] = r] /\ r.job = j /\ r.at = "ok"
    BY DEF Become, Resting
  <1>2. "ok" \in PointsOf(j)
    BY DEF PointsOf, Ends
  <1> HIDE DEF r
  <1> QED BY <1>1, <1>2, PlacedStep DEF Placed

\* Within a call the thread stays on its job and its process.
LEMMA WithinPosted ==
  ASSUME ThreadsOK, Posted, NEW t \in Threads, NEW r, th' = [th EXCEPT ![t] = r],
         r.job = th[t].job, r.proc = th[t].proc, r.at \in PointsOf(th[t].job)
  PROVE  Posted'
  BY PlacedStep DEF Placed, Posted

LEMMA GoesPosted ==
  ASSUME ThreadsOK, Posted, NEW t \in Threads, NEW l \in PointsOf(th[t].job),
         Goto(t, l) \/ Return(t, l)
  PROVE  Posted'
  <1>0. th[t] \in ThreadRecs
    BY ThreadFacts
  <1>1. CASE Goto(t, l)
    <2> DEFINE r == [th[t] EXCEPT !.at = l]
    <2>1. /\ th' = [th EXCEPT ![t] = r] /\ r.job = th[t].job /\ r.proc = th[t].proc
          /\ r.at = l
      BY <1>0, <1>1 DEF Goto, ThreadRecs
    <2> HIDE DEF r
    <2> QED BY <2>1, WithinPosted
  <1>2. CASE Return(t, l)
    <2> DEFINE r == [th[t] EXCEPT !.at = l, !.pid = 0, !.todo = {}, !.seen = "none"]
    <2>1. /\ th' = [th EXCEPT ![t] = r] /\ r.job = th[t].job /\ r.proc = th[t].proc
          /\ r.at = l
      BY <1>0, <1>2 DEF Return, ThreadRecs
    <2> HIDE DEF r
    <2> QED BY <2>1, WithinPosted
  <1> QED BY <1>1, <1>2

\* The function a thread is in belongs to its job.
LEMMA WhichCall ==
  ASSUME ThreadsOK, Posted, NEW t \in Threads
  PROVE  /\ th[t].at \in StartPoints /\ ~(t = "poll" /\ th[t].at = "commit") =>
              StartPoints \cup Ends \subseteq PointsOf(th[t].job)
         /\ th[t].at \in StopPoints =>
              StopPoints \cup Ends \subseteq PointsOf(th[t].job)
         /\ th[t].at = "mode" => {"mode"} \cup Ends \subseteq PointsOf(th[t].job)
  <1>1. th[t].at \in PointsOf(th[t].job)
    BY DEF Posted, Placed
  <1>2. th[t].job = "idle" /\ t # "poll" => th[t].at = "none"
    BY ThreadFacts DEF Fits
  <1> QED BY <1>1, <1>2 DEF PointsOf, StartPoints, StopPoints, Ends, SweepJobs

LEMMA StartOnePosted ==
  ASSUME TypeOK, Posted, NEW t \in Threads, StartOne(t)
  PROVE  Posted'
  <1> USE TypeParts
  <1>0. th[t] \in ThreadRecs
    BY ThreadFacts
  <1>1. th[t].at \in StartPoints /\ th[t].at # "commit"
    BY DEF StartOne, StartAlready, StartProceeds, PingAnswered, PingNotRunning,
       PingUnanswered, MarkStarting, Fork, ForkFails, LookReady, LookGone, LookAgain,
       WaitExpires, Finish, StartPoints
  <1>2. StartPoints \cup Ends \subseteq PointsOf(th[t].job)
    BY <1>1, WhichCall
  <1>3. \/ \E l \in StartPoints \cup Ends : Goto(t, l) \/ Return(t, l)
        \/ StartProceeds(t) \/ \E d \in Procs : PingAnswered(t, d)
    BY DEF StartOne, StartAlready, PingNotRunning, PingUnanswered, MarkStarting, Fork,
       ForkFails, LookReady, LookGone, LookAgain, WaitExpires,
       Finish, StartPoints, Ends
  <1>4. CASE StartProceeds(t)
    <2> DEFINE r == [th[t] EXCEPT !.at = "ping", !.todo = Deps[th[t].proc]]
    <2>1. /\ th' = [th EXCEPT ![t] = r] /\ r.job = th[t].job /\ r.proc = th[t].proc
          /\ r.at = "ping"
      BY <1>0, <1>4 DEF StartProceeds, ThreadRecs
    <2> HIDE DEF r
    <2> QED BY <1>2, <2>1, WithinPosted DEF StartPoints
  <1>5. ASSUME NEW d \in Procs, PingAnswered(t, d) PROVE Posted'
    <2> DEFINE r == [th[t] EXCEPT !.todo = @ \ {d}]
    <2>1. /\ th' = [th EXCEPT ![t] = r] /\ r.job = th[t].job /\ r.proc = th[t].proc
          /\ r.at = "ping"
      BY <1>0, <1>5 DEF PingAnswered, ThreadRecs
    <2> HIDE DEF r
    <2> QED BY <1>2, <2>1, WithinPosted DEF StartPoints
  <1> QED BY <1>2, <1>3, <1>4, <1>5, GoesPosted

LEMMA RefreshPosted ==
  ASSUME TypeOK, Posted, NEW t \in Threads, Refresh(t)
  PROVE  Posted'
  <1> USE TypeParts
  <1>0. th[t] \in ThreadRecs /\ Placed(t, th[t])
    BY ThreadFacts DEF Posted
  <1>1. ASSUME NEW p \in Procs, NEW a, Asks(t, p), Saw(t, p, a) PROVE Posted'
    <2> DEFINE r == [th[t] EXCEPT !.at = "commit", !.proc = p, !.seen = a]
    <2>1. /\ th' = [th EXCEPT ![t] = r] /\ r.job = th[t].job /\ r.proc = p
          /\ r.at = "commit"
      BY <1>0, <1>1 DEF Saw, ThreadRecs
    <2>2. \/ th[t].proc = p
          \/ th[t].job = "idle"
      BY <1>1 DEF Asks
    <2>3. "commit" \in PointsOf(th[t].job)
      <3>1. CASE th[t].at = "ask"
        BY <3>1, WhichCall DEF StartPoints
      <3>2. CASE th[t].job = "idle"
        BY <3>2 DEF PointsOf, SweepJobs
      <3> QED BY <1>1, <3>1, <3>2 DEF Asks
    <2> HIDE DEF r
    <2> QED BY <1>0, <2>1, <2>2, <2>3, PlacedStep DEF Placed
  <1>2. CASE t = "poll" /\ Refreshed(t)
    BY <1>2, RestPosted DEF Refreshed, JobsOf, PointsOf, SweepJobs
  <1>3. CASE t # "poll" /\ th[t].at = "commit" /\ Refreshed(t)
    <2> DEFINE r == [th[t] EXCEPT !.at = "look", !.seen = "none"]
    <2>1. /\ th' = [th EXCEPT ![t] = r] /\ r.job = th[t].job /\ r.proc = th[t].proc
          /\ r.at = "look"
      BY <1>0, <1>3 DEF Refreshed, ThreadRecs
    <2>2. "look" \in PointsOf(th[t].job)
      BY <1>3, WhichCall DEF StartPoints
    <2> HIDE DEF r
    <2> QED BY <2>1, <2>2, WithinPosted
  <1>4. \/ \E p \in Procs : \E a : Asks(t, p) /\ Saw(t, p, a)
        \/ th[t].at = "commit" /\ Refreshed(t)
    BY DEF Refresh, AskDown, AskAnswered, AskUnanswered, CommitDown, CommitSilent,
           CommitStatus
  <1> QED BY <1>1, <1>2, <1>3, <1>4

LEMMA StopOnePosted ==
  ASSUME TypeOK, Posted, NEW t \in Threads, StopOne(t)
  PROVE  Posted'
  <1> USE TypeParts
  <1>0. th[t] \in ThreadRecs
    BY ThreadFacts
  <1>1. StopPoints \cup Ends \subseteq PointsOf(th[t].job)
    BY WhichCall DEF StopOne, StopNothing, StopSignal, StopDone, StopEscalate,
                     StopTimeout, StopPoints
  <1>2. CASE StopSignal(t)
    <2> DEFINE r == [th[t] EXCEPT !.at = "term", !.pid = runtime[th[t].proc].pid]
    <2>1. /\ th' = [th EXCEPT ![t] = r] /\ r.job = th[t].job /\ r.proc = th[t].proc
          /\ r.at = "term"
      BY <1>0, <1>2 DEF StopSignal, ThreadRecs
    <2> HIDE DEF r
    <2> QED BY <1>1, <2>1, WithinPosted DEF StopPoints
  <1>3. CASE ~StopSignal(t)
    <2>1. \E l \in StopPoints \cup Ends : Goto(t, l) \/ Return(t, l)
      BY <1>3 DEF StopOne, StopNothing, StopDone, StopEscalate, StopTimeout,
                  StopPoints, Ends
    <2> QED BY <1>1, <2>1, GoesPosted
  <1> QED BY <1>2, <1>3

LEMMA ApplyModePosted ==
  ASSUME TypeOK, Posted, NEW t \in Threads, ApplyMode(t)
  PROVE  Posted'
  <1> USE TypeParts
  <1>0. th[t] \in ThreadRecs
    BY ThreadFacts
  <1>1. {"mode"} \cup Ends \subseteq PointsOf(th[t].job)
    BY WhichCall DEF ApplyMode, ModeSkip, ModeTold, ModeLate, ModeUnanswered,
                     ModeDone, Visits
  <1>2. ASSUME NEW p \in Procs, ModeSkip(t, p) \/ ModeTold(t, p) PROVE Posted'
    <2> DEFINE r == [th[t] EXCEPT !.todo = @ \ {p}]
    <2>1. /\ th' = [th EXCEPT ![t] = r] /\ r.job = th[t].job /\ r.proc = th[t].proc
          /\ r.at = "mode"
      BY <1>0, <1>2 DEF ModeSkip, ModeTold, Visits, ThreadRecs
    <2> HIDE DEF r
    <2> QED BY <1>1, <2>1, WithinPosted
  <1>3. ASSUME NEW p \in Procs, ModeLate(t, p) \/ ModeUnanswered(t, p) PROVE Posted'
    BY <1>1, <1>3, GoesPosted DEF ModeLate, ModeUnanswered, Ends
  <1>4. CASE ModeDone(t)
    BY <1>1, <1>4, GoesPosted DEF ModeDone, Ends
  <1> QED BY <1>2, <1>3, <1>4 DEF ApplyMode

LEMMA StopRestPosted ==
  ASSUME ThreadsOK, Posted, NEW t \in Threads,
         NEW j \in JobsOf(t) \cap {"undo", "stop_all"}, NEW s, StopRest(t, j, s)
  PROVE  Posted'
  <1>1. "stop_one" \in PointsOf(j) /\ j \notin {"backoff", "revive"}
    BY DEF PointsOf, StopPoints, SweepJobs
  <1> QED BY <1>1, ListEndedPosted, CallForPosted DEF StopRest

LEMMA StopAllPosted ==
  ASSUME TypeOK, Posted, NEW t \in Threads, StopAll(t)
  PROVE  Posted'
  <1> USE TypeParts
  <1>1. th[t].job \in {"stop_safe", "stop_all"} /\ th[t].job \in JobsOf(t)
    BY DEF StopAll, StopAllSafe, StopAllNext, StopAllEnds, Posted, Placed
  <1>2. t \in {"control", "main"} /\ "stop_all" \in JobsOf(t)
    BY <1>1 DEF JobsOf, Threads
  <1>3. CASE StopAllSafe(t) \/ StopAllNext(t)
    BY <1>2, <1>3, StopRestPosted DEF StopAllSafe, StopAllNext
  <1>4. CASE StopAllEnds(t)
    BY <1>2, <1>4, RestPosted DEF StopAllEnds, AfterStopAll, JobsOf, PointsOf, SweepJobs
  <1> QED BY <1>3, <1>4 DEF StopAll

LEMMA CallPosted ==
  ASSUME TypeOK, Posted, NEW t \in Threads, Call(t)
  PROVE  Posted'
  BY StartOnePosted, RefreshPosted, StopOnePosted, ApplyModePosted, StopAllPosted
     DEF Call

LEMMA StartRestPosted ==
  ASSUME ThreadsOK, Posted, NEW s, StartRest(s)
  PROVE  Posted'
  <1>1. /\ "control" \in Threads /\ "start_all" \in JobsOf("control")
        /\ "start_one" \in PointsOf("start_all")
    BY DEF Threads, JobsOf, PointsOf, StartPoints, SweepJobs
  <1> QED BY <1>1, ListEndedPosted, CallForPosted DEF StartRest

LEMMA ControlPosted ==
  ASSUME TypeOK, Posted, Accept \/ ControlJob
  PROVE  Posted'
  <1> USE TypeParts
  <1>0. "control" \in Threads
    BY DEF Threads
  <1>1. ASSUME NEW j \in {"idle", "exited"}, Rest("control", j) PROVE Posted'
    BY <1>0, <1>1, RestPosted DEF JobsOf, PointsOf, SweepJobs
  <1>2. ASSUME NEW j \in {"start_safe", "set_mode", "stop_safe"}, NEW m, NEW s,
               Sweep("control", j, m, s)
        PROVE  Posted'
    BY <1>0, <1>2, SweepPosted DEF JobsOf, SweepJobs
  <1>3. ASSUME NEW j \in {"call", "restart"}, NEW f \in {"start_one", "stop_one"},
               j = "call" \/ f = "stop_one", NEW p, NEW s,
               CallFor("control", j, f, p, s)
        PROVE  Posted'
    <2>1. j \in JobsOf("control") /\ f \in PointsOf(j) /\ j \notin {"backoff", "revive"}
      BY <1>3 DEF JobsOf, PointsOf, SweepJobs, StartPoints, StopPoints
    <2> QED BY <1>0, <1>3, <2>1, CallForPosted
  <1>4. CASE Accept
    <2>1. CASE CmdStart
      BY <2>1, StartRestPosted DEF CmdStart
    <2>2. CASE CmdStop
      <3>1. CASE StopAllBegins("control")
        BY <1>2, <3>1 DEF StopAllBegins
      <3>2. CASE StopAllNothing("control")
        BY <1>1, <3>2 DEF StopAllNothing, AfterStopAll
      <3> QED BY <2>2, <3>1, <3>2 DEF CmdStop
    <2>3. ASSUME NEW p \in Procs, CmdStartProc(p) \/ CmdStopProc(p) \/ CmdRestart(p)
          PROVE  Posted'
      BY <1>3, <2>3 DEF CmdStartProc, CmdStopProc, CmdRestart
    <2>4. ASSUME NEW m \in CmdModes, CmdMode(m) PROVE Posted'
      BY <1>2, <2>4 DEF CmdMode
    <2>5. CASE CmdStartAlready \/ \E m \in CmdModes : CmdModeRefused(m)
      BY <2>5 DEF CmdStartAlready, CmdModeRefused, Posted
    <2> QED BY <1>4, <2>1, <2>2, <2>3, <2>4, <2>5 DEF Accept
  <1>5. CASE ControlJob
    <2>1. CASE StartAllNext
      BY <2>1, StartRestPosted DEF StartAllNext
    <2>2. CASE StartAllDone
      BY <1>2, <2>2 DEF StartAllDone
    <2>3. CASE StartAllUndo \/ UndoNext
      <3>1. "undo" \in JobsOf("control")
        BY DEF JobsOf
      <3> QED BY <1>0, <2>3, <3>1, StopRestPosted DEF StartAllUndo, UndoNext
    <2>4. CASE RestartStarts
      BY <1>3, <2>4 DEF RestartStarts
    <2>5. CASE StartAllSafe \/ UndoEnds \/ Replied \/ SetModeDone
      BY <1>1, <2>5 DEF StartAllSafe, UndoEnds, Replied, SetModeDone
    <2> QED BY <1>5, <2>1, <2>2, <2>3, <2>4, <2>5 DEF ControlJob
  <1> QED BY <1>4, <1>5

LEMMA MonitorPosted ==
  ASSUME TypeOK, RestartBudget, Posted, MonitorJob
  PROVE  Posted'
  <1> USE TypeParts
  <1>0. "monitor" \in Threads /\ th["monitor"] \in ThreadRecs
    BY ThreadFacts DEF Threads
  <1>1. ASSUME NEW j \in {"scan", "error", "exited"}, Rest("monitor", j) PROVE Posted'
    BY <1>0, <1>1, RestPosted DEF JobsOf, PointsOf, SweepJobs
  <1>2. ASSUME NEW p \in Procs, MonitorLook(p) PROVE Posted'
    <2> DEFINE r == [Resting("waitpid") EXCEPT !.proc = p, !.pid = runtime[p].pid]
    <2>1. th' = [th EXCEPT !["monitor"] = r] /\ r.job = "waitpid" /\ r.at = "none"
      BY <1>2 DEF MonitorLook, Become, Resting
    <2> HIDE DEF r
    <2>2. Placed("monitor", r)
      BY <2>1 DEF Placed, JobsOf, PointsOf, SweepJobs
    <2> QED BY <1>0, <2>1, <2>2, PlacedStep
  <1>3. CASE MonitorReaps
    <2> DEFINE r == [th["monitor"] EXCEPT !.job = "account"]
    <2>1. /\ th' = [th EXCEPT !["monitor"] = r] /\ th["monitor"].job = "waitpid"
          /\ r.job = "account" /\ r.at = th["monitor"].at
      BY <1>0, <1>3 DEF MonitorReaps, ThreadRecs
    <2>2. r.at = "none"
      BY <1>0, <2>1, ThreadFacts DEF Fits, RestingJobs
    <2> HIDE DEF r
    <2>3. Placed("monitor", r)
      BY <2>1, <2>2 DEF Placed, JobsOf, PointsOf, SweepJobs
    <2> QED BY <1>0, <2>1, <2>3, PlacedStep
  <1>4. CASE AccountCritical
    BY <1>0, <1>4, SweepPosted DEF AccountCritical, JobsOf, SweepJobs
  <1>5. CASE AccountRestart
    <2> DEFINE p == th["monitor"].proc
    <2>1. CallFor("monitor", "backoff", "none", p, <<>>) /\ MayRestart(p)
      BY <1>5 DEF AccountRestart, ShouldRestart, MayRestart
    <2>2. "backoff" \in JobsOf("monitor") /\ "none" \in PointsOf("backoff")
      BY DEF JobsOf, PointsOf, SweepJobs
    <2> QED BY <1>0, <2>1, <2>2, CallForPosted
  <1>6. CASE Revive
    <2> DEFINE p == th["monitor"].proc
    <2>1. CallFor("monitor", "revive", "start_one", p, <<>>) /\ MayRestart(p)
      BY <1>6 DEF Revive, RestartBudget
    <2>2. "revive" \in JobsOf("monitor") /\ "start_one" \in PointsOf("revive")
      BY DEF JobsOf, PointsOf, SweepJobs, StartPoints
    <2> QED BY <1>0, <2>1, <2>2, CallForPosted
  <1>7. CASE MonitorNothing \/ AccountStopped \/ AccountExited \/ MonitorSafe
             \/ MonitorError \/ Revived \/ MonitorExits
    BY <1>1, <1>7 DEF MonitorNothing, AccountStopped, AccountExited, MonitorSafe,
                      MonitorError, Revived, MonitorExits
  <1> QED BY <1>2, <1>3, <1>4, <1>5, <1>6, <1>7 DEF MonitorJob

LEMMA MainPosted ==
  ASSUME TypeOK, Posted, MainJob \/ Shutdown
  PROVE  Posted'
  <1> USE TypeParts
  <1>0. Threads = {"control", "monitor", "poll", "main"}
    BY DEF Threads
  <1>1. ASSUME NEW j \in {"main_stop", "stop_bg", "join_bg", "stop_control",
                          "join_control", "exited"}, Rest("main", j)
        PROVE  Posted'
    BY <1>0, <1>1, RestPosted DEF JobsOf, PointsOf, SweepJobs
  <1>2. ASSUME NEW j \in {"main_safe", "stop_safe"}, NEW m, NEW s,
               Sweep("main", j, m, s)
        PROVE  Posted'
    BY <1>0, <1>2, SweepPosted DEF JobsOf, SweepJobs
  <1>3. ASSUME NEW t \in Threads, NEW j \in JobsOf(t),
               j \in {"sleep", "scan", "idle", "exited"}
        PROVE  Placed(t, Resting(j))
    BY <1>3 DEF Placed, PointsOf, SweepJobs, Resting
  <1>4. CASE Launch
    <2>1. /\ th'["main"] = Resting("sleep") /\ th'["control"] = th["control"]
          /\ th'["monitor"] \in {Resting("scan"), Resting("exited")}
          /\ th'["poll"] \in {Resting("idle"), Resting("exited")}
      BY <1>0, <1>4 DEF Launch, ThreadsOK
    <2>2. \A t \in Threads : Placed(t, th'[t])
      BY <1>0, <1>3, <2>1 DEF JobsOf, Posted
    <2> QED BY <2>2 DEF Posted, Placed
  <1>5. CASE PokeKills
    <2>1. /\ th'["main"] = Resting("exited") /\ th'["control"] = Resting("exited")
          /\ th'["monitor"] = th["monitor"] /\ th'["poll"] = th["poll"]
      BY <1>0, <1>5 DEF PokeKills, ThreadsOK
    <2>2. \A t \in Threads : Placed(t, th'[t])
      BY <1>0, <1>3, <2>1 DEF JobsOf, Posted
    <2> QED BY <2>2 DEF Posted, Placed
  <1>6. CASE JoinControl
    <2> DEFINE r == [Resting("main_safe") EXCEPT !.at = "mode", !.mode = "SAFE",
                                                 !.todo = Procs]
    <2>1. /\ th' = [th EXCEPT !["control"] = Resting("exited"), !["main"] = r]
          /\ r.job = "main_safe" /\ r.at = "mode"
      BY <1>6 DEF JoinControl, Resting
    <2> HIDE DEF r
    <2>2. /\ th'["main"] = r /\ th'["control"] = Resting("exited")
          /\ th'["monitor"] = th["monitor"] /\ th'["poll"] = th["poll"]
      BY <1>0, <2>1 DEF ThreadsOK
    <2>3. Placed("main", r)
      BY <2>1 DEF Placed, JobsOf, PointsOf, SweepJobs
    <2>4. \A t \in Threads : Placed(t, th'[t])
      BY <1>0, <1>3, <2>2, <2>3 DEF JobsOf, Posted
    <2> QED BY <2>4 DEF Posted, Placed
  <1>7. CASE MainStops
    BY <1>1, <1>2, <1>7 DEF MainStops, StopAllNothing, StopAllBegins, AfterStopAll
  <1>8. CASE Shutdown \/ MainSafe \/ StopBackground \/ JoinBackground \/ StopControl
    BY <1>1, <1>2, <1>8 DEF Shutdown, MainSafe, StopBackground, JoinBackground,
                            StopControl
  <1> QED BY <1>4, <1>5, <1>6, <1>7, <1>8 DEF MainJob

LEMMA PostedStep ==
  ASSUME TypeOK, RestartBudget, Posted, [Next]_vars
  PROVE  Posted'
  <1> USE TypeParts
  <1>1. CASE UNCHANGED th
    BY <1>1 DEF Posted
  <1>2. CASE PollExits
    BY <1>2, RestPosted DEF PollExits, Threads, JobsOf, PointsOf, SweepJobs
  <1> QED BY <1>1, <1>2, ControlPosted, MonitorPosted, MainPosted, CallPosted
          DEF Next, Terminated, vars

\* Every thread is always where its job puts it.
THEOREM ThreadsPosted == Spec => []Posted
  <1>1. Init => Posted
    <2>1. ASSUME Init PROVE \A t \in Threads : Placed(t, th[t])
      BY <2>1 DEF Init, Threads, Placed, JobsOf, PointsOf, SweepJobs, Resting
    <2> QED BY <2>1 DEF Posted
  <1>2. TypeOK /\ RestartBudget /\ Posted /\ [Next]_vars => Posted'
    BY PostedStep
  <1> QED BY <1>1, <1>2, TypeCorrect, RestartsBounded, PTL DEF Spec
==========================================================================
