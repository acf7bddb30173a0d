---------------------- MODULE SupervisorRecordProofs ----------------------
(***************************************************************************)
(* Proofs that the records the supervisor keeps of its processes stay      *)
(* consistent, that automatic restarts stay within their budget, and that  *)
(* the supervisor implements ProcLifecycle.                                *)
(*                                                                         *)
(* All three follow from one classification of the steps (StepKinds): a    *)
(* step leaves every record alone, or it moves the record of one process   *)
(* in one of six ways.                                                     *)
(***************************************************************************)
EXTENDS SupervisorProofs

\* No thread loses a fork it is about to make ...
ForksKept ==
  \A t \in Threads : th[t].at = "fork" =>
     th'[t].at = "fork" /\ th'[t].proc = th[t].proc

\* ... for any process but p.
OtherForksKept(p) ==
  \A t \in Threads : th[t].at = "fork" /\ th[t].proc # p =>
     th'[t].at = "fork" /\ th'[t].proc = th[t].proc

\* The monitor does not begin a backoff.
NoNewBackoff ==
  th'["monitor"].job = "backoff" =>
     th["monitor"].job = "backoff" /\ th'["monitor"].proc = th["monitor"].proc

Unrecorded == UNCHANGED runtime /\ ForksKept /\ NoNewBackoff

\* The six ways in which the record of p becomes r.
MovesToStarting(p, r) ==
  /\ r.state = "Starting" /\ r.restarts = runtime[p].restarts
  /\ r.pid # 0 \/ \E t \in Threads : th'[t].at = "fork" /\ th'[t].proc = p
  /\ \E t \in Threads :
       /\ th[t].proc = p
       /\ \/ Fork(t)
          \/ MarkStarting(t) /\ r.pid = runtime[p].pid
  /\ NoNewBackoff

Judges(p, r) ==
  /\ r.pid = runtime[p].pid /\ r.restarts = runtime[p].restarts
  /\ \/ r.state = runtime[p].state
     \/ runtime[p].state \in {"Starting", "Running", "Degraded"}
        /\ r.state = "Running"
     \/ runtime[p].state = "Running" /\ r.state = "Degraded"
  /\ ForksKept /\ NoNewBackoff

MovesDown(p, r) ==
  /\ r.state \in {"Stopped", "Exited"} /\ r.pid = 0
  /\ r.restarts = runtime[p].restarts
  /\ \/ NoNewBackoff
     \/ /\ th'["monitor"].job = "backoff" /\ th'["monitor"].proc = p
        /\ MayRestart(p) /\ runtime[p].restarts < MaxRestart[p]

MovesToFailed(p, r) ==
  /\ r.state = "Failed" /\ r.restarts = runtime[p].restarts
  /\ r.pid = runtime[p].pid
  /\ NoNewBackoff

MovesToStopping(p, r) ==
  /\ r.state = "Stopping" /\ r.pid = runtime[p].pid /\ r.pid # 0
  /\ r.restarts = runtime[p].restarts
  /\ NoNewBackoff

CountsRestart(p, r) ==
  /\ th["monitor"].job = "backoff" /\ th["monitor"].proc = p
  /\ r.restarts = runtime[p].restarts + 1
  /\ r.state = runtime[p].state /\ r.pid = runtime[p].pid
  /\ ForksKept /\ th'["monitor"].job # "backoff"

Moves(p, r) ==
  /\ runtime' = [runtime EXCEPT ![p] = r]
  /\ OtherForksKept(p)
  /\ \/ MovesToStarting(p, r) \/ Judges(p, r) \/ MovesDown(p, r)
     \/ MovesToFailed(p, r) \/ MovesToStopping(p, r) \/ CountsRestart(p, r)

Recorded1 == \E p \in Procs, r \in Runtimes : Moves(p, r)

--------------------------------------------------------------------------
\* Thread steps.

LEMMA ThreadFrame ==
  ASSUME ThreadsOK, NEW t \in Threads, NEW r, th' = [th EXCEPT ![t] = r],
         r.job = "backoff" => th[t].job = "backoff" /\ r.proc = th[t].proc
  PROVE  /\ NoNewBackoff
         /\ th[t].at # "fork" => ForksKept
         /\ OtherForksKept(th[t].proc)
  <1>1. th'[t] = r /\ \A u \in Threads \ {t} : th'[u] = th[u]
    BY DEF ThreadsOK
  <1>2. "monitor" \in Threads
    BY DEF Threads
  <1> QED BY <1>1, <1>2 DEF NoNewBackoff, ForksKept, OtherForksKept

LEMMA RestFrame ==
  ASSUME ThreadsOK, NEW t \in Threads, NEW j, j # "backoff", Rest(t, j),
         th[t].at # "fork"
  PROVE  ForksKept /\ NoNewBackoff
  <1> DEFINE r == Resting(j)
  <1>1. th' = [th EXCEPT ![t] = r] /\ r.job = j
    BY DEF Rest, Become, Resting
  <1> HIDE DEF r
  <1> QED BY <1>1, ThreadFrame

LEMMA CallForFrame ==
  ASSUME ThreadsOK, NEW t \in Threads, NEW j, j # "backoff", NEW f, NEW p, NEW s,
         CallFor(t, j, f, p, s), th[t].at # "fork"
  PROVE  ForksKept /\ NoNewBackoff
  <1> DEFINE r == [Resting(j) EXCEPT !.at = f, !.proc = p, !.rest = s]
  <1>1. th' = [th EXCEPT ![t] = r] /\ r.job = j
    BY DEF CallFor, Become, Resting
  <1> HIDE DEF r
  <1> QED BY <1>1, ThreadFrame

LEMMA SweepFrame ==
  ASSUME ThreadsOK, NEW t \in Threads, NEW j, j # "backoff", NEW m, NEW s,
         Sweep(t, j, m, s), th[t].at # "fork"
  PROVE  ForksKept /\ NoNewBackoff
  <1> DEFINE r == [Resting(j) EXCEPT !.at = "mode", !.mode = m, !.todo = Procs,
                                     !.rest = s]
  <1>1. th' = [th EXCEPT ![t] = r] /\ r.job = j
    BY DEF Sweep, Become, Resting
  <1> HIDE DEF r
  <1> QED BY <1>1, ThreadFrame

LEMMA ListEndedFrame ==
  ASSUME ThreadsOK, NEW t \in Threads, NEW j, j # "backoff",
         Become(t, [Resting(j) EXCEPT !.at = "ok"]), th[t].at # "fork"
  PROVE  ForksKept /\ NoNewBackoff
  <1> DEFINE r == [Resting(j) EXCEPT !.at = "ok"]
  <1>1. th' = [th EXCEPT ![t] = r] /\ r.job = j
    BY DEF Become, Resting
  <1> HIDE DEF r
  <1> QED BY <1>1, ThreadFrame

\* Steps within a call.
LEMMA ReturnFrame ==
  ASSUME ThreadsOK, NEW t \in Threads, NEW how, Return(t, how)
  PROVE  /\ NoNewBackoff
         /\ th[t].at # "fork" => ForksKept
         /\ OtherForksKept(th[t].proc)
  <1> DEFINE r == [th[t] EXCEPT !.at = how, !.pid = 0, !.todo = {}, !.seen = "none"]
  <1>1. th' = [th EXCEPT ![t] = r]
    BY DEF Return
  <1>2. r.job = th[t].job /\ r.proc = th[t].proc
    BY ThreadFacts DEF ThreadRecs
  <1> HIDE DEF r
  <1> QED BY <1>1, <1>2, ThreadFrame

LEMMA GotoFrame ==
  ASSUME ThreadsOK, NEW t \in Threads, NEW l, Goto(t, l)
  PROVE  /\ NoNewBackoff
         /\ th[t].at # "fork" => ForksKept
         /\ OtherForksKept(th[t].proc)
         /\ th'[t].at = l /\ th'[t].proc = th[t].proc
  <1> DEFINE r == [th[t] EXCEPT !.at = l]
  <1>1. th' = [th EXCEPT ![t] = r]
    BY DEF Goto
  <1>2. r.job = th[t].job /\ r.proc = th[t].proc /\ r.at = l
    BY ThreadFacts DEF ThreadRecs
  <1>3. th'[t] = r
    BY <1>1 DEF ThreadsOK
  <1> HIDE DEF r
  <1> QED BY <1>1, <1>2, <1>3, ThreadFrame

--------------------------------------------------------------------------
\* The kinds of the steps.

LEMMA StartOneKinds ==
  ASSUME TypeOK, NEW t \in Threads, StartOne(t)
  PROVE  Unrecorded \/ Recorded1
  <1> USE TypeParts
  <1> DEFINE p == th[t].proc
  <1>0. /\ th[t].at \in CallPoints => p \in Procs /\ runtime[p] \in Runtimes
        /\ th[t] \in ThreadRecs
    BY ThreadFacts
  <1>1. CASE StartAlready(t) \/ LookGone(t) \/ \E d \in Procs :
               PingNotRunning(t, d) \/ PingUnanswered(t, d)
    <2>1. /\ th[t].at # "fork" /\ UNCHANGED runtime
          /\ Return(t, "ok") \/ Return(t, "thrown")
      BY <1>1 DEF StartAlready, LookGone, PingNotRunning, PingUnanswered, superVars
    <2> QED BY <2>1, ReturnFrame DEF Unrecorded
  <1>2. CASE StartProceeds(t)
    <2> DEFINE r == [th[t] EXCEPT !.at = "ping", !.todo = Deps[th[t].proc]]
    <2>1. /\ th[t].at # "fork" /\ UNCHANGED runtime /\ th' = [th EXCEPT ![t] = r]
      BY <1>2 DEF StartProceeds, superVars
    <2>2. r.job = th[t].job /\ r.proc = th[t].proc
      BY <1>0 DEF ThreadRecs
    <2> HIDE DEF r
    <2> QED BY <2>1, <2>2, ThreadFrame DEF Unrecorded
  <1>3. ASSUME NEW d \in Procs, PingAnswered(t, d) PROVE Unrecorded
    <2> DEFINE r == [th[t] EXCEPT !.todo = @ \ {d}]
    <2>1. /\ th[t].at # "fork" /\ UNCHANGED runtime /\ th' = [th EXCEPT ![t] = r]
      BY <1>3 DEF PingAnswered, superVars
    <2>2. r.job = th[t].job /\ r.proc = th[t].proc
      BY <1>0 DEF ThreadRecs
    <2> HIDE DEF r
    <2> QED BY <2>1, <2>2, ThreadFrame DEF Unrecorded
  <1>4. CASE LookReady(t) \/ LookAgain(t)
    <2>1. /\ th[t].at # "fork" /\ UNCHANGED runtime
          /\ Goto(t, "finish") \/ Goto(t, "ask")
      BY <1>4 DEF LookReady, LookAgain, superVars
    <2> QED BY <2>1, GotoFrame DEF Unrecorded
  <1>5. CASE MarkStarting(t)
    <2> DEFINE r == [runtime[p] EXCEPT !.state = "Starting", !.reach = FALSE]
    <2>1. /\ th[t].at = "ping" /\ Goto(t, "fork")
          /\ runtime' = [runtime EXCEPT ![p].state = "Starting", ![p].reach = FALSE]
      BY <1>5 DEF MarkStarting
    <2>2. p \in Procs /\ runtime[p] \in Runtimes
      BY <1>0, <2>1 DEF CallPoints
    <2>3. /\ r \in Runtimes /\ r.restarts = runtime[p].restarts /\ r.state = "Starting"
          /\ r.pid = runtime[p].pid
      BY <2>2 DEF Runtimes, ProcStates
    <2>4. runtime' = [runtime EXCEPT ![p] = r]
      BY <2>1, <2>2 DEF RuntimeOK, Runtimes
    <2> HIDE DEF r
    <2>5. OtherForksKept(p) /\ MovesToStarting(p, r)
      BY <1>5, <2>1, <2>3, GotoFrame DEF MovesToStarting
    <2> QED BY <2>2, <2>3, <2>4, <2>5 DEF Moves, Recorded1
  <1>6. CASE Fork(t)
    <2> DEFINE r == [runtime[p] EXCEPT !.pid = Len(child) + 1, !.state = "Starting"]
    <2>1. /\ th[t].at = "fork" /\ Goto(t, "ask")
          /\ runtime' = [runtime EXCEPT ![p].pid = Len(child) + 1,
                                        ![p].state = "Starting"]
      BY <1>6 DEF Fork
    <2>2. p \in Procs /\ runtime[p] \in Runtimes /\ Len(child) + 1 \in Nat \ {0}
      BY <1>0, <2>1, ChildFacts DEF CallPoints
    <2>3. /\ r \in Runtimes /\ r.restarts = runtime[p].restarts /\ r.state = "Starting"
          /\ r.pid # 0
      <3> HIDE TypeParts
      <3> QED BY <2>2 DEF Runtimes, ProcStates
    <2>4. runtime' = [runtime EXCEPT ![p] = r]
      BY <2>1, <2>2 DEF RuntimeOK, Runtimes
    <2> HIDE DEF r
    <2>5. OtherForksKept(p) /\ MovesToStarting(p, r)
      BY <1>6, <2>1, <2>3, GotoFrame DEF MovesToStarting
    <2> QED BY <2>2, <2>3, <2>4, <2>5 DEF Moves, Recorded1
  <1>7. CASE ForkFails(t) \/ WaitExpires(t)
    <2> DEFINE r == [runtime[p] EXCEPT !.state = "Failed"]
    <2>1. /\ th[t].at \in {"fork", "ask"} /\ Return(t, "thrown")
          /\ SetState(p, "Failed")
      BY <1>7 DEF ForkFails, WaitExpires
    <2>2. p \in Procs /\ runtime[p] \in Runtimes
      BY <1>0, <2>1 DEF CallPoints
    <2>3. /\ r \in Runtimes /\ r.restarts = runtime[p].restarts /\ r.state = "Failed"
          /\ r.pid = runtime[p].pid
      BY <2>2 DEF Runtimes, ProcStates
    <2>4. runtime' = [runtime EXCEPT ![p] = r]
      BY <2>1, <2>2 DEF SetState, RuntimeOK, Runtimes
    <2> HIDE DEF r
    <2>5. OtherForksKept(p) /\ MovesToFailed(p, r)
      BY <2>1, <2>3, ReturnFrame DEF MovesToFailed
    <2> QED BY <2>2, <2>3, <2>4, <2>5 DEF Moves, Recorded1
  <1>8. CASE Finish(t)
    <2> DEFINE r == [runtime[p] EXCEPT !.state = IF @ = "Starting" THEN "Running" ELSE @]
    <2>1. /\ th[t].at = "finish" /\ Return(t, "ok")
          /\ runtime' = [runtime EXCEPT ![p].state =
                            IF @ = "Starting" THEN "Running" ELSE @]
      BY <1>8 DEF Finish
    <2>2. p \in Procs /\ runtime[p] \in Runtimes
      BY <1>0, <2>1 DEF CallPoints
    <2>3. /\ r \in Runtimes /\ r.restarts = runtime[p].restarts
          /\ r.pid = runtime[p].pid
          /\ \/ r.state = runtime[p].state
             \/ runtime[p].state = "Starting" /\ r.state = "Running"
      BY <2>2 DEF Runtimes, ProcStates
    <2>4. runtime' = [runtime EXCEPT ![p] = r]
      BY <2>1, <2>2 DEF RuntimeOK, Runtimes
    <2> HIDE DEF r
    <2>5. OtherForksKept(p) /\ Judges(p, r)
      BY <2>1, <2>3, ReturnFrame DEF Judges
    <2> QED BY <2>2, <2>3, <2>4, <2>5 DEF Moves, Recorded1
  <1> QED BY <1>1, <1>2, <1>3, <1>4, <1>5, <1>6, <1>7, <1>8 DEF StartOne

LEMMA RefreshKinds ==
  ASSUME TypeOK, NEW t \in Threads, Refresh(t)
  PROVE  Unrecorded \/ Recorded1
  <1> USE TypeParts
  <1>0. th[t] \in ThreadRecs /\ Fits(t, th[t])
    BY ThreadFacts
  <1>1. ASSUME NEW p \in Procs, AskDown(t, p) \/ AskAnswered(t, p) \/ AskUnanswered(t, p)
        PROVE  Unrecorded
    <2>1. PICK a : Asks(t, p) /\ Saw(t, p, a) /\ UNCHANGED runtime
      BY <1>1 DEF AskDown, AskAnswered, AskUnanswered, superVars
    <2> DEFINE r == [th[t] EXCEPT !.at = "commit", !.proc = p, !.seen = a]
    <2>2. th' = [th EXCEPT ![t] = r] /\ r.job = th[t].job
      BY <1>0, <2>1 DEF Saw, ThreadRecs
    <2>3. th[t].at # "fork" /\ th[t].job # "backoff"
      BY <1>0, <2>1 DEF Asks, Fits, RestingJobs
    <2> HIDE DEF r
    <2> QED BY <2>1, <2>2, <2>3, ThreadFrame DEF Unrecorded
  <1>2. CASE CommitDown(t) \/ CommitSilent(t) \/ CommitStatus(t)
    <2> DEFINE p == th[t].proc
    <2>1. th[t].at = "commit" /\ Refreshed(t)
      BY <1>2 DEF CommitDown, CommitSilent, CommitStatus
    <2>2. p \in Procs /\ runtime[p] \in Runtimes
      BY <2>1, ThreadFacts DEF CallPoints
    <2>3. ForksKept /\ NoNewBackoff
      <3>1. CASE t = "poll"
        <4>1. Rest(t, "idle")
          BY <2>1, <3>1 DEF Refreshed
        <4> QED BY <2>1, <4>1, RestFrame
      <3>2. CASE t # "poll"
        <4> DEFINE q == [th[t] EXCEPT !.at = "look", !.seen = "none"]
        <4>1. th' = [th EXCEPT ![t] = q] /\ q.job = th[t].job /\ q.proc = th[t].proc
          BY <1>0, <2>1, <3>2 DEF Refreshed, ThreadRecs
        <4> HIDE DEF q
        <4> QED BY <2>1, <4>1, ThreadFrame
      <3> QED BY <3>1, <3>2
    <2>4. PICK b \in BOOLEAN, s \in ProcStates :
            /\ runtime' = [runtime EXCEPT ![p].reach = b, ![p].state = s]
            /\ \/ s = runtime[p].state
               \/ runtime[p].state \in {"Starting", "Running", "Degraded"}
                  /\ s = "Running"
               \/ runtime[p].state = "Running" /\ s = "Degraded"
      <3>1. runtime[p].state \in ProcStates
        BY <2>2 DEF Runtimes
      <3>2. CASE CommitDown(t)
        <4>1. runtime' = [runtime EXCEPT ![p].reach = FALSE,
                                         ![p].state = runtime[p].state]
          BY <2>2, <3>2 DEF CommitDown, RuntimeOK, Runtimes
        <4> QED BY <3>1, <4>1
      <3>3. CASE CommitSilent(t)
        BY <3>1, <3>3 DEF CommitSilent, ProcStates
      <3>4. CASE CommitStatus(t)
        BY <3>1, <3>4 DEF CommitStatus, Judged, ProcStates
      <3> QED BY <1>2, <3>2, <3>3, <3>4
    <2> DEFINE r == [runtime[p] EXCEPT !.reach = b, !.state = s]
    <2>5. /\ r \in Runtimes /\ r.pid = runtime[p].pid
          /\ r.restarts = runtime[p].restarts /\ r.state = s
      BY <2>2 DEF Runtimes
    <2>6. runtime' = [runtime EXCEPT ![p] = r]
      BY <2>2, <2>4 DEF RuntimeOK, Runtimes
    <2> HIDE DEF r
    <2>7. OtherForksKept(p) /\ Judges(p, r)
      BY <2>3, <2>4, <2>5 DEF Judges, ForksKept, OtherForksKept
    <2> QED BY <2>2, <2>5, <2>6, <2>7 DEF Moves, Recorded1
  <1> QED BY <1>1, <1>2 DEF Refresh

LEMMA StopOneKinds ==
  ASSUME TypeOK, NEW t \in Threads, StopOne(t)
  PROVE  Unrecorded \/ Recorded1
  <1> USE TypeParts
  <1> DEFINE p == th[t].proc
  <1>0. /\ th[t].at \in CallPoints => p \in Procs /\ runtime[p] \in Runtimes
        /\ th[t] \in ThreadRecs
    BY ThreadFacts
  <1>1. CASE StopNothing(t)
    <2> DEFINE r == [runtime[p] EXCEPT !.state = "Stopped", !.reach = FALSE]
    <2>1. /\ th[t].at = "stop_one" /\ Return(t, "ok") /\ runtime[p].pid = 0
          /\ runtime' = [runtime EXCEPT ![p].state = "Stopped", ![p].reach = FALSE]
      BY <1>1 DEF StopNothing
    <2>2. p \in Procs /\ runtime[p] \in Runtimes
      BY <1>0, <2>1 DEF CallPoints
    <2>3. /\ r \in Runtimes /\ r.restarts = runtime[p].restarts /\ r.state = "Stopped"
          /\ r.pid = runtime[p].pid
      BY <2>2 DEF Runtimes, ProcStates
    <2>4. runtime' = [runtime EXCEPT ![p] = r]
      BY <2>1, <2>2 DEF RuntimeOK, Runtimes
    <2> HIDE DEF r
    <2>5. OtherForksKept(p) /\ MovesDown(p, r)
      BY <2>1, <2>3, ReturnFrame DEF MovesDown
    <2> QED BY <2>2, <2>3, <2>4, <2>5 DEF Moves, Recorded1
  <1>2. CASE StopSignal(t)
    <2> DEFINE r == [runtime[p] EXCEPT !.state = "Stopping"]
    <2> DEFINE q == [th[t] EXCEPT !.at = "term", !.pid = runtime[p].pid]
    <2>1. /\ th[t].at = "stop_one" /\ runtime[p].pid # 0 /\ SetState(p, "Stopping")
          /\ th' = [th EXCEPT ![t] = q]
      BY <1>2 DEF StopSignal
    <2>2. p \in Procs /\ runtime[p] \in Runtimes
      BY <1>0, <2>1 DEF CallPoints
    <2>3. /\ r \in Runtimes /\ r.restarts = runtime[p].restarts /\ r.state = "Stopping"
          /\ r.pid = runtime[p].pid
      BY <2>2 DEF Runtimes, ProcStates
    <2>4. runtime' = [runtime EXCEPT ![p] = r]
      BY <2>1, <2>2 DEF SetState, RuntimeOK, Runtimes
    <2>5. q.job = th[t].job /\ q.proc = th[t].proc
      BY <1>0 DEF ThreadRecs
    <2> HIDE DEF r, q
    <2>6. OtherForksKept(p) /\ MovesToStopping(p, r)
      BY <2>1, <2>3, <2>5, ThreadFrame DEF MovesToStopping
    <2> QED BY <2>2, <2>3, <2>4, <2>6 DEF Moves, Recorded1
  <1>3. CASE StopDone(t) \/ StopTimeout(t) \/ StopEscalate(t)
    <2>1. /\ th[t].at # "fork" /\ UNCHANGED runtime
          /\ Return(t, "ok") \/ Return(t, "thrown") \/ Goto(t, "kill")
      BY <1>3 DEF StopDone, StopTimeout, StopEscalate, superVars
    <2> QED BY <2>1, ReturnFrame, GotoFrame DEF Unrecorded
  <1> QED BY <1>1, <1>2, <1>3 DEF StopOne

LEMMA ApplyModeKinds ==
  ASSUME TypeOK, NEW t \in Threads, ApplyMode(t)
  PROVE  Unrecorded
  <1> USE TypeParts
  <1>1. ASSUME NEW p \in Procs, ModeSkip(t, p) \/ ModeTold(t, p)
        PROVE  Unrecorded
    <2> DEFINE r == [th[t] EXCEPT !.todo = @ \ {p}]
    <2>1. /\ th[t].at # "fork" /\ UNCHANGED runtime /\ th' = [th EXCEPT ![t] = r]
      BY <1>1 DEF ModeSkip, ModeTold, Visits, superVars
    <2>2. r.job = th[t].job /\ r.proc = th[t].proc
      BY ThreadFacts DEF ThreadRecs
    <2> HIDE DEF r
    <2> QED BY <2>1, <2>2, ThreadFrame DEF Unrecorded
  <1>2. ASSUME NEW p \in Procs, ModeUnanswered(t, p) \/ ModeLate(t, p)
        PROVE  Unrecorded
    <2>1. /\ th[t].at # "fork" /\ UNCHANGED runtime
          /\ Return(t, "thrown")
      BY <1>2 DEF ModeUnanswered, ModeLate, Visits, superVars
    <2> QED BY <2>1, ReturnFrame DEF Unrecorded
  <1>3. CASE ModeDone(t)
    <2>1. th[t].at # "fork" /\ UNCHANGED runtime /\ Return(t, "ok")
      BY <1>3 DEF ModeDone, superVars
    <2> QED BY <2>1, ReturnFrame DEF Unrecorded
  <1> QED BY <1>1, <1>2, <1>3 DEF ApplyMode

LEMMA StopRestFrame ==
  ASSUME ThreadsOK, NEW t \in Threads, NEW j \in {"undo", "stop_all"}, NEW r,
         StopRest(t, j, r), th[t].at # "fork"
  PROVE  ForksKept /\ NoNewBackoff
  BY ListEndedFrame, CallForFrame DEF StopRest

LEMMA StopAllKinds ==
  ASSUME TypeOK, NEW t \in Threads, th[t].at # "fork",
         StopAll(t) \/ StopAllBegins(t) \/ StopAllNothing(t)
  PROVE  Unrecorded
  <1> USE TypeParts
  <1>1. UNCHANGED runtime
    BY DEF StopAll, StopAllSafe, StopAllNext, StopAllEnds, EnterSafeEnds,
           StopAllBegins, StopAllNothing, superVars
  <1>2. CASE StopAllSafe(t) \/ StopAllNext(t)
    BY <1>1, <1>2, StopRestFrame DEF StopAllSafe, StopAllNext, Unrecorded
  <1>3. CASE StopAllEnds(t) \/ StopAllNothing(t)
    <2>1. PICK j \in {"idle", "stop_bg", "exited"} : Rest(t, j)
      BY <1>3 DEF StopAllEnds, StopAllNothing, AfterStopAll
    <2> QED BY <1>1, <2>1, RestFrame DEF Unrecorded
  <1>4. CASE StopAllBegins(t)
    BY <1>1, <1>4, SweepFrame DEF StopAllBegins, Unrecorded
  <1> QED BY <1>2, <1>3, <1>4 DEF StopAll

LEMMA CallKinds ==
  ASSUME TypeOK, NEW t \in Threads, Call(t)
  PROVE  Unrecorded \/ Recorded1
  <1>1. CASE StopAll(t)
    <2>1. th[t].at # "fork"
      BY <1>1 DEF StopAll, StopAllSafe, StopAllNext, StopAllEnds, EnterSafeEnds, Ended
    <2> QED BY <1>1, <2>1, StopAllKinds
  <1> QED BY <1>1, StartOneKinds, RefreshKinds, StopOneKinds, ApplyModeKinds DEF Call

LEMMA AcceptKinds ==
  ASSUME TypeOK, Accept
  PROVE  Unrecorded
  <1> USE TypeParts
  <1>1. "control" \in Threads /\ th["control"].at = "none" /\ th["control"].job = "idle"
    <2>1. "control" \in Threads /\ th["control"].job = "idle"
      BY DEF Threads, Accept, CmdStartAlready, CmdStart, CmdStop, CmdStartProc,
             CmdStopProc, CmdRestart, CmdModeRefused, CmdMode, Command
    <2> QED BY <2>1, ThreadFacts DEF Fits
  <1>2. CASE CmdStartAlready \/ \E m \in CmdModes : CmdModeRefused(m)
    BY <1>1, <1>2 DEF CmdStartAlready, CmdModeRefused, Unrecorded, ForksKept,
                      NoNewBackoff, superVars
  <1>3. CASE CmdStart
    <2>1. UNCHANGED runtime /\ StartRest(Order)
      BY <1>3 DEF CmdStart
    <2> QED BY <1>1, <2>1, ListEndedFrame, CallForFrame DEF StartRest, Unrecorded
  <1>4. CASE CmdStop
    BY <1>1, <1>4, StopAllKinds DEF CmdStop
  <1>5. ASSUME NEW p \in Procs, CmdStartProc(p) \/ CmdStopProc(p) \/ CmdRestart(p)
        PROVE  Unrecorded
    <2>1. PICK j \in {"call", "restart"}, f \in {"start_one", "stop_one"} :
            CallFor("control", j, f, p, <<>>) /\ UNCHANGED runtime
      BY <1>5 DEF CmdStartProc, CmdStopProc, CmdRestart, superVars
    <2> QED BY <1>1, <2>1, CallForFrame DEF Unrecorded
  <1>6. ASSUME NEW m \in CmdModes, CmdMode(m) PROVE Unrecorded
    <2>1. Sweep("control", "set_mode", m, <<>>) /\ UNCHANGED runtime
      BY <1>6 DEF CmdMode, superVars
    <2> QED BY <1>1, <2>1, SweepFrame DEF Unrecorded
  <1> QED BY <1>2, <1>3, <1>4, <1>5, <1>6 DEF Accept

LEMMA ControlJobKinds ==
  ASSUME TypeOK, ControlJob
  PROVE  Unrecorded
  <1> USE TypeParts
  <1>1. "control" \in Threads /\ th["control"].at # "fork" /\ UNCHANGED runtime
    BY DEF Threads, ControlJob, StartAllNext, StartAllDone, StartAllSafe, StartAllUndo,
           UndoNext, UndoEnds, RestartStarts, Replied, SetModeDone, Ended, superVars
  <1>2. CASE StartAllNext
    <2>1. StartRest(Tail(th["control"].rest))
      BY <1>2 DEF StartAllNext
    <2> QED BY <1>1, <2>1, ListEndedFrame, CallForFrame DEF StartRest, Unrecorded
  <1>3. CASE StartAllDone
    <2>1. Sweep("control", "start_safe", "SAFE", <<>>)
      BY <1>3 DEF StartAllDone
    <2> QED BY <1>1, <2>1, SweepFrame DEF Unrecorded
  <1>4. CASE StartAllSafe \/ UndoEnds \/ Replied \/ SetModeDone
    <2>1. Rest("control", "idle")
      BY <1>4 DEF StartAllSafe, UndoEnds, Replied, SetModeDone
    <2> QED BY <1>1, <2>1, RestFrame DEF Unrecorded
  <1>5. CASE StartAllUndo \/ UndoNext
    <2>1. PICK r : StopRest("control", "undo", r)
      BY <1>5 DEF StartAllUndo, UndoNext
    <2> QED BY <1>1, <2>1, StopRestFrame DEF Unrecorded
  <1>6. CASE RestartStarts
    <2>1. CallFor("control", "call", "start_one", th["control"].proc, <<>>)
      BY <1>6 DEF RestartStarts
    <2> QED BY <1>1, <2>1, CallForFrame DEF Unrecorded
  <1> QED BY <1>2, <1>3, <1>4, <1>5, <1>6 DEF ControlJob

LEMMA MonitorJobKinds ==
  ASSUME TypeOK, MonitorJob
  PROVE  Unrecorded \/ Recorded1
  <1> USE TypeParts
  <1> DEFINE m == th["monitor"]
  <1> DEFINE p == m.proc
  <1>0. /\ "monitor" \in Threads /\ m \in ThreadRecs /\ Fits("monitor", m)
        /\ m.at # "fork"
    <2>1. "monitor" \in Threads
      BY DEF Threads
    <2>2. m \in ThreadRecs /\ Fits("monitor", m)
      BY <2>1, ThreadFacts
    <2>3. m.job \in RestingJobs \/ Ended("monitor")
      BY DEF MonitorJob, MonitorLook, MonitorNothing, MonitorReaps, AccountStopped,
             AccountCritical, AccountExited, AccountRestart, Account, MonitorSafe,
             EnterSafeEnds, MonitorError, Revive, Revived, MonitorExits, RestingJobs
    <2> QED BY <2>1, <2>2, <2>3 DEF Fits, Ended
  <1>1. ASSUME NEW q \in Procs, MonitorLook(q) PROVE Unrecorded
    <2> DEFINE r == [Resting("waitpid") EXCEPT !.proc = q, !.pid = runtime[q].pid]
    <2>1. th' = [th EXCEPT !["monitor"] = r] /\ UNCHANGED runtime /\ r.job = "waitpid"
      BY <1>1 DEF MonitorLook, Become, superVars, Resting
    <2> HIDE DEF r
    <2> QED BY <1>0, <2>1, ThreadFrame DEF Unrecorded
  <1>2. CASE MonitorNothing \/ Revived \/ MonitorExits \/ MonitorSafe \/ MonitorError
    <2>1. PICK j \in {"scan", "exited", "error"} :
            Rest("monitor", j) /\ UNCHANGED runtime
      BY <1>2 DEF MonitorNothing, Revived, MonitorExits, MonitorSafe, MonitorError,
                  EnterSafeEnds, superVars
    <2> QED BY <1>0, <2>1, RestFrame DEF Unrecorded
  <1>3. CASE MonitorReaps
    <2> DEFINE r == [m EXCEPT !.job = "account"]
    <2>1. th' = [th EXCEPT !["monitor"] = r] /\ UNCHANGED runtime /\ r.job = "account"
      BY <1>0, <1>3 DEF MonitorReaps, superVars, ThreadRecs
    <2> HIDE DEF r
    <2> QED BY <1>0, <2>1, ThreadFrame DEF Unrecorded
  <1>4. CASE AccountStopped \/ AccountCritical \/ AccountExited \/ AccountRestart
    <2>1. PICK s \in {"Stopped", "Exited"} : Account(s)
      BY <1>4 DEF AccountStopped, AccountCritical, AccountExited, AccountRestart
    <2>2. p \in Procs /\ runtime[p] \in Runtimes
      BY <1>0, <2>1 DEF Account, Fits, NamedJobs
    <2> DEFINE r == [runtime[p] EXCEPT !.pid = 0, !.reach = FALSE, !.state = s]
    <2>3. r \in Runtimes /\ r.pid = 0 /\ r.state = s /\ r.restarts = runtime[p].restarts
      BY <2>2 DEF Runtimes, ProcStates
    <2>4. runtime' = [runtime EXCEPT ![p] = r]
      BY <2>1, <2>2 DEF Account, RuntimeOK, Runtimes
    <2> HIDE DEF r
    <2>5. OtherForksKept(p) /\ MovesDown(p, r)
      <3>1. CASE AccountStopped \/ AccountExited
        <4>1. Rest("monitor", "scan")
          BY <3>1 DEF AccountStopped, AccountExited
        <4> QED BY <1>0, <2>3, <4>1, RestFrame DEF MovesDown, ForksKept, OtherForksKept
      <3>2. CASE AccountCritical
        <4>1. Sweep("monitor", "safe", "SAFE", <<>>)
          BY <3>2 DEF AccountCritical
        <4> QED BY <1>0, <2>3, <4>1, SweepFrame DEF MovesDown, ForksKept, OtherForksKept
      <3>3. CASE AccountRestart
        <4> DEFINE q == [Resting("backoff") EXCEPT !.at = "none", !.proc = p,
                                                   !.rest = <<>>]
        <4>1. /\ th' = [th EXCEPT !["monitor"] = q]
              /\ q.job = "backoff" /\ q.proc = p
          BY <3>3 DEF AccountRestart, CallFor, Become, Resting
        <4>2. MayRestart(p) /\ runtime[p].restarts < MaxRestart[p]
          BY <3>3 DEF AccountRestart, ShouldRestart, MayRestart
        <4> HIDE DEF q
        <4>3. th'["monitor"] = q /\ \A u \in Threads \ {"monitor"} : th'[u] = th[u]
          BY <1>0, <4>1 DEF ThreadsOK
        <4> QED BY <1>0, <2>3, <4>1, <4>2, <4>3 DEF MovesDown, OtherForksKept
      <3> QED BY <1>4, <3>1, <3>2, <3>3
    <2> QED BY <2>2, <2>3, <2>4, <2>5 DEF Moves, Recorded1
  <1>5. CASE Revive
    <2>1. /\ m.job = "backoff" /\ CallFor("monitor", "revive", "start_one", p, <<>>)
          /\ runtime' = [runtime EXCEPT ![p].restarts = @ + 1]
      BY <1>5 DEF Revive
    <2>2. p \in Procs /\ runtime[p] \in Runtimes
      BY <1>0, <2>1 DEF Fits, NamedJobs
    <2>3. runtime[p].restarts + 1 \in Nat
      BY <2>2 DEF Runtimes
    <2> DEFINE r == [runtime[p] EXCEPT !.restarts = @ + 1]
    <2>4. /\ r \in Runtimes /\ r.pid = runtime[p].pid /\ r.state = runtime[p].state
          /\ r.restarts = runtime[p].restarts + 1
      <3> HIDE TypeParts
      <3> QED BY <2>2, <2>3 DEF Runtimes
    <2>5. runtime' = [runtime EXCEPT ![p] = r]
      BY <2>1, <2>2 DEF RuntimeOK, Runtimes
    <2>6. ForksKept
      BY <1>0, <2>1, CallForFrame
    <2>7. th'["monitor"].job = "revive"
      BY <1>0, <2>1 DEF CallFor, Become, Resting, ThreadsOK
    <2> HIDE DEF r
    <2>8. OtherForksKept(p) /\ CountsRestart(p, r)
      BY <2>1, <2>4, <2>6, <2>7 DEF CountsRestart, ForksKept, OtherForksKept
    <2> QED BY <2>2, <2>4, <2>5, <2>8 DEF Moves, Recorded1
  <1> QED BY <1>1, <1>2, <1>3, <1>4, <1>5 DEF MonitorJob

LEMMA MainJobKinds ==
  ASSUME TypeOK, MainJob \/ Shutdown
  PROVE  Unrecorded
  <1> USE TypeParts
  <1>1. "main" \in Threads /\ th["main"].at # "fork"
    <2>1. "main" \in Threads
      BY DEF Threads
    <2>2. th["main"].job \in RestingJobs \/ Ended("main")
      BY DEF MainJob, Shutdown, Launch, MainSafe, EnterSafeEnds, MainStops,
             StopBackground, JoinBackground, PokeKills, StopControl, JoinControl,
             RestingJobs
    <2> QED BY <2>1, <2>2, ThreadFacts DEF Fits, Ended
  <1>2. CASE MainStops
    BY <1>1, <1>2, StopAllKinds DEF MainStops
  <1>3. CASE MainSafe \/ StopBackground \/ JoinBackground \/ StopControl
    <2>1. PICK j \in {"main_stop", "join_bg", "stop_control", "join_control"} :
            Rest("main", j) /\ UNCHANGED runtime
      BY <1>3 DEF MainSafe, EnterSafeEnds, StopBackground, JoinBackground, StopControl,
                  superVars
    <2> QED BY <1>1, <2>1, RestFrame DEF Unrecorded
  <1>4. CASE Shutdown
    BY <1>1, <1>4, SweepFrame DEF Shutdown, superVars, Unrecorded
  <1>5. CASE Launch
    <2> DEFINE a == Resting("sleep")
    <2> DEFINE b == Resting(IF "monitor" \in Scheduled THEN "scan" ELSE "exited")
    <2> DEFINE c == Resting(IF "poll" \in Scheduled THEN "idle" ELSE "exited")
    <2>1. /\ th' = [th EXCEPT !["main"] = a, !["monitor"] = b, !["poll"] = c]
          /\ UNCHANGED runtime
      BY <1>5 DEF Launch, superVars
    <2>2. b.job # "backoff"
      BY DEF Resting
    <2> HIDE DEF a, b, c
    <2>3. /\ th'["monitor"] = b /\ th'["control"] = th["control"]
      BY <2>1 DEF ThreadsOK, Threads
    <2>4. \A t \in {"main", "monitor", "poll"} : t \in Threads /\ th[t].job \in RestingJobs
      BY <1>5 DEF Launch, RestingJobs, Threads
    <2>5. \A t \in {"main", "monitor", "poll"} : th[t].at # "fork"
      BY <2>4, ThreadFacts DEF Fits
    <2> QED BY <2>1, <2>2, <2>3, <2>5 DEF Unrecorded, ForksKept, NoNewBackoff, Threads
  <1>6. CASE JoinControl
    <2> DEFINE a == Resting("exited")
    <2> DEFINE b == [Resting("main_safe") EXCEPT !.at = "mode", !.mode = "SAFE",
                                                 !.todo = Procs]
    <2>1. /\ th' = [th EXCEPT !["control"] = a, !["main"] = b]
          /\ UNCHANGED runtime /\ th["control"].job = "idle"
      BY <1>6 DEF JoinControl, superVars
    <2> HIDE DEF a, b
    <2>2. /\ th'["monitor"] = th["monitor"] /\ th'["poll"] = th["poll"]
      BY <2>1 DEF ThreadsOK, Threads
    <2>3. th["control"].at = "none"
      BY <2>1, ThreadFacts DEF Fits, Threads
    <2> QED BY <1>1, <2>1, <2>2, <2>3 DEF Unrecorded, ForksKept, NoNewBackoff, Threads
  <1>7. CASE PokeKills
    <2> DEFINE a == Resting("exited")
    <2>1. /\ th' = [th EXCEPT !["control"] = a, !["main"] = a]
          /\ UNCHANGED runtime /\ th["control"].job = "idle"
      BY <1>7 DEF PokeKills, superVars
    <2> HIDE DEF a
    <2>2. /\ th'["monitor"] = th["monitor"] /\ th'["poll"] = th["poll"]
      BY <2>1 DEF ThreadsOK, Threads
    <2>3. th["control"].at = "none"
      BY <2>1, ThreadFacts DEF Fits, Threads
    <2> QED BY <1>1, <2>1, <2>2, <2>3 DEF Unrecorded, ForksKept, NoNewBackoff, Threads
  <1> QED BY <1>2, <1>3, <1>4, <1>5, <1>6, <1>7 DEF MainJob

\* Every step leaves the records alone or moves one of them in one of six ways.
LEMMA StepKinds ==
  ASSUME TypeOK, [Next]_vars
  PROVE  Unrecorded \/ Recorded1
  <1> USE TypeParts
  <1>1. CASE Terminated \/ UNCHANGED vars
    BY <1>1 DEF Terminated, vars, superVars, Unrecorded, ForksKept, NoNewBackoff
  <1>2. CASE PollExits
    <2>1. "poll" \in Threads /\ th["poll"].at # "fork" /\ UNCHANGED runtime
      BY <1>2 DEF PollExits, Threads, superVars
    <2> QED BY <1>2, <2>1, RestFrame DEF PollExits, Unrecorded
  <1>3. CASE \E i \in 1..Len(child) :
               ChildStep(i) /\ UNCHANGED <<superVars, bgRunning, th, commands>>
    BY <1>3 DEF superVars, Unrecorded, ForksKept, NoNewBackoff
  <1> QED BY <1>1, <1>2, <1>3, AcceptKinds, MainJobKinds, ControlJobKinds,
             MonitorJobKinds, CallKinds DEF Next

\* The pid on record is erased, or replaced by a fork; every other step keeps it.
LEMMA PidSteps ==
  ASSUME TypeOK, [Next]_vars, NEW p \in Procs,
         \A t \in Threads : ~(Fork(t) /\ th[t].proc = p)
  PROVE  runtime'[p].pid \in {runtime[p].pid, 0}
  <1>1. CASE Unrecorded
    BY <1>1 DEF Unrecorded
  <1>2. CASE Recorded1
    <2>1. PICK q \in Procs, r \in Runtimes : Moves(q, r)
      BY <1>2 DEF Recorded1
    <2>2. runtime'[p] = IF p = q THEN r ELSE runtime[p]
      BY <2>1, TypeParts DEF Moves, RuntimeOK
    <2>3. p = q => r.pid \in {runtime[p].pid, 0}
      BY <2>1 DEF Moves, MovesToStarting, Judges, MovesDown, MovesToFailed,
                  MovesToStopping, CountsRestart
    <2> QED BY <2>2, <2>3
  <1> QED BY <1>1, <1>2, StepKinds

\* A process is or becomes up, or is about to be, only by start_one_.
UpStates == {"Starting", "Running", "Degraded"}

LEMMA UpSteps ==
  ASSUME TypeOK, [Next]_vars, NEW p \in Procs,
         \A t \in Threads : ~((MarkStarting(t) \/ Fork(t)) /\ th[t].proc = p),
         runtime'[p].state \in UpStates
  PROVE  runtime[p].state \in UpStates
  <1>1. CASE Unrecorded
    BY <1>1 DEF Unrecorded
  <1>2. CASE Recorded1
    <2>1. PICK q \in Procs, r \in Runtimes : Moves(q, r)
      BY <1>2 DEF Recorded1
    <2>2. runtime'[p] = IF p = q THEN r ELSE runtime[p]
      BY <2>1, TypeParts DEF Moves, RuntimeOK
    <2>3. p = q /\ r.state \in UpStates => runtime[p].state \in UpStates
      BY <2>1 DEF Moves, MovesToStarting, Judges, MovesDown, MovesToFailed,
                  MovesToStopping, CountsRestart, UpStates
    <2> QED BY <2>2, <2>3
  <1> QED BY <1>1, <1>2, StepKinds

--------------------------------------------------------------------------
\* What the kinds of steps preserve.

\* The new record of p satisfies what RecordConsistent says of it.
RecordOK(p, r) ==
  /\ r.state \in {"Stopped", "Exited"} => r.pid = 0
  /\ r.state \in {"Starting", "Running", "Degraded", "Stopping"}
       => r.pid # 0 \/ \E t \in Threads : th'[t].at = "fork" /\ th'[t].proc = p

LEMMA MovedRecord ==
  ASSUME TypeOK, RecordConsistent, NEW p \in Procs, NEW r \in Runtimes, Moves(p, r)
  PROVE  RecordOK(p, r)
  <1>1. MovesToStarting(p, r) => RecordOK(p, r)
    BY DEF MovesToStarting, RecordOK
  <1>2. Judges(p, r) => RecordOK(p, r)
    BY DEF Judges, RecordOK, RecordConsistent, IsDown, ForksKept
  <1>3. MovesDown(p, r) => RecordOK(p, r)
    BY DEF MovesDown, RecordOK
  <1>4. MovesToFailed(p, r) => RecordOK(p, r)
    BY DEF MovesToFailed, RecordOK
  <1>5. MovesToStopping(p, r) => RecordOK(p, r)
    BY DEF MovesToStopping, RecordOK
  <1>6. CountsRestart(p, r) => RecordOK(p, r)
    BY DEF CountsRestart, RecordOK, RecordConsistent, IsDown, ForksKept
  <1> QED BY <1>1, <1>2, <1>3, <1>4, <1>5, <1>6 DEF Moves

LEMMA RecordConsistentStep ==
  ASSUME TypeOK, RecordConsistent, [Next]_vars
  PROVE  RecordConsistent'
  <1>1. CASE Unrecorded
    BY <1>1 DEF Unrecorded, ForksKept, RecordConsistent, IsDown
  <1>2. ASSUME NEW p \in Procs, NEW r \in Runtimes, Moves(p, r)
        PROVE  RecordConsistent'
    <2>1. RecordOK(p, r)
      BY <1>2, MovedRecord
    <2>2. /\ runtime'[p] = r
          /\ \A q \in Procs \ {p} : runtime'[q] = runtime[q]
      BY <1>2, TypeParts DEF Moves, RuntimeOK
    <2>3. OtherForksKept(p)
      BY <1>2 DEF Moves
    <2>4. ASSUME NEW q \in Procs PROVE RecordOK(q, runtime'[q])
      <3>1. CASE q = p
        BY <2>1, <2>2, <3>1
      <3>2. CASE q # p
        BY <2>2, <2>3, <3>2 DEF RecordOK, OtherForksKept, RecordConsistent, IsDown
      <3> QED BY <3>1, <3>2
    <2> QED BY <2>4 DEF RecordOK, RecordConsistent, IsDown
  <1> QED BY <1>1, <1>2, StepKinds DEF Recorded1

LEMMA RestartBudgetStep ==
  ASSUME TypeOK, RestartBudget, [Next]_vars
  PROVE  RestartBudget'
  <1>0. /\ MaxRestart \in [Procs -> Int]
        /\ \A q \in Procs : runtime[q].restarts \in Nat
        /\ th["monitor"].job = "backoff" => th["monitor"].proc \in Procs
    <2>1. "monitor" \in Threads
      BY DEF Threads
    <2> QED BY <2>1, SpecsAssumption, TypeParts, ThreadFacts
            DEF Runtimes, Fits, NamedJobs
  <1>1. CASE Unrecorded
    BY <1>0, <1>1 DEF Unrecorded, NoNewBackoff, RestartBudget, MayRestart
  <1>2. ASSUME NEW p \in Procs, NEW r \in Runtimes, Moves(p, r)
        PROVE  RestartBudget'
    <2>1. /\ runtime'[p] = r
          /\ \A q \in Procs \ {p} : runtime'[q] = runtime[q]
      BY <1>2, TypeParts DEF Moves, RuntimeOK
    <2>2. CASE CountsRestart(p, r)
      <3>1. MayRestart(p) /\ runtime[p].restarts < MaxRestart[p]
        BY <2>2 DEF CountsRestart, RestartBudget
      <3>2. r.restarts <= MaxRestart[p] /\ th'["monitor"].job # "backoff"
        BY <1>0, <2>2, <3>1 DEF CountsRestart
      <3>3. \A q \in Procs : runtime'[q].restarts > 0
              => MayRestart(q) /\ runtime'[q].restarts <= MaxRestart[q]
        BY <2>1, <3>1, <3>2 DEF RestartBudget
      <3> QED BY <3>2, <3>3 DEF RestartBudget, MayRestart
    <2>3. CASE ~CountsRestart(p, r)
      <3>1. \A q \in Procs : runtime'[q].restarts = runtime[q].restarts
        BY <1>2, <2>1, <2>3 DEF Moves, MovesToStarting, Judges, MovesDown,
                                MovesToFailed, MovesToStopping
      <3>2. \/ NoNewBackoff
            \/ /\ th'["monitor"].job = "backoff" /\ th'["monitor"].proc = p
               /\ MayRestart(p) /\ runtime[p].restarts < MaxRestart[p]
        BY <1>2, <2>3 DEF Moves, MovesToStarting, Judges, MovesDown,
                          MovesToFailed, MovesToStopping
      <3>3. th'["monitor"].job = "backoff" =>
              /\ th'["monitor"].proc \in Procs /\ MayRestart(th'["monitor"].proc)
              /\ runtime[th'["monitor"].proc].restarts < MaxRestart[th'["monitor"].proc]
        BY <1>0, <3>2 DEF NoNewBackoff, RestartBudget
      <3> QED BY <3>1, <3>3 DEF RestartBudget, MayRestart
    <2> QED BY <2>2, <2>3
  <1> QED BY <1>1, <1>2, StepKinds DEF Recorded1

--------------------------------------------------------------------------
\* The theorems.

\* A process that is Stopped or Exited has no pid on record, and one that is
\* Starting, Running, Degraded or Stopping has one, or a thread about to fork
\* it: whatever start_one_, stop_one_, the poller's commit and the monitor's
\* account interleave.
THEOREM RecordsConsistent == Spec => []RecordConsistent
  <1>1. Init => RecordConsistent
    BY DEF Init, RecordConsistent, IsDown, NewRuntime
  <1>2. TypeOK /\ RecordConsistent /\ [Next]_vars => RecordConsistent'
    BY RecordConsistentStep
  <1> QED BY <1>1, <1>2, TypeCorrect, PTL DEF Spec

\* The monitor restarts no critical process and none whose policy is Never, and
\* no process more than max_restart_count times: between the check of the count
\* and its increment nobody else changes it.
THEOREM RestartsBounded == Spec => []RestartBudget
  <1>1. Init => RestartBudget
    BY DEF Init, RestartBudget, NewRuntime, Resting
  <1>2. TypeOK /\ RestartBudget /\ [Next]_vars => RestartBudget'
    BY RestartBudgetStep
  <1> QED BY <1>1, <1>2, TypeCorrect, PTL DEF Spec

LEMMA LifecycleStep ==
  ASSUME TypeOK, RecordConsistent, RestartBudget, [Next]_vars
  PROVE  [Lifecycle!Next]_(Lifecycle!vars)
  <1> DEFINE phase == [q \in Procs |-> PhaseOf(runtime[q].state)]
  <1> DEFINE restarts == [q \in Procs |-> runtime[q].restarts]
  <1>1. CASE Unrecorded
    BY <1>1 DEF Unrecorded, Lifecycle!vars
  <1>2. ASSUME NEW p \in Procs, NEW r \in Runtimes, Moves(p, r)
        PROVE  [Lifecycle!Next]_(Lifecycle!vars)
    <2>1. /\ runtime[p] \in Runtimes
          /\ runtime'[p] = r
          /\ \A q \in Procs \ {p} : runtime'[q] = runtime[q]
      BY <1>2, TypeParts DEF Moves, RuntimeOK
    <2>2. phase' = [phase EXCEPT ![p] = PhaseOf(r.state)]
      BY <2>1
    <2>3. restarts' = [restarts EXCEPT ![p] = r.restarts]
      BY <2>1
    <2>4. phase[p] = PhaseOf(runtime[p].state) /\ restarts[p] = runtime[p].restarts
      OBVIOUS
    <2>5. /\ PhaseOf(r.state) \in Lifecycle!Phases /\ phase[p] \in Lifecycle!Phases
      BY <2>1, <2>4 DEF PhaseOf, Lifecycle!Phases, Runtimes, ProcStates
    <2>6. r.restarts = runtime[p].restarts => restarts' = restarts
      BY <2>3, <2>4
    <2>7. CASE MovesToStarting(p, r)
      <3>1. Lifecycle!Start(p)
        BY <2>2, <2>5, <2>6, <2>7
           DEF MovesToStarting, Lifecycle!Start, Lifecycle!Move, PhaseOf
      <3> QED BY <3>1 DEF Lifecycle!Next
    <2>8. CASE Judges(p, r)
      <3>1. CASE PhaseOf(r.state) = PhaseOf(runtime[p].state)
        BY <2>2, <2>4, <2>6, <2>8, <3>1 DEF Judges, Lifecycle!vars
      <3>2. CASE PhaseOf(r.state) # PhaseOf(runtime[p].state)
        <4>1. runtime[p].state = "Starting" /\ r.state = "Running"
          BY <2>8, <3>2 DEF Judges, PhaseOf
        <4>2. Lifecycle!ComeUp(p)
          BY <2>2, <2>4, <2>6, <2>8, <4>1
             DEF Judges, Lifecycle!ComeUp, Lifecycle!Move, PhaseOf
        <4> QED BY <4>2 DEF Lifecycle!Next
      <3> QED BY <3>1, <3>2
    <2>9. CASE MovesDown(p, r)
      <3>1. Lifecycle!GoDown(p)
        BY <2>2, <2>5, <2>6, <2>9
           DEF MovesDown, Lifecycle!GoDown, Lifecycle!Move, PhaseOf
      <3> QED BY <3>1 DEF Lifecycle!Next
    <2>10. CASE MovesToFailed(p, r)
      <3>1. Lifecycle!Fail(p)
        BY <2>2, <2>5, <2>6, <2>10
           DEF MovesToFailed, Lifecycle!Fail, Lifecycle!Move, PhaseOf
      <3> QED BY <3>1 DEF Lifecycle!Next
    <2>11. CASE MovesToStopping(p, r)
      <3>1. ~IsDown(p)
        BY <2>11 DEF MovesToStopping, RecordConsistent
      <3>2. phase[p] # "down"
        BY <2>1, <2>4, <3>1 DEF IsDown, PhaseOf, Runtimes, ProcStates
      <3>3. Lifecycle!Stop(p)
        BY <2>2, <2>5, <2>6, <2>11, <3>2
           DEF MovesToStopping, Lifecycle!Stop, Lifecycle!Move, PhaseOf
      <3> QED BY <3>3 DEF Lifecycle!Next
    <2>12. CASE CountsRestart(p, r)
      <3>1. MayRestart(p) /\ runtime[p].restarts < MaxRestart[p]
        BY <2>12 DEF CountsRestart, RestartBudget
      <3>2. phase' = phase
        BY <2>2, <2>4, <2>12 DEF CountsRestart
      <3>3. Lifecycle!CountRestart(p)
        BY <2>3, <2>4, <2>12, <3>1, <3>2 DEF CountsRestart, Lifecycle!CountRestart
      <3> QED BY <3>3 DEF Lifecycle!Next
    <2> QED BY <1>2, <2>7, <2>8, <2>9, <2>10, <2>11, <2>12 DEF Moves
  <1> QED BY <1>1, <1>2, StepKinds DEF Recorded1

\* The supervisor implements ProcLifecycle: for every configuration, no late
\* answer of the poller, account of the monitor or command moves a process in a
\* way the abstract lifecycle does not allow.
THEOREM LifecycleImplemented == Spec => LifecycleSpec
  <1>1. Init => Lifecycle!Init
    BY DEF Init, Lifecycle!Init, NewRuntime, PhaseOf
  <1>2. TypeOK /\ RecordConsistent /\ RestartBudget /\ [Next]_vars
          => [Lifecycle!Next]_(Lifecycle!vars)
    BY LifecycleStep
  <1> QED BY <1>1, <1>2, TypeCorrect, RecordsConsistent, RestartsBounded, PTL
          DEF Spec, LifecycleSpec, Lifecycle!Spec
==========================================================================
