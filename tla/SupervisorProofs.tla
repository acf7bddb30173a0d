------------------------- MODULE SupervisorProofs -------------------------
(***************************************************************************)
(* Proofs about the supervisor, for every configuration, every number of   *)
(* processes and forks, and every mix of commands and faults.              *)
(***************************************************************************)
EXTENDS SupervisorProps, SequenceTheorems, TLAPS

--------------------------------------------------------------------------
\* Children.

\* The children after a step: still well typed, and none forgotten.
ChildrenKept == ChildTypeOK' /\ Len(child') \in Nat /\ Len(child') >= Len(child)

LEMMA ChildFacts ==
  ASSUME ChildTypeOK
  PROVE  /\ Len(child) \in Nat
         /\ \A i \in 1..Len(child) : child[i] \in ChildRecs
         /\ \A p \in Procs : sock[p] \in 0..Len(child)
  <1>1. Len(child) \in Nat /\ child \in [1..Len(child) -> ChildRecs]
    BY LenProperties DEF ChildTypeOK
  <1> QED BY <1>1 DEF ChildTypeOK

LEMMA ChildrenSame ==
  ASSUME ChildTypeOK, UNCHANGED childVars
  PROVE  ChildrenKept
  BY ChildFacts DEF ChildTypeOK, childVars, ChildrenKept

\* A step that replaces one child's record and leaves every socket with a child
\* that was forked.
LEMMA ChildUpdated ==
  ASSUME ChildTypeOK, NEW i \in 1..Len(child), NEW r \in ChildRecs,
         child' = [child EXCEPT ![i] = r],
         sock' \in [Procs -> 0..Len(child)],
         faults' \in Nat
  PROVE  ChildrenKept
  <1>1. Len(child) \in Nat
    BY ChildFacts
  <1>2. child' \in Seq(ChildRecs) /\ Len(child') = Len(child)
    BY ExceptSeq DEF ChildTypeOK
  <1> QED BY <1>1, <1>2 DEF ChildTypeOK, ChildrenKept

LEMMA CorpseOK ==
  ASSUME ChildTypeOK, NEW i \in 1..Len(child), NEW b \in BOOLEAN
  PROVE  Corpse(i, b) \in ChildRecs
  <1>1. child[i].proc \in Procs
    BY ChildFacts DEF ChildRecs
  <1> QED BY <1>1 DEF Corpse, NewChild, ChildRecs, Phases

LEMMA DieOK ==
  ASSUME ChildTypeOK, NEW i \in 1..Len(child), NEW b \in BOOLEAN, Die(i, b),
         faults' \in Nat
  PROVE  ChildrenKept
  <1>1. child' = [child EXCEPT ![i] = Corpse(i, b)]
    BY DEF Die
  <1>2. sock' \in [Procs -> 0..Len(child)]
    BY ChildFacts DEF Die, Closed
  <1> QED BY <1>1, <1>2, CorpseOK, ChildUpdated

LEMMA SocketsKept ==
  ASSUME ChildTypeOK, UNCHANGED sock
  PROVE  sock' \in [Procs -> 0..Len(child)]
  BY ChildFacts DEF ChildTypeOK

LEMMA SpawnOK ==
  ASSUME ChildTypeOK, NEW p \in Procs, Spawn(p)
  PROVE  ChildrenKept /\ Len(child') = Len(child) + 1
  <1>1. NewChild(p) \in ChildRecs
    BY DEF NewChild, ChildRecs, Phases
  <1>2. /\ child' \in Seq(ChildRecs) /\ Len(child') = Len(child) + 1
        /\ Len(child) \in Nat
    BY <1>1, AppendProperties, ChildFacts DEF Spawn, ChildTypeOK
  <1> QED BY <1>2, ChildFacts DEF Spawn, ChildTypeOK, ChildrenKept

LEMMA TermOK ==
  ASSUME ChildTypeOK, NEW i \in 1..Len(child), Term(i)
  PROVE  ChildrenKept
  <1> DEFINE r == [child[i] EXCEPT !.termed = TRUE]
  <1>1. r \in ChildRecs
    BY ChildFacts DEF ChildRecs
  <1>2. child' = [child EXCEPT ![i] = r] \/ UNCHANGED childVars
    BY DEF Term, childVars
  <1> HIDE DEF r
  <1>3. faults' \in Nat /\ sock' \in [Procs -> 0..Len(child)]
    BY SocketsKept DEF Term, ChildTypeOK
  <1> QED BY <1>1, <1>2, <1>3, ChildUpdated, ChildrenSame

LEMMA KillOK ==
  ASSUME ChildTypeOK, NEW i \in 1..Len(child), Kill(i)
  PROVE  ChildrenKept
  <1>1. faults' \in Nat
    BY DEF Kill, ChildTypeOK
  <1>2. CASE Live(i)
    BY <1>1, <1>2, DieOK DEF Kill
  <1>3. CASE ~Live(i)
    BY <1>3, ChildrenSame DEF Kill, childVars
  <1> QED BY <1>2, <1>3

LEMMA ReapOK ==
  ASSUME ChildTypeOK, NEW i \in 1..Len(child), Reap(i)
  PROVE  ChildrenKept
  <1> DEFINE r == [child[i] EXCEPT !.phase = "gone"]
  <1>1. r \in ChildRecs
    BY ChildFacts DEF ChildRecs, Phases
  <1>2. child' = [child EXCEPT ![i] = r]
    BY DEF Reap
  <1> HIDE DEF r
  <1>3. faults' \in Nat /\ sock' \in [Procs -> 0..Len(child)]
    BY SocketsKept DEF Reap, ChildTypeOK
  <1> QED BY <1>1, <1>2, <1>3, ChildUpdated

LEMMA SetModeOK ==
  ASSUME ChildTypeOK, NEW p \in Procs, NEW m \in Modes, Told(p, m), faults' \in Nat
  PROVE  ChildrenKept
  <1> DEFINE r == [child[sock[p]] EXCEPT !.mode = m]
  <1>1. sock[p] \in 1..Len(child)
    BY ChildFacts DEF Told, Answers
  <1>2. r \in ChildRecs
    BY <1>1, ChildFacts DEF ChildRecs
  <1>3. child' = [child EXCEPT ![sock[p]] = r]
    BY DEF Told
  <1> HIDE DEF r
  <1>4. sock' \in [Procs -> 0..Len(child)]
    BY SocketsKept DEF Told, ChildTypeOK
  <1> QED BY <1>1, <1>2, <1>3, <1>4, ChildUpdated

LEMMA UnansweredOK ==
  ASSUME ChildTypeOK, NEW p \in Procs, Unanswered(p)
  PROVE  ChildrenKept
  <1> DEFINE r == [child[sock[p]] EXCEPT !.asked = TRUE]
  <1>1. faults' \in Nat /\ sock' \in [Procs -> 0..Len(child)]
    BY SocketsKept DEF Unanswered, ChildTypeOK
  <1>2. CASE sock[p] = 0
    BY <1>2, ChildrenSame DEF Unanswered, childVars
  <1>3. CASE sock[p] # 0
    <2>1. sock[p] \in 1..Len(child)
      BY <1>3, ChildFacts
    <2>2. r \in ChildRecs
      BY <2>1, ChildFacts DEF ChildRecs
    <2>3. child' = [child EXCEPT ![sock[p]] = r]
      BY <1>3 DEF Unanswered
    <2> HIDE DEF r
    <2> QED BY <1>1, <2>1, <2>2, <2>3, ChildUpdated
  <1> QED BY <1>2, <1>3

LEMMA FaultsCounted ==
  ASSUME ChildTypeOK, NEW k, Fault(k)
  PROVE  faults' \in Nat
  BY DEF Fault, ChildTypeOK

LEMMA ChildStepOK ==
  ASSUME ChildTypeOK, NEW i \in 1..Len(child), ChildStep(i)
  PROVE  ChildrenKept
  <1> USE ChildFacts
  <1>1. CASE Boot(i)
    <2> DEFINE r == [child[i] EXCEPT !.phase = "serving"]
    <2>1. r \in ChildRecs /\ child' = [child EXCEPT ![i] = r] /\ faults' \in Nat
      BY <1>1 DEF Boot, ChildRecs, Phases, ChildTypeOK
    <2>2. sock' \in [Procs -> 0..Len(child)]
      BY <1>1, SocketsKept DEF Boot, ChildTypeOK
    <2> QED BY <2>1, <2>2, ChildUpdated
  <1>2. CASE Crash(i) \/ Quit(i)
    BY <1>2, DieOK, FaultsCounted DEF Crash, Quit
  <1>3. CASE Hang(i) \/ Sicken(i)
    <2>1. \E r \in ChildRecs : child' = [child EXCEPT ![i] = r]
      BY <1>3 DEF Hang, Sicken, ChildRecs, Phases
    <2>2. faults' \in Nat /\ sock' \in [Procs -> 0..Len(child)]
      BY <1>3, FaultsCounted, SocketsKept DEF Hang, Sicken
    <2> QED BY <2>1, <2>2, ChildUpdated
  <1>4. CASE Wake(i) \/ Heal(i)
    <2>1. \E r \in ChildRecs : child' = [child EXCEPT ![i] = r]
      BY <1>4 DEF Wake, Heal, ChildRecs, Phases
    <2>2. faults' \in Nat /\ sock' \in [Procs -> 0..Len(child)]
      BY <1>4, SocketsKept DEF Wake, Heal, ChildTypeOK
    <2> QED BY <2>1, <2>2, ChildUpdated
  <1>5. CASE BrokenPipe(i) \/ Terminate(i)
    <2>1. PICK b \in BOOLEAN : Die(i, b)
      BY <1>5 DEF BrokenPipe, Terminate
    <2>2. faults' \in Nat
      BY <1>5 DEF BrokenPipe, Terminate, ChildTypeOK
    <2> QED BY <2>1, <2>2, DieOK
  <1>6. CASE TerminateUnlinks(i)
    <2>1. child' = [child EXCEPT ![i] = Corpse(i, FALSE)]
      BY <1>6 DEF TerminateUnlinks
    <2>2. /\ faults' \in Nat
          /\ sock' = [p \in Procs |-> IF p = child[i].proc THEN 0 ELSE sock[p]]
      BY <1>6 DEF TerminateUnlinks, ChildTypeOK
    <2>3. sock' \in [Procs -> 0..Len(child)]
      BY <2>2
    <2> QED BY <2>1, <2>2, <2>3, CorpseOK, ChildUpdated
  <1> QED BY <1>1, <1>2, <1>3, <1>4, <1>5, <1>6 DEF ChildStep

--------------------------------------------------------------------------
\* Threads.

\* A step that gives one thread a record it can have.
LEMMA ThreadUpdated ==
  ASSUME ThreadsOK, Len(child) \in Nat, Len(child') \in Nat,
         Len(child') >= Len(child),
         NEW t \in Threads, NEW r \in ThreadRecs, Fits(t, r),
         r.pid <= Len(child'),
         th' = [th EXCEPT ![t] = r]
  PROVE  ThreadsOK'
  <1>1. th' \in [Threads -> ThreadRecs]
    BY DEF ThreadsOK
  <1>2. ASSUME NEW u \in Threads
        PROVE  Fits(u, th'[u]) /\ th'[u].pid <= Len(child')
    <2>1. CASE u = t
      BY <2>1 DEF ThreadsOK
    <2>2. CASE u # t
      <3>1. th'[u] = th[u]
        BY <2>2 DEF ThreadsOK
      <3>2. th[u].pid \in Nat /\ th[u].pid <= Len(child)
        BY DEF ThreadsOK, ThreadRecs
      <3> QED BY <3>1, <3>2 DEF ThreadsOK
    <2> QED BY <2>1, <2>2
  <1> QED BY <1>1, <1>2 DEF ThreadsOK, Fits

LEMMA ThreadsSame ==
  ASSUME ThreadsOK, Len(child) \in Nat, Len(child') \in Nat,
         Len(child') >= Len(child), UNCHANGED th
  PROVE  ThreadsOK'
  <1>1. \A u \in Threads : th[u].pid \in Nat
    BY DEF ThreadsOK, ThreadRecs
  <1> QED BY <1>1 DEF ThreadsOK, Fits

\* What holds of a thread in the middle of a call.
LEMMA ThreadFacts ==
  ASSUME ThreadsOK, NEW t \in Threads
  PROVE  /\ th[t] \in ThreadRecs /\ Fits(t, th[t])
         /\ th[t].pid \in Nat /\ th[t].pid <= Len(child)
         /\ th[t].at \in CallPoints => th[t].proc \in Procs
  BY DEF ThreadsOK, ThreadRecs, Fits

LEMMA RestingFits ==
  ASSUME NEW t \in Threads, NEW j \in Jobs \ NamedJobs
  PROVE  Resting(j) \in ThreadRecs /\ Fits(t, Resting(j)) /\ Resting(j).pid = 0
  <1>1. Resting(j) \in ThreadRecs
    BY EmptySeq DEF Resting, ThreadRecs, Points, Answer, ManagerModes
  <1>2. Fits(t, Resting(j)) /\ Resting(j).pid = 0
    BY DEF Fits, Resting, NamedJobs, CallPoints
  <1> QED BY <1>1, <1>2

LEMMA RestOK ==
  ASSUME ChildTypeOK, ChildrenKept, ThreadsOK, NEW t \in Threads,
         NEW j \in Jobs \ NamedJobs, Rest(t, j)
  PROVE  ThreadsOK'
  <1>1. th' = [th EXCEPT ![t] = Resting(j)]
    BY DEF Rest, Become
  <1>2. /\ Len(child) \in Nat /\ Len(child') \in Nat /\ Len(child') >= Len(child)
        /\ Resting(j).pid <= Len(child')
    BY RestingFits, ChildFacts DEF ChildrenKept
  <1> QED BY <1>1, <1>2, RestingFits, ThreadUpdated

LEMMA CallForOK ==
  ASSUME ChildTypeOK, ChildrenKept, ThreadsOK, NEW t \in Threads,
         NEW j \in Jobs \ {"waitpid", "account"},
         NEW f \in Points \ {"mode", "term", "kill"},
         j \in RestingJobs \cup {"idle"} => f = "none",
         NEW p \in Procs, NEW s \in Seq(Procs), CallFor(t, j, f, p, s)
  PROVE  ThreadsOK'
  <1> DEFINE r == [Resting(j) EXCEPT !.at = f, !.proc = p, !.rest = s]
  <1>1. r \in ThreadRecs
    BY DEF Resting, ThreadRecs, Answer, ManagerModes
  <1>2. Fits(t, r) /\ r.pid = 0
    BY DEF Fits, Resting
  <1>3. th' = [th EXCEPT ![t] = r]
    BY DEF CallFor, Become
  <1>4. /\ Len(child) \in Nat /\ Len(child') \in Nat /\ Len(child') >= Len(child)
        /\ r.pid <= Len(child')
    BY <1>2, ChildFacts DEF ChildrenKept
  <1> HIDE DEF r
  <1> QED BY <1>1, <1>2, <1>3, <1>4, ThreadUpdated

LEMMA SweepOK ==
  ASSUME ChildTypeOK, ChildrenKept, ThreadsOK, NEW t \in Threads,
         NEW j \in Jobs \ (RestingJobs \cup NamedJobs \cup {"idle"}),
         NEW m \in Modes, NEW s \in Seq(Procs), Sweep(t, j, m, s)
  PROVE  ThreadsOK'
  <1> DEFINE r == [Resting(j) EXCEPT !.at = "mode", !.mode = m, !.todo = Procs,
                                     !.rest = s]
  <1>1. r \in ThreadRecs
    BY DEF Resting, ThreadRecs, Answer, ManagerModes, Points
  <1>2. Fits(t, r) /\ r.pid = 0
    BY DEF Fits, Resting, NamedJobs, CallPoints
  <1>3. th' = [th EXCEPT ![t] = r]
    BY DEF Sweep, Become
  <1>4. /\ Len(child) \in Nat /\ Len(child') \in Nat /\ Len(child') >= Len(child)
        /\ r.pid <= Len(child')
    BY <1>2, ChildFacts DEF ChildrenKept
  <1> HIDE DEF r
  <1> QED BY <1>1, <1>2, <1>3, <1>4, ThreadUpdated

LEMMA ReturnOK ==
  ASSUME ChildTypeOK, ChildrenKept, ThreadsOK, NEW t \in Threads,
         th[t].at # "none", NEW how \in {"ok", "thrown"}, Return(t, how)
  PROVE  ThreadsOK'
  <1> DEFINE r == [th[t] EXCEPT !.at = how, !.pid = 0, !.todo = {}, !.seen = "none"]
  <1>1. r \in ThreadRecs
    BY ThreadFacts DEF ThreadRecs, Points, Answer
  <1>2. Fits(t, r) /\ r.pid = 0
    BY ThreadFacts DEF Fits, ThreadRecs, CallPoints, RestingJobs
  <1>3. th' = [th EXCEPT ![t] = r]
    BY DEF Return
  <1>4. /\ Len(child) \in Nat /\ Len(child') \in Nat /\ Len(child') >= Len(child)
        /\ r.pid <= Len(child')
    BY <1>2, ChildFacts DEF ChildrenKept
  <1> HIDE DEF r
  <1> QED BY <1>1, <1>2, <1>3, <1>4, ThreadUpdated

\* A step within a call: the thread stays on its job and its process.
LEMMA WithinCallOK ==
  ASSUME ChildTypeOK, ChildrenKept, ThreadsOK, NEW t \in Threads,
         NEW r \in ThreadRecs, th' = [th EXCEPT ![t] = r],
         th[t].at # "none", r.job = th[t].job, r.proc = th[t].proc,
         r.mode = th[t].mode, r.pid <= Len(child),
         r.at \in CallPoints => th[t].at \in CallPoints,
         r.at \in {"term", "kill"} => r.pid # 0,
         r.at = "mode" => th[t].at = "mode"
  PROVE  ThreadsOK'
  <1>1. Fits(t, r)
    BY ThreadFacts DEF Fits, RestingJobs
  <1>2. r.pid <= Len(child')
    BY ChildFacts DEF ChildrenKept, ThreadRecs
  <1> QED BY <1>1, <1>2, ThreadUpdated, ChildFacts DEF ChildrenKept

LEMMA GotoOK ==
  ASSUME ChildTypeOK, ChildrenKept, ThreadsOK, NEW t \in Threads,
         th[t].at \in CallPoints, NEW l \in CallPoints,
         l \in {"term", "kill"} => th[t].at \in {"term", "kill"},
         Goto(t, l)
  PROVE  ThreadsOK'
  <1> DEFINE r == [th[t] EXCEPT !.at = l]
  <1>1. /\ r \in ThreadRecs /\ r.job = th[t].job /\ r.proc = th[t].proc
        /\ r.mode = th[t].mode /\ r.pid = th[t].pid /\ r.at = l
    BY ThreadFacts DEF ThreadRecs, CallPoints, Points
  <1>2. th' = [th EXCEPT ![t] = r]
    BY DEF Goto
  <1>3. r.pid <= Len(child) /\ (r.at \in {"term", "kill"} => r.pid # 0)
    BY <1>1, ThreadFacts DEF Fits
  <1>4. th[t].at # "none" /\ r.at # "mode"
    BY <1>1 DEF CallPoints
  <1> HIDE DEF r
  <1> QED BY <1>1, <1>2, <1>3, <1>4, WithinCallOK

--------------------------------------------------------------------------
\* The shared state.

LEMMA TypeParts ==
  ASSUME TypeOK
  PROVE  /\ ChildTypeOK /\ RuntimeOK /\ ThreadsOK
         /\ \A p \in Procs : /\ runtime[p] \in Runtimes
                             /\ runtime[p].pid \in 0..Len(child)
  BY ChildFacts DEF TypeOK, RuntimeOK, Runtimes

\* A step that leaves the shared state alone.
LEMMA PrivateStep ==
  ASSUME TypeOK, ChildrenKept, ThreadsOK', UNCHANGED superVars,
         bgRunning' \in BOOLEAN, commands' \in Nat
  PROVE  TypeOK'
  <1>1. RuntimeOK'
    BY TypeParts, ChildFacts DEF superVars, ChildrenKept, RuntimeOK
  <1> QED BY <1>1 DEF TypeOK, ChildrenKept, ManagerOK, superVars, managerVars

\* A step that changes the record of one process.
LEMMA RecordStep ==
  ASSUME TypeOK, ChildrenKept, ThreadsOK',
         NEW p \in Procs, NEW r \in Runtimes, r.pid <= Len(child'),
         runtime' = [runtime EXCEPT ![p] = r],
         startOrder' \in Seq(Procs), managerMode' \in ManagerModes,
         managerState' \in ManagerStates, started' \in BOOLEAN,
         bgRunning' \in BOOLEAN, commands' \in Nat
  PROVE  TypeOK'
  <1>1. runtime' \in [Procs -> Runtimes]
    BY TypeParts DEF RuntimeOK
  <1>2. ASSUME NEW q \in Procs PROVE runtime'[q].pid <= Len(child')
    <2>1. CASE q = p
      BY <2>1, TypeParts DEF RuntimeOK
    <2>2. CASE q # p
      <3>1. runtime'[q] = runtime[q]
        BY <2>2, TypeParts DEF RuntimeOK
      <3> QED BY <3>1, TypeParts, ChildFacts DEF ChildrenKept
    <2> QED BY <2>1, <2>2
  <1> QED BY <1>1, <1>2 DEF TypeOK, ChildrenKept, ManagerOK, RuntimeOK

\* A step that changes what the manager knows as a whole.
LEMMA ManagerStep ==
  ASSUME TypeOK, ChildrenKept, ThreadsOK', UNCHANGED runtime,
         startOrder' \in Seq(Procs), managerMode' \in ManagerModes,
         managerState' \in ManagerStates, started' \in BOOLEAN,
         bgRunning' \in BOOLEAN, commands' \in Nat
  PROVE  TypeOK'
  <1>1. RuntimeOK'
    BY TypeParts, ChildFacts DEF ChildrenKept, RuntimeOK
  <1> QED BY <1>1 DEF TypeOK, ChildrenKept, ManagerOK

LEMMA ManagerFacts ==
  ASSUME TypeOK, UNCHANGED managerVars
  PROVE  /\ startOrder' \in Seq(Procs) /\ managerMode' \in ManagerModes
         /\ managerState' \in ManagerStates /\ started' \in BOOLEAN
  BY DEF TypeOK, ManagerOK, managerVars

--------------------------------------------------------------------------
\* TypeOK is preserved by the functions a thread can be in.

LEMMA StartOneOK ==
  ASSUME TypeOK, NEW t \in Threads, StartOne(t),
         bgRunning' \in BOOLEAN, commands' \in Nat
  PROVE  TypeOK'
  <1> USE TypeParts
  <1> DEFINE p == th[t].proc
  <1>1. CASE StartAlready(t) \/ LookGone(t)
    <2>1. /\ th[t].at # "none" /\ UNCHANGED <<superVars, childVars>>
          /\ Return(t, "ok") \/ Return(t, "thrown")
      BY <1>1 DEF StartAlready, LookGone
    <2> QED BY <2>1, ChildrenSame, ReturnOK, PrivateStep
  <1>2. CASE StartProceeds(t)
    <2> DEFINE r == [th[t] EXCEPT !.at = "ping", !.todo = Deps[th[t].proc]]
    <2>1. /\ th[t].at = "start_one" /\ UNCHANGED <<superVars, childVars>>
          /\ th' = [th EXCEPT ![t] = r]
      BY <1>2 DEF StartProceeds
    <2>2. th[t].proc \in Procs
      BY <2>1, ThreadFacts DEF CallPoints
    <2>3. /\ r \in ThreadRecs /\ r.job = th[t].job /\ r.proc = th[t].proc
          /\ r.mode = th[t].mode /\ r.pid = th[t].pid /\ r.at = "ping"
      BY <2>1, <2>2, ThreadFacts, SpecsAssumption DEF ThreadRecs, Points
    <2>4. th[t].at \in CallPoints /\ th[t].pid <= Len(child)
      BY <2>1, ThreadFacts DEF CallPoints
    <2> HIDE DEF r
    <2>5. ChildrenKept
      BY <2>1, ChildrenSame
    <2>6. ThreadsOK'
      BY <2>1, <2>3, <2>4, <2>5, WithinCallOK
    <2> QED BY <2>1, <2>5, <2>6, PrivateStep
  <1>3. ASSUME NEW d \in Procs, PingAnswered(t, d) PROVE TypeOK'
    <2> DEFINE r == [th[t] EXCEPT !.todo = @ \ {d}]
    <2>1. /\ th[t].at = "ping" /\ UNCHANGED <<superVars, childVars>>
          /\ th' = [th EXCEPT ![t] = r]
      BY <1>3 DEF PingAnswered
    <2>2. /\ r \in ThreadRecs /\ r.job = th[t].job /\ r.proc = th[t].proc
          /\ r.mode = th[t].mode /\ r.pid = th[t].pid /\ r.at = "ping"
      BY <2>1, ThreadFacts DEF ThreadRecs
    <2>3. th[t].at \in CallPoints /\ th[t].pid <= Len(child)
      BY <2>1, ThreadFacts DEF CallPoints
    <2> HIDE DEF r
    <2>4. ChildrenKept
      BY <2>1, ChildrenSame
    <2>5. ThreadsOK'
      BY <2>1, <2>2, <2>3, <2>4, WithinCallOK
    <2> QED BY <2>1, <2>4, <2>5, PrivateStep
  <1>4. ASSUME NEW d \in Procs, PingNotRunning(t, d) \/ PingUnanswered(t, d)
        PROVE  TypeOK'
    <2>1. ChildrenKept
      BY <1>4, ChildrenSame, UnansweredOK DEF PingNotRunning, PingUnanswered
    <2>2. th[t].at # "none" /\ UNCHANGED superVars /\ Return(t, "thrown")
      BY <1>4 DEF PingNotRunning, PingUnanswered
    <2> QED BY <2>1, <2>2, ReturnOK, PrivateStep
  <1>5. CASE MarkStarting(t)
    <2>1. /\ th[t].at = "ping" /\ UNCHANGED <<managerVars, childVars>>
          /\ Goto(t, "fork")
      BY <1>5 DEF MarkStarting
    <2>2. p \in Procs
      BY <2>1, ThreadFacts DEF CallPoints
    <2>3. ChildrenKept /\ Len(child') = Len(child)
      BY <2>1, ChildrenSame DEF childVars
    <2> DEFINE r == [runtime[p] EXCEPT !.state = "Starting", !.reach = FALSE]
    <2>4. r \in Runtimes /\ r.pid <= Len(child')
      <3>1. runtime[p] \in Runtimes /\ runtime[p].pid <= Len(child)
        BY <2>2, ChildFacts
      <3>2. r \in Runtimes
        BY <3>1 DEF Runtimes, ProcStates
      <3>3. r.pid = runtime[p].pid
        BY <3>1 DEF Runtimes
      <3> QED BY <3>1, <3>2, <3>3, <2>3
    <2>5. runtime' = [runtime EXCEPT ![p] = r]
      BY <1>5, <2>2 DEF MarkStarting, RuntimeOK, Runtimes
    <2> HIDE DEF r
    <2>6. ThreadsOK'
      BY <2>1, <2>3, GotoOK DEF CallPoints
    <2> QED BY <2>1, <2>2, <2>3, <2>4, <2>5, <2>6, RecordStep, ManagerFacts
  <1>6. CASE Fork(t)
    <2>1. /\ th[t].at = "fork" /\ UNCHANGED managerVars
          /\ Spawn(p) /\ Goto(t, "ask")
      BY <1>6 DEF Fork
    <2>2. p \in Procs
      BY <2>1, ThreadFacts DEF CallPoints
    <2>3. ChildrenKept /\ Len(child') = Len(child) + 1 /\ Len(child) \in Nat
      BY <2>1, <2>2, SpawnOK, ChildFacts
    <2> DEFINE r == [runtime[p] EXCEPT !.pid = Len(child) + 1, !.state = "Starting"]
    <2>4. r \in Runtimes /\ r.pid <= Len(child')
      <3>1. runtime[p] \in Runtimes /\ Len(child) + 1 \in Nat
        BY <2>2, <2>3
      <3>2. r \in Runtimes
        <4> HIDE TypeParts
        <4> QED BY <3>1 DEF Runtimes, ProcStates
      <3>3. r.pid = Len(child) + 1
        BY <3>1 DEF Runtimes
      <3> QED BY <3>2, <3>3, <2>3
    <2>5. runtime' = [runtime EXCEPT ![p] = r]
      BY <1>6, <2>2 DEF Fork, RuntimeOK, Runtimes
    <2> HIDE DEF r
    <2>6. ThreadsOK'
      BY <2>1, <2>3, GotoOK DEF CallPoints
    <2> QED BY <2>1, <2>2, <2>3, <2>4, <2>5, <2>6, RecordStep, ManagerFacts
  <1>7. CASE ForkFails(t) \/ WaitExpires(t)
    <2>1. /\ th[t].at \in {"fork", "ask"} /\ UNCHANGED <<managerVars, childVars>>
          /\ SetState(p, "Failed") /\ Return(t, "thrown")
      BY <1>7 DEF ForkFails, WaitExpires, childVars
    <2>2. p \in Procs
      BY <2>1, ThreadFacts DEF CallPoints
    <2>4. ChildrenKept /\ Len(child') = Len(child)
      BY <2>1, ChildrenSame DEF childVars
    <2> DEFINE r == [runtime[p] EXCEPT !.state = "Failed"]
    <2>5. r \in Runtimes /\ r.pid <= Len(child')
      BY <2>2, <2>4, ChildFacts DEF Runtimes, ProcStates
    <2>6. runtime' = [runtime EXCEPT ![p] = r]
      BY <2>1, <2>2 DEF SetState, RuntimeOK, Runtimes
    <2> HIDE DEF r
    <2>7. ThreadsOK'
      BY <2>1, <2>4, ReturnOK
    <2> QED BY <2>1, <2>2, <2>4, <2>5, <2>6, <2>7, RecordStep, ManagerFacts
  <1>8. CASE LookReady(t) \/ LookAgain(t)
    <2>1. /\ th[t].at = "look" /\ UNCHANGED <<superVars, childVars>>
          /\ Goto(t, "finish") \/ Goto(t, "ask")
      BY <1>8 DEF LookReady, LookAgain
    <2>2. ThreadsOK'
      BY <2>1, ChildrenSame, GotoOK DEF CallPoints
    <2> QED BY <2>1, <2>2, ChildrenSame, PrivateStep
  <1>9. CASE Finish(t)
    <2>1. /\ th[t].at = "finish" /\ UNCHANGED <<managerMode, childVars>>
          /\ Return(t, "ok") /\ started' = TRUE
          /\ managerState' \in {managerState, "RUNNING"}
          /\ startOrder' \in {startOrder, Append(startOrder, p)}
      BY <1>9 DEF Finish
    <2>2. p \in Procs
      BY <2>1, ThreadFacts DEF CallPoints
    <2>3. ChildrenKept /\ Len(child') = Len(child)
      BY <2>1, ChildrenSame DEF childVars
    <2> DEFINE r == [runtime[p] EXCEPT !.state = IF @ = "Starting" THEN "Running" ELSE @]
    <2>4. r \in Runtimes /\ r.pid <= Len(child')
      BY <2>2, <2>3, ChildFacts DEF Runtimes, ProcStates
    <2>5. runtime' = [runtime EXCEPT ![p] = r]
      BY <1>9, <2>2 DEF Finish, RuntimeOK, Runtimes
    <2> HIDE DEF r
    <2>6. /\ startOrder' \in Seq(Procs) /\ managerMode' \in ManagerModes
          /\ managerState' \in ManagerStates /\ started' \in BOOLEAN
      BY <2>1, <2>2, AppendProperties DEF TypeOK, ManagerOK, ManagerStates
    <2>7. ThreadsOK'
      BY <2>1, <2>3, ReturnOK
    <2> QED BY <2>2, <2>3, <2>4, <2>5, <2>6, <2>7, RecordStep
  <1> QED BY <1>1, <1>2, <1>3, <1>4, <1>5, <1>6, <1>7, <1>8, <1>9 DEF StartOne

LEMMA SawOK ==
  ASSUME TypeOK, ChildrenKept, NEW t \in Threads, NEW p \in Procs, Asks(t, p),
         NEW answer \in Answer, Saw(t, p, answer)
  PROVE  ThreadsOK'
  <1> DEFINE r == [th[t] EXCEPT !.at = "commit", !.proc = p, !.seen = answer]
  <1>1. /\ r \in ThreadRecs /\ r.at = "commit" /\ r.proc = p
        /\ r.job = th[t].job /\ r.pid = th[t].pid
    BY TypeParts, ThreadFacts DEF ThreadRecs, Points
  <1>2. Fits(t, r)
    BY <1>1, TypeParts, ThreadFacts DEF Fits, Asks, RestingJobs
  <1>3. th' = [th EXCEPT ![t] = r]
    BY DEF Saw
  <1>4. /\ Len(child) \in Nat /\ Len(child') \in Nat /\ Len(child') >= Len(child)
        /\ r.pid <= Len(child')
    BY <1>1, TypeParts, ThreadFacts, ChildFacts DEF ChildrenKept
  <1> HIDE DEF r
  <1> QED BY <1>1, <1>2, <1>3, <1>4, ThreadUpdated, TypeParts

LEMMA RefreshedOK ==
  ASSUME TypeOK, ChildrenKept, NEW t \in Threads, th[t].at = "commit", Refreshed(t)
  PROVE  ThreadsOK'
  <1> USE TypeParts
  <1>1. CASE t = "poll"
    <2>1. Rest(t, "idle")
      BY <1>1 DEF Refreshed
    <2> QED BY <2>1, RestOK DEF Jobs, NamedJobs
  <1>2. CASE t # "poll"
    <2> DEFINE r == [th[t] EXCEPT !.at = "look", !.seen = "none"]
    <2>1. /\ r \in ThreadRecs /\ r.job = th[t].job /\ r.proc = th[t].proc
          /\ r.mode = th[t].mode /\ r.pid = th[t].pid /\ r.at = "look"
      BY ThreadFacts DEF ThreadRecs, Points, Answer
    <2>2. th' = [th EXCEPT ![t] = r]
      BY <1>2 DEF Refreshed
    <2>3. th[t].at \in CallPoints /\ th[t].pid <= Len(child)
      BY ThreadFacts DEF CallPoints
    <2> HIDE DEF r
    <2> QED BY <2>1, <2>2, <2>3, WithinCallOK
  <1> QED BY <1>1, <1>2

LEMMA RefreshOK ==
  ASSUME TypeOK, NEW t \in Threads, Refresh(t),
         bgRunning' \in BOOLEAN, commands' \in Nat
  PROVE  TypeOK'
  <1> USE TypeParts
  <1>1. ASSUME NEW p \in Procs, AskDown(t, p) \/ AskAnswered(t, p)
        PROVE  TypeOK'
    <2>1. Asks(t, p) /\ UNCHANGED <<superVars, childVars>>
      BY <1>1 DEF AskDown, AskAnswered
    <2>2. ChildrenKept
      BY <2>1, ChildrenSame
    <2>3. CASE AskDown(t, p)
      <3>1. Saw(t, p, "down") /\ "down" \in Answer
        BY <2>3 DEF AskDown, Answer
      <3> QED BY <2>1, <2>2, <3>1, SawOK, PrivateStep
    <2>4. CASE AskAnswered(t, p)
      <3>1. sock[p] \in 1..Len(child)
        BY <2>4, ChildFacts DEF AskAnswered, Answers
      <3>2. child[sock[p]].health \in Answer
        BY <3>1, ChildFacts DEF ChildRecs, Answer
      <3>3. Saw(t, p, child[sock[p]].health)
        BY <2>4 DEF AskAnswered
      <3> QED BY <2>1, <2>2, <3>2, <3>3, SawOK, PrivateStep
    <2> QED BY <1>1, <2>3, <2>4
  <1>2. ASSUME NEW p \in Procs, AskUnanswered(t, p) PROVE TypeOK'
    <2>1. /\ Asks(t, p) /\ Unanswered(p) /\ UNCHANGED superVars
          /\ Saw(t, p, "silent") /\ "silent" \in Answer
      BY <1>2 DEF AskUnanswered, Answer
    <2> QED BY <2>1, UnansweredOK, SawOK, PrivateStep
  <1>3. CASE CommitDown(t) \/ CommitSilent(t) \/ CommitStatus(t)
    <2> DEFINE p == th[t].proc
    <2>1. /\ th[t].at = "commit" /\ UNCHANGED <<managerVars, childVars>>
          /\ Refreshed(t)
      BY <1>3 DEF CommitDown, CommitSilent, CommitStatus
    <2>2. p \in Procs
      BY <2>1, ThreadFacts DEF CallPoints
    <2>3. ChildrenKept /\ Len(child') = Len(child)
      BY <2>1, ChildrenSame DEF childVars
    <2>4. PICK b \in BOOLEAN, s \in ProcStates :
            runtime' = [runtime EXCEPT ![p].reach = b, ![p].state = s]
      <3>1. runtime[p].state \in ProcStates
        BY <2>2 DEF Runtimes
      <3>2. CASE CommitDown(t)
        <4>1. runtime' = [runtime EXCEPT ![p].reach = FALSE,
                                         ![p].state = runtime[p].state]
          BY <2>2, <3>2 DEF CommitDown, RuntimeOK, Runtimes
        <4> QED BY <3>1, <4>1
      <3>3. CASE CommitSilent(t)
        BY <3>1, <3>3 DEF CommitSilent, ProcStates
      <3>4. CASE CommitStatus(t)
        BY <3>1, <3>4 DEF CommitStatus, Judged, ProcStates
      <3> QED BY <1>3, <3>2, <3>3, <3>4
    <2> DEFINE r == [runtime[p] EXCEPT !.reach = b, !.state = s]
    <2>5. r \in Runtimes /\ r.pid <= Len(child')
      <3>1. runtime[p] \in Runtimes /\ runtime[p].pid <= Len(child)
        BY <2>2, ChildFacts
      <3>2. r \in Runtimes
        BY <3>1 DEF Runtimes
      <3>3. r.pid = runtime[p].pid
        BY <3>1 DEF Runtimes
      <3> QED BY <3>1, <3>2, <3>3, <2>3
    <2>6. runtime' = [runtime EXCEPT ![p] = r]
      BY <2>2, <2>4 DEF RuntimeOK, Runtimes
    <2> HIDE DEF r
    <2> QED BY <2>1, <2>2, <2>3, <2>5, <2>6, RefreshedOK, RecordStep, ManagerFacts
  <1> QED BY <1>1, <1>2, <1>3 DEF Refresh

LEMMA StopOneOK ==
  ASSUME TypeOK, NEW t \in Threads, StopOne(t),
         bgRunning' \in BOOLEAN, commands' \in Nat
  PROVE  TypeOK'
  <1> USE TypeParts
  <1> DEFINE p == th[t].proc
  <1>1. CASE StopNothing(t)
    <2>1. /\ th[t].at = "stop_one" /\ UNCHANGED <<managerVars, childVars>>
          /\ Return(t, "ok")
      BY <1>1 DEF StopNothing
    <2>2. p \in Procs
      BY <2>1, ThreadFacts DEF CallPoints
    <2>3. ChildrenKept /\ Len(child') = Len(child)
      BY <2>1, ChildrenSame DEF childVars
    <2> DEFINE r == [runtime[p] EXCEPT !.state = "Stopped", !.reach = FALSE]
    <2>4. r \in Runtimes /\ r.pid <= Len(child')
      <3>1. runtime[p] \in Runtimes /\ runtime[p].pid <= Len(child)
        BY <2>2, ChildFacts
      <3>2. r \in Runtimes
        BY <3>1 DEF Runtimes, ProcStates
      <3>3. r.pid = runtime[p].pid
        BY <3>1 DEF Runtimes
      <3> QED BY <3>1, <3>2, <3>3, <2>3
    <2>5. runtime' = [runtime EXCEPT ![p] = r]
      BY <1>1, <2>2 DEF StopNothing, RuntimeOK, Runtimes
    <2> HIDE DEF r
    <2>6. ThreadsOK'
      BY <2>1, <2>3, ReturnOK
    <2> QED BY <2>1, <2>2, <2>3, <2>4, <2>5, <2>6, RecordStep, ManagerFacts
  <1>2. CASE StopSignal(t)
    <2>1. /\ th[t].at = "stop_one" /\ UNCHANGED managerVars
          /\ SetState(p, "Stopping") /\ runtime[p].pid # 0 /\ Term(runtime[p].pid)
      BY <1>2 DEF StopSignal
    <2>2. p \in Procs
      BY <2>1, ThreadFacts DEF CallPoints
    <2>3. runtime[p].pid \in 1..Len(child) /\ runtime[p] \in Runtimes
      BY <2>1, <2>2, ChildFacts
    <2>4. ChildrenKept
      BY <2>1, <2>3, TermOK
    <2> DEFINE r == [runtime[p] EXCEPT !.state = "Stopping"]
    <2>5. r \in Runtimes /\ r.pid <= Len(child')
      BY <2>3, <2>4, ChildFacts DEF Runtimes, ProcStates, ChildrenKept
    <2>6. runtime' = [runtime EXCEPT ![p] = r]
      BY <2>1, <2>2 DEF SetState, RuntimeOK, Runtimes
    <2> DEFINE q == [th[t] EXCEPT !.at = "term", !.pid = runtime[p].pid]
    <2>7. /\ q \in ThreadRecs /\ q.job = th[t].job /\ q.proc = th[t].proc
          /\ q.mode = th[t].mode /\ q.pid = runtime[p].pid /\ q.at = "term"
      <3>1. th[t] \in ThreadRecs /\ runtime[p].pid \in Nat
        BY <2>3, ThreadFacts, ChildFacts
      <3> HIDE TypeParts
      <3> QED BY <3>1 DEF ThreadRecs, Points
    <2>8. th' = [th EXCEPT ![t] = q]
      BY <1>2 DEF StopSignal
    <2>9. th[t].at \in CallPoints /\ q.pid <= Len(child) /\ q.pid # 0
      BY <2>1, <2>3, <2>7, ChildFacts DEF CallPoints
    <2> HIDE DEF r, q
    <2>10. ThreadsOK'
      BY <2>1, <2>4, <2>7, <2>8, <2>9, WithinCallOK
    <2> QED BY <2>1, <2>2, <2>4, <2>5, <2>6, <2>10, RecordStep, ManagerFacts
  <1>3. CASE StopDone(t) \/ StopTimeout(t)
    <2>1. /\ th[t].at \in {"term", "kill"} /\ UNCHANGED <<superVars, childVars>>
          /\ Return(t, "ok") \/ Return(t, "thrown")
      BY <1>3 DEF StopDone, StopTimeout
    <2> QED BY <2>1, ChildrenSame, ReturnOK, PrivateStep
  <1>4. CASE StopEscalate(t)
    <2>1. /\ th[t].at = "term" /\ UNCHANGED superVars
          /\ Kill(th[t].pid) /\ Goto(t, "kill")
      BY <1>4 DEF StopEscalate
    <2>2. th[t].pid \in 1..Len(child)
      BY <2>1, ThreadFacts, ChildFacts DEF Fits
    <2>3. ChildrenKept
      BY <2>1, <2>2, KillOK
    <2>4. ThreadsOK'
      BY <2>1, <2>3, GotoOK DEF CallPoints
    <2> QED BY <2>1, <2>3, <2>4, PrivateStep
  <1> QED BY <1>1, <1>2, <1>3, <1>4 DEF StopOne

LEMMA ApplyModeOK ==
  ASSUME TypeOK, NEW t \in Threads, ApplyMode(t),
         bgRunning' \in BOOLEAN, commands' \in Nat
  PROVE  TypeOK'
  <1> USE TypeParts
  <1>1. ASSUME NEW p \in Procs, ModeSkip(t, p) \/ ModeTold(t, p)
        PROVE  TypeOK'
    <2> DEFINE r == [th[t] EXCEPT !.todo = @ \ {p}]
    <2>1. /\ th[t].at = "mode" /\ UNCHANGED superVars
          /\ th' = [th EXCEPT ![t] = r]
      BY <1>1 DEF ModeSkip, ModeTold, Visits
    <2>2. th[t].mode \in Modes
      BY <2>1, ThreadFacts DEF Fits
    <2>3. ChildrenKept
      BY <1>1, <2>2, ChildrenSame, SetModeOK DEF ModeSkip, ModeTold, SetMode, ChildTypeOK
    <2>4. /\ r \in ThreadRecs /\ r.job = th[t].job /\ r.proc = th[t].proc
          /\ r.mode = th[t].mode /\ r.pid = th[t].pid /\ r.at = "mode"
      BY <2>1, ThreadFacts DEF ThreadRecs
    <2>5. r.pid <= Len(child) /\ r.at \notin CallPoints
      BY <2>4, ThreadFacts DEF CallPoints
    <2> HIDE DEF r
    <2>6. ThreadsOK'
      BY <2>1, <2>3, <2>4, <2>5, WithinCallOK DEF CallPoints
    <2> QED BY <2>1, <2>3, <2>6, PrivateStep
  <1>2. ASSUME NEW p \in Procs, ModeUnanswered(t, p) PROVE TypeOK'
    <2>1. /\ th[t].at = "mode" /\ Unanswered(p) /\ UNCHANGED superVars
          /\ Return(t, "thrown")
      BY <1>2 DEF ModeUnanswered, Visits
    <2> QED BY <2>1, UnansweredOK, ReturnOK, PrivateStep
  <1>3. ASSUME NEW p \in Procs, ModeLate(t, p) PROVE TypeOK'
    <2>1. /\ th[t].at = "mode" /\ Told(p, th[t].mode) /\ UNCHANGED superVars
          /\ faults' = faults + 1 /\ Return(t, "thrown")
      BY <1>3 DEF ModeLate, Visits, Fault
    <2>2. th[t].mode \in Modes
      BY <2>1, ThreadFacts DEF Fits
    <2>3. ChildrenKept
      BY <2>1, <2>2, SetModeOK DEF ChildTypeOK
    <2> QED BY <2>1, <2>3, ReturnOK, PrivateStep
  <1>4. CASE ModeDone(t)
    <2>1. /\ th[t].at = "mode" /\ UNCHANGED <<superVars, childVars>>
          /\ Return(t, "ok")
      BY <1>4 DEF ModeDone
    <2> QED BY <2>1, ChildrenSame, ReturnOK, PrivateStep
  <1> QED BY <1>1, <1>2, <1>3, <1>4 DEF ApplyMode

--------------------------------------------------------------------------
\* TypeOK is preserved by stop_all and by the jobs of the four threads.

LEMMA EndsOfSeq ==
  ASSUME NEW r \in Seq(Procs), r # <<>>
  PROVE  /\ Head(r) \in Procs /\ Tail(r) \in Seq(Procs)
         /\ r[Len(r)] \in Procs /\ SubSeq(r, 1, Len(r) - 1) \in Seq(Procs)
  <1>1. Len(r) \in Nat /\ Len(r) # 0
    BY EmptySeq, LenProperties
  <1>2. \A i \in 1..Len(r) : r[i] \in Procs
    BY ElementOfSeq
  <1>3. SubSeq(r, 1, Len(r) - 1) \in Seq(Procs)
    BY <1>1, <1>2, SubSeqProperties
  <1> QED BY <1>1, <1>2, <1>3, HeadTailProperties

\* A thread whose list of names has run out.
LEMMA ListEndedOK ==
  ASSUME TypeOK, ChildrenKept, NEW t \in Threads,
         NEW j \in {"start_all", "undo", "stop_all"},
         Become(t, [Resting(j) EXCEPT !.at = "ok"])
  PROVE  ThreadsOK'
  <1> DEFINE r == [Resting(j) EXCEPT !.at = "ok"]
  <1>1. r \in ThreadRecs
    BY EmptySeq DEF Resting, ThreadRecs, Jobs, Points, Answer, ManagerModes
  <1>2. Fits(t, r) /\ r.pid = 0
    BY DEF Fits, Resting, NamedJobs, CallPoints, RestingJobs
  <1>3. th' = [th EXCEPT ![t] = r]
    BY DEF Become
  <1>4. /\ Len(child) \in Nat /\ Len(child') \in Nat /\ Len(child') >= Len(child)
        /\ r.pid <= Len(child')
    BY <1>2, TypeParts, ChildFacts DEF ChildrenKept
  <1> HIDE DEF r
  <1> QED BY <1>1, <1>2, <1>3, <1>4, ThreadUpdated, TypeParts

LEMMA StopRestOK ==
  ASSUME TypeOK, ChildrenKept, NEW t \in Threads, NEW j \in {"undo", "stop_all"},
         NEW r \in Seq(Procs), StopRest(t, j, r)
  PROVE  ThreadsOK'
  <1>1. CASE r = <<>>
    BY <1>1, ListEndedOK DEF StopRest
  <1>2. CASE r # <<>>
    <2>1. CallFor(t, j, "stop_one", r[Len(r)], SubSeq(r, 1, Len(r) - 1))
      BY <1>2 DEF StopRest
    <2>2. /\ j \in Jobs \ {"waitpid", "account"} /\ j \notin RestingJobs \cup {"idle"}
          /\ "stop_one" \in Points \ {"mode", "term", "kill"}
      BY DEF Jobs, RestingJobs, Points
    <2> QED BY <1>2, <2>1, <2>2, EndsOfSeq, CallForOK, TypeParts
  <1> QED BY <1>1, <1>2

LEMMA SafeSweepOK ==
  ASSUME TypeOK, ChildrenKept, NEW t \in Threads,
         NEW j \in {"start_safe", "set_mode", "stop_safe", "safe", "main_safe"},
         NEW m \in Modes, NEW r \in Seq(Procs), Sweep(t, j, m, r)
  PROVE  ThreadsOK'
  <1>1. j \in Jobs \ (RestingJobs \cup NamedJobs \cup {"idle"})
    BY DEF Jobs, RestingJobs, NamedJobs
  <1> QED BY <1>1, SweepOK, TypeParts

LEMMA StopAllBeginsOK ==
  ASSUME TypeOK, NEW t \in Threads, StopAllBegins(t) \/ StopAllNothing(t),
         bgRunning' \in BOOLEAN, commands' \in Nat
  PROVE  TypeOK'
  <1> USE TypeParts
  <1>1. ChildrenKept
    BY ChildrenSame DEF StopAllBegins, StopAllNothing
  <1>2. CASE StopAllBegins(t)
    <2>1. ThreadsOK'
      BY <1>1, <1>2, SafeSweepOK DEF StopAllBegins, TypeOK, ManagerOK, Modes
    <2> QED BY <1>1, <1>2, <2>1, ManagerStep
            DEF StopAllBegins, TypeOK, ManagerOK, ManagerStates
  <1>3. CASE StopAllNothing(t)
    <2>1. PICK j \in Jobs \ NamedJobs : Rest(t, j)
      BY <1>3 DEF StopAllNothing, AfterStopAll, Jobs, NamedJobs
    <2> QED BY <1>1, <1>3, <2>1, RestOK, PrivateStep DEF StopAllNothing
  <1> QED BY <1>2, <1>3

LEMMA StopAllOK ==
  ASSUME TypeOK, NEW t \in Threads, StopAll(t),
         bgRunning' \in BOOLEAN, commands' \in Nat
  PROVE  TypeOK'
  <1> USE TypeParts
  <1>1. ChildrenKept
    BY ChildrenSame DEF StopAll, StopAllSafe, StopAllNext, StopAllEnds, EnterSafeEnds
  <1>2. th[t].rest \in Seq(Procs)
    BY ThreadFacts DEF ThreadRecs
  <1>3. CASE StopAllSafe(t)
    <2>1. ThreadsOK'
      BY <1>1, <1>2, <1>3, StopRestOK DEF StopAllSafe
    <2> QED BY <1>1, <1>3, <2>1, ManagerStep
            DEF StopAllSafe, EnterSafeEnds, TypeOK, ManagerOK, ManagerModes, Modes
  <1>4. CASE StopAllNext(t)
    <2>1. ThreadsOK'
      BY <1>1, <1>2, <1>4, StopRestOK DEF StopAllNext
    <2> QED BY <1>1, <1>4, <2>1, PrivateStep DEF StopAllNext
  <1>5. CASE StopAllEnds(t)
    <2>1. PICK j \in Jobs \ NamedJobs : Rest(t, j)
      BY <1>5 DEF StopAllEnds, AfterStopAll, Jobs, NamedJobs
    <2>2. ThreadsOK'
      BY <1>1, <2>1, RestOK
    <2> QED BY <1>1, <1>5, <2>2, ManagerStep
            DEF StopAllEnds, TypeOK, ManagerOK, ManagerModes, ManagerStates
  <1> QED BY <1>3, <1>4, <1>5 DEF StopAll

LEMMA CallOK ==
  ASSUME TypeOK, NEW t \in Threads, Call(t), UNCHANGED <<bgRunning, commands>>
  PROVE  TypeOK'
  <1>1. bgRunning' \in BOOLEAN /\ commands' \in Nat
    BY DEF TypeOK, ManagerOK
  <1> QED BY <1>1, StartOneOK, RefreshOK, StopOneOK, ApplyModeOK, StopAllOK DEF Call

LEMMA StartRestOK ==
  ASSUME TypeOK, ChildrenKept, NEW r \in Seq(Procs), StartRest(r)
  PROVE  ThreadsOK'
  <1>1. CASE r = <<>>
    BY <1>1, ListEndedOK DEF StartRest, Threads
  <1>2. CASE r # <<>>
    <2>1. CallFor("control", "start_all", "start_one", Head(r), r)
      BY <1>2 DEF StartRest
    <2>2. /\ "start_all" \in Jobs \ {"waitpid", "account"}
          /\ "start_all" \notin RestingJobs \cup {"idle"}
          /\ "start_one" \in Points \ {"mode", "term", "kill"}
          /\ "control" \in Threads
      BY DEF Jobs, RestingJobs, Points, Threads
    <2> QED BY <1>2, <2>1, <2>2, EndsOfSeq, CallForOK, TypeParts
  <1> QED BY <1>1, <1>2

LEMMA AcceptOK ==
  ASSUME TypeOK, Accept, UNCHANGED bgRunning
  PROVE  TypeOK'
  <1> USE TypeParts
  <1>1. bgRunning' \in BOOLEAN /\ commands' \in Nat
    BY DEF TypeOK, ManagerOK, Accept, CmdStartAlready, CmdStart, CmdStop, CmdStartProc,
           CmdStopProc, CmdRestart, CmdModeRefused, CmdMode, Command
  <1>2. "control" \in Threads /\ <<>> \in Seq(Procs)
    BY EmptySeq DEF Threads
  <1>3. ASSUME UNCHANGED <<superVars, th, childVars>> PROVE TypeOK'
    BY <1>1, <1>3, ChildrenSame, ChildFacts, ThreadsSame, PrivateStep DEF ChildrenKept
  <1>4. CASE CmdStart
    <2>1. ChildrenKept
      BY <1>4, ChildrenSame DEF CmdStart
    <2>2. ThreadsOK'
      BY <1>4, <2>1, StartRestOK, OrderAssumption DEF CmdStart
    <2> QED BY <1>1, <1>4, <2>1, <2>2, ManagerStep
            DEF CmdStart, TypeOK, ManagerOK, ManagerStates
  <1>5. CASE CmdStop
    BY <1>1, <1>2, <1>5, StopAllBeginsOK DEF CmdStop
  <1>6. ASSUME NEW p \in Procs, CmdStartProc(p) \/ CmdStopProc(p) \/ CmdRestart(p)
        PROVE  TypeOK'
    <2>1. ChildrenKept /\ UNCHANGED superVars
      BY <1>6, ChildrenSame DEF CmdStartProc, CmdStopProc, CmdRestart
    <2>2. PICK j \in {"call", "restart"}, f \in {"start_one", "stop_one"} :
            CallFor("control", j, f, p, <<>>)
      BY <1>6 DEF CmdStartProc, CmdStopProc, CmdRestart
    <2>3. /\ j \in Jobs \ {"waitpid", "account"} /\ j \notin RestingJobs \cup {"idle"}
          /\ f \in Points \ {"mode", "term", "kill"}
      BY DEF Jobs, RestingJobs, Points
    <2>4. ThreadsOK'
      BY <1>2, <2>1, <2>2, <2>3, CallForOK
    <2> QED BY <1>1, <2>1, <2>4, PrivateStep
  <1>7. ASSUME NEW m \in CmdModes, CmdMode(m) PROVE TypeOK'
    <2>1. ChildrenKept /\ UNCHANGED superVars
      BY <1>7, ChildrenSame DEF CmdMode
    <2>2. m \in Modes
      BY CommandsAssumption
    <2>3. ThreadsOK'
      BY <1>2, <1>7, <2>1, <2>2, SafeSweepOK DEF CmdMode
    <2> QED BY <1>1, <2>1, <2>3, PrivateStep
  <1>8. CASE CmdStartAlready \/ \E m \in CmdModes : CmdModeRefused(m)
    BY <1>3, <1>8 DEF CmdStartAlready, CmdModeRefused
  <1> QED BY <1>4, <1>5, <1>6, <1>7, <1>8 DEF Accept

LEMMA ControlJobOK ==
  ASSUME TypeOK, ControlJob, UNCHANGED <<bgRunning, commands>>
  PROVE  TypeOK'
  <1> USE TypeParts
  <1>1. bgRunning' \in BOOLEAN /\ commands' \in Nat
    BY DEF TypeOK, ManagerOK
  <1>2. "control" \in Threads /\ "idle" \in Jobs \ NamedJobs
    BY DEF Threads, Jobs, NamedJobs
  <1>3. ChildrenKept
    BY ChildrenSame DEF ControlJob, StartAllNext, StartAllDone, StartAllSafe,
                        StartAllUndo, UndoNext, UndoEnds, RestartStarts, Replied, SetModeDone
  <1>4. th["control"] \in ThreadRecs /\ th["control"].rest \in Seq(Procs)
    BY <1>2, ThreadFacts DEF ThreadRecs
  <1>5. CASE StartAllNext
    <2>1. Tail(th["control"].rest) \in Seq(Procs)
      BY <1>4, <1>5, EmptySeq, EndsOfSeq DEF StartAllNext
    <2> QED BY <1>1, <1>3, <1>5, <2>1, StartRestOK, PrivateStep DEF StartAllNext
  <1>6. CASE StartAllDone
    <2>1. ThreadsOK'
      BY <1>2, <1>3, <1>6, EmptySeq, SafeSweepOK DEF StartAllDone, Modes
    <2> QED BY <1>1, <1>3, <1>6, <2>1, ManagerStep, OrderAssumption
            DEF StartAllDone, TypeOK, ManagerOK, ManagerStates
  <1>7. CASE StartAllSafe \/ UndoEnds \/ SetModeDone
    <2>1. ThreadsOK'
      BY <1>2, <1>3, <1>7, RestOK DEF StartAllSafe, UndoEnds, SetModeDone
    <2>2. th["control"].mode \in ManagerModes
      BY <1>4 DEF ThreadRecs
    <2>3. CASE StartAllSafe
      BY <1>1, <1>3, <2>1, <2>3, ManagerStep
         DEF StartAllSafe, TypeOK, ManagerOK, ManagerModes, Modes
    <2>4. CASE UndoEnds
      BY <1>1, <1>3, <2>1, <2>4, ManagerStep
         DEF UndoEnds, TypeOK, ManagerOK, ManagerStates
    <2>5. CASE SetModeDone
      BY <1>1, <1>3, <2>1, <2>2, <2>5, ManagerStep
         DEF SetModeDone, TypeOK, ManagerOK
    <2> QED BY <1>7, <2>3, <2>4, <2>5
  <1>8. CASE StartAllUndo
    <2> DEFINE r == SubSeq(Order, 1, Len(Order) - Len(th["control"].rest))
    <2>1. r \in Seq(Procs)
      <3>1. Len(Order) \in Nat /\ Len(th["control"].rest) \in Nat
        BY <1>4, OrderAssumption, LenProperties
      <3>2. \A i \in 1..Len(Order) : Order[i] \in Procs
        BY OrderAssumption, ElementOfSeq
      <3> QED BY <3>1, <3>2, SubSeqProperties
    <2>2. StopRest("control", "undo", r) /\ UNCHANGED superVars
      BY <1>8 DEF StartAllUndo
    <2> HIDE DEF r
    <2> QED BY <1>1, <1>2, <1>3, <2>1, <2>2, StopRestOK, PrivateStep
  <1>9. CASE UndoNext
    BY <1>1, <1>2, <1>3, <1>4, <1>9, StopRestOK, PrivateStep DEF UndoNext
  <1>10. CASE RestartStarts
    <2>1. /\ th["control"].job = "restart" /\ UNCHANGED superVars
          /\ CallFor("control", "call", "start_one", th["control"].proc, <<>>)
      BY <1>10 DEF RestartStarts
    <2>2. th["control"].proc \in Procs /\ <<>> \in Seq(Procs)
      BY <1>2, <2>1, ThreadFacts, EmptySeq DEF Fits, NamedJobs
    <2>3. /\ "call" \in Jobs \ {"waitpid", "account"} /\ "call" \notin RestingJobs \cup {"idle"}
          /\ "start_one" \in Points \ {"mode", "term", "kill"}
      BY DEF Jobs, RestingJobs, Points
    <2>4. ThreadsOK'
      BY <1>2, <1>3, <2>1, <2>2, <2>3, CallForOK
    <2> QED BY <1>1, <1>3, <2>1, <2>4, PrivateStep
  <1>11. CASE Replied
    BY <1>1, <1>2, <1>3, <1>11, RestOK, PrivateStep DEF Replied
  <1> QED BY <1>5, <1>6, <1>7, <1>8, <1>9, <1>10, <1>11 DEF ControlJob

LEMMA MonitorJobOK ==
  ASSUME TypeOK, MonitorJob, UNCHANGED <<bgRunning, commands>>
  PROVE  TypeOK'
  <1> USE TypeParts
  <1> DEFINE m == th["monitor"]
  <1> DEFINE p == m.proc
  <1>1. bgRunning' \in BOOLEAN /\ commands' \in Nat
    BY DEF TypeOK, ManagerOK
  <1>2. /\ "monitor" \in Threads /\ "scan" \in Jobs \ NamedJobs
        /\ "error" \in Jobs \ NamedJobs /\ "exited" \in Jobs \ NamedJobs
        /\ <<>> \in Seq(Procs)
    BY EmptySeq DEF Threads, Jobs, NamedJobs
  <1>3. /\ m \in ThreadRecs /\ Fits("monitor", m) /\ m.pid \in Nat
        /\ m.pid <= Len(child) /\ Len(child) \in Nat
    BY <1>2, ThreadFacts, ChildFacts
  <1>4. ASSUME NEW q \in Procs, MonitorLook(q) PROVE TypeOK'
    <2>1. ChildrenKept /\ UNCHANGED superVars
      BY <1>4, ChildrenSame DEF MonitorLook
    <2> DEFINE r == [Resting("waitpid") EXCEPT !.proc = q, !.pid = runtime[q].pid]
    <2>2. runtime[q].pid \in 1..Len(child) /\ th' = [th EXCEPT !["monitor"] = r]
      BY <1>4 DEF MonitorLook, Become
    <2>3. /\ r \in ThreadRecs /\ r.pid = runtime[q].pid /\ r.at = "none"
          /\ r.proc = q /\ r.job = "waitpid"
      <3>1. runtime[q].pid \in Nat
        BY <2>2
      <3> HIDE TypeParts
      <3> QED BY <1>2, <3>1 DEF Resting, ThreadRecs, Jobs, Points, Answer, ManagerModes
    <2> HIDE DEF r
    <2>4. Fits("monitor", r)
      BY <2>2, <2>3 DEF Fits, CallPoints
    <2>5. /\ Len(child) \in Nat /\ Len(child') \in Nat /\ Len(child') >= Len(child)
          /\ r.pid <= Len(child')
      BY <1>3, <2>1, <2>2, <2>3 DEF ChildrenKept
    <2>6. ThreadsOK'
      BY <1>2, <2>2, <2>3, <2>4, <2>5, ThreadUpdated
    <2> QED BY <1>1, <2>1, <2>6, PrivateStep
  <1>5. CASE MonitorNothing \/ Revived \/ MonitorExits
    <2>1. ChildrenKept /\ UNCHANGED superVars
      BY <1>5, ChildrenSame DEF MonitorNothing, Revived, MonitorExits
    <2>2. ThreadsOK'
      BY <1>2, <1>5, <2>1, RestOK DEF MonitorNothing, Revived, MonitorExits
    <2> QED BY <1>1, <2>1, <2>2, PrivateStep
  <1>6. CASE MonitorReaps
    <2>1. m.pid \in 1..Len(child)
      BY <1>3, <1>6 DEF MonitorReaps, Fits
    <2>2. ChildrenKept
      BY <1>6, <2>1, ReapOK DEF MonitorReaps
    <2> DEFINE r == [m EXCEPT !.job = "account"]
    <2>3. /\ r \in ThreadRecs /\ r.job = "account" /\ r.at = m.at /\ r.pid = m.pid
          /\ r.proc = m.proc /\ r.mode = m.mode
      BY <1>3 DEF ThreadRecs, Jobs
    <2>4. Fits("monitor", r)
      BY <1>3, <1>6, <2>3 DEF Fits, MonitorReaps, NamedJobs, RestingJobs
    <2>5. th' = [th EXCEPT !["monitor"] = r]
      BY <1>6 DEF MonitorReaps
    <2>6. /\ Len(child') \in Nat /\ Len(child') >= Len(child) /\ r.pid <= Len(child')
      BY <1>3, <2>2, <2>3 DEF ChildrenKept
    <2> HIDE DEF r
    <2>7. ThreadsOK'
      BY <1>2, <1>3, <2>3, <2>4, <2>5, <2>6, ThreadUpdated
    <2> QED BY <1>1, <1>6, <2>2, <2>7, PrivateStep DEF MonitorReaps
  <1>7. CASE AccountStopped \/ AccountCritical \/ AccountExited \/ AccountRestart
    <2>1. PICK s \in {"Stopped", "Exited"} : Account(s)
      BY <1>7 DEF AccountStopped, AccountCritical, AccountExited, AccountRestart
    <2>2. UNCHANGED <<managerVars, childVars>> /\ m.job = "account"
      BY <2>1 DEF Account
    <2>3. p \in Procs
      BY <1>3, <2>2 DEF Fits, NamedJobs
    <2>4. ChildrenKept
      BY <2>2, ChildrenSame
    <2> DEFINE r == [runtime[p] EXCEPT !.pid = 0, !.reach = FALSE, !.state = s]
    <2>5. r \in Runtimes /\ r.pid <= Len(child')
      <3>1. runtime[p] \in Runtimes
        BY <2>3
      <3>2. r \in Runtimes /\ r.pid = 0
        BY <3>1 DEF Runtimes, ProcStates
      <3> QED BY <3>2, <2>4 DEF ChildrenKept
    <2>6. runtime' = [runtime EXCEPT ![p] = r]
      BY <2>1, <2>3 DEF Account, RuntimeOK, Runtimes
    <2>7. ThreadsOK'
      <3>1. CASE AccountStopped \/ AccountExited
        BY <1>2, <2>4, <3>1, RestOK DEF AccountStopped, AccountExited
      <3>2. CASE AccountCritical
        BY <1>2, <2>4, <3>2, SafeSweepOK DEF AccountCritical, Modes
      <3>3. CASE AccountRestart
        <4>1. CallFor("monitor", "backoff", "none", p, <<>>)
          BY <3>3 DEF AccountRestart
        <4>2. /\ "backoff" \in Jobs \ {"waitpid", "account"}
              /\ "none" \in Points \ {"mode", "term", "kill"}
          BY DEF Jobs, Points
        <4> QED BY <1>2, <2>3, <2>4, <4>1, <4>2, CallForOK
      <3> QED BY <1>7, <3>1, <3>2, <3>3
    <2> HIDE DEF r
    <2> QED BY <1>1, <2>2, <2>3, <2>4, <2>5, <2>6, <2>7, RecordStep, ManagerFacts
  <1>8. CASE MonitorSafe \/ MonitorError
    <2>1. ChildrenKept
      BY <1>8, ChildrenSame DEF MonitorSafe, MonitorError, EnterSafeEnds
    <2>2. ThreadsOK'
      BY <1>2, <1>8, <2>1, RestOK DEF MonitorSafe, MonitorError
    <2>3. CASE MonitorSafe
      BY <1>1, <2>1, <2>2, <2>3, ManagerStep
         DEF MonitorSafe, EnterSafeEnds, TypeOK, ManagerOK, ManagerModes, Modes
    <2>4. CASE MonitorError
      BY <1>1, <2>1, <2>2, <2>4, ManagerStep
         DEF MonitorError, TypeOK, ManagerOK, ManagerStates
    <2> QED BY <1>8, <2>3, <2>4
  <1>9. CASE Revive
    <2>1. /\ m.job = "backoff" /\ UNCHANGED <<managerVars, childVars>>
          /\ CallFor("monitor", "revive", "start_one", p, <<>>)
      BY <1>9 DEF Revive
    <2>2. p \in Procs
      BY <1>3, <2>1 DEF Fits, NamedJobs
    <2>3. ChildrenKept
      BY <2>1, ChildrenSame
    <2> DEFINE r == [runtime[p] EXCEPT !.restarts = @ + 1]
    <2>4. r \in Runtimes /\ r.pid <= Len(child')
      <3>1. /\ runtime[p] \in Runtimes /\ runtime[p].pid <= Len(child)
        BY <2>2, ChildFacts
      <3>2. runtime[p].restarts + 1 \in Nat
        BY <3>1 DEF Runtimes
      <3>3. r \in Runtimes /\ r.pid = runtime[p].pid
        <4> HIDE TypeParts
        <4> QED BY <3>1, <3>2 DEF Runtimes
      <3>4. runtime[p].pid \in Nat
        BY <3>1 DEF Runtimes
      <3> QED BY <1>3, <3>1, <3>3, <3>4, <2>3 DEF ChildrenKept
    <2>5. runtime' = [runtime EXCEPT ![p] = r]
      BY <1>9, <2>2 DEF Revive, RuntimeOK, Runtimes
    <2>6. /\ "revive" \in Jobs \ {"waitpid", "account"}
          /\ "revive" \notin RestingJobs \cup {"idle"}
          /\ "start_one" \in Points \ {"mode", "term", "kill"}
      BY DEF Jobs, RestingJobs, Points
    <2>7. ThreadsOK'
      BY <1>2, <2>1, <2>2, <2>3, <2>6, CallForOK
    <2> HIDE DEF r
    <2> QED BY <1>1, <2>1, <2>2, <2>3, <2>4, <2>5, <2>7, RecordStep, ManagerFacts
  <1> QED BY <1>4, <1>5, <1>6, <1>7, <1>8, <1>9 DEF MonitorJob

LEMMA MainJobOK ==
  ASSUME TypeOK, MainJob \/ Shutdown, UNCHANGED commands
  PROVE  TypeOK'
  <1> USE TypeParts
  <1>1. bgRunning' \in BOOLEAN /\ commands' \in Nat
    BY DEF TypeOK, ManagerOK, MainJob, Launch, MainSafe, MainStops, StopBackground,
           JoinBackground, PokeKills, StopControl, JoinControl, Shutdown
  <1>2. /\ "main" \in Threads /\ <<>> \in Seq(Procs)
        /\ {"main_stop", "join_bg", "stop_control", "join_control"} \subseteq Jobs \ NamedJobs
    BY EmptySeq DEF Threads, Jobs, NamedJobs
  <1>3. CASE MainStops
    BY <1>1, <1>2, <1>3, StopAllBeginsOK DEF MainStops
  <1>4. ChildrenKept \/ MainStops
    BY ChildrenSame DEF MainJob, Launch, MainSafe, EnterSafeEnds, StopBackground,
                        JoinBackground, PokeKills, StopControl, JoinControl, Shutdown
  <1>5. CASE MainSafe
    <2>1. ChildrenKept
      BY <1>5, ChildrenSame DEF MainSafe, EnterSafeEnds
    <2>2. ThreadsOK'
      BY <1>2, <1>5, <2>1, RestOK DEF MainSafe
    <2> QED BY <1>1, <1>5, <2>1, <2>2, ManagerStep
            DEF MainSafe, EnterSafeEnds, TypeOK, ManagerOK, ManagerModes, Modes
  <1>6. CASE StopBackground \/ JoinBackground \/ StopControl
    <2>1. ChildrenKept /\ UNCHANGED superVars
      BY <1>6, ChildrenSame DEF StopBackground, JoinBackground, StopControl
    <2>2. ThreadsOK'
      BY <1>2, <1>6, <2>1, RestOK DEF StopBackground, JoinBackground, StopControl
    <2> QED BY <1>1, <2>1, <2>2, PrivateStep
  <1>7. CASE Shutdown
    <2>1. ChildrenKept /\ UNCHANGED superVars
      BY <1>7, ChildrenSame DEF Shutdown
    <2>2. ThreadsOK'
      BY <1>2, <1>7, <2>1, SafeSweepOK DEF Shutdown, Modes
    <2> QED BY <1>1, <2>1, <2>2, PrivateStep
  <1>8. CASE Launch
    <2>1. ChildrenKept /\ UNCHANGED <<superVars, childVars>>
      BY <1>8, ChildrenSame DEF Launch
    <2>2. ThreadsOK'
      <3> DEFINE a == Resting("sleep")
      <3> DEFINE b == Resting(IF "monitor" \in Scheduled THEN "scan" ELSE "exited")
      <3> DEFINE c == Resting(IF "poll" \in Scheduled THEN "idle" ELSE "exited")
      <3>1. th' = [th EXCEPT !["main"] = a, !["monitor"] = b, !["poll"] = c]
        BY <1>8 DEF Launch
      <3>2. {"sleep", "scan", "idle", "exited"} \subseteq Jobs \ NamedJobs
        BY DEF Jobs, NamedJobs
      <3>3. /\ a \in ThreadRecs /\ b \in ThreadRecs /\ c \in ThreadRecs
            /\ \A t \in Threads : Fits(t, a) /\ Fits(t, b) /\ Fits(t, c)
            /\ a.pid = 0 /\ b.pid = 0 /\ c.pid = 0
        <4>1. \A t \in Threads, j \in {"sleep", "scan", "idle", "exited"} :
                /\ Resting(j) \in ThreadRecs /\ Fits(t, Resting(j))
                /\ Resting(j).pid = 0
          BY <3>2, RestingFits
        <4> QED BY <1>2, <4>1
      <3> HIDE DEF a, b, c
      <3>4. th' \in [Threads -> ThreadRecs]
        BY <3>1, <3>3 DEF ThreadsOK, Threads
      <3>5. ASSUME NEW t \in Threads PROVE th'[t] \in {a, b, c, th[t]}
        BY <3>1 DEF ThreadsOK, Threads
      <3>6. \A t \in Threads : Fits(t, th'[t]) /\ th'[t].pid <= Len(child')
        BY <2>1, <3>3, <3>5, ChildFacts DEF ThreadsOK, childVars
      <3> QED BY <3>4, <3>6 DEF ThreadsOK, Fits
    <2> QED BY <1>1, <2>1, <2>2, PrivateStep
  <1>9. CASE JoinControl
    <2>1. ChildrenKept /\ UNCHANGED <<superVars, childVars>>
      BY <1>9, ChildrenSame DEF JoinControl
    <2>2. ThreadsOK'
      <3> DEFINE a == Resting("exited")
      <3> DEFINE b == [Resting("main_safe") EXCEPT !.at = "mode", !.mode = "SAFE",
                                                   !.todo = Procs]
      <3>1. th' = [th EXCEPT !["control"] = a, !["main"] = b]
        BY <1>9 DEF JoinControl
      <3>2. {"exited", "main_safe"} \subseteq Jobs \ NamedJobs
        BY DEF Jobs, NamedJobs
      <3>3. /\ a \in ThreadRecs /\ a.pid = 0
            /\ \A t \in Threads : Fits(t, a)
        <4>1. \A t \in Threads, j \in {"exited"} :
                /\ Resting(j) \in ThreadRecs /\ Fits(t, Resting(j))
                /\ Resting(j).pid = 0
          BY <3>2, RestingFits
        <4> QED BY <1>2, <4>1
      <3>4. b \in ThreadRecs
        BY EmptySeq DEF Resting, ThreadRecs, Jobs, Points, Answer, ManagerModes, Modes
      <3>5. b.pid = 0 /\ \A t \in Threads : Fits(t, b)
        BY DEF Resting, Fits, CallPoints, NamedJobs, RestingJobs, Modes
      <3> HIDE DEF a, b
      <3>6. th' \in [Threads -> ThreadRecs]
        BY <3>1, <3>3, <3>4 DEF ThreadsOK, Threads
      <3>7. ASSUME NEW t \in Threads PROVE th'[t] \in {a, b, th[t]}
        BY <3>1 DEF ThreadsOK, Threads
      <3>8. \A t \in Threads : Fits(t, th'[t]) /\ th'[t].pid <= Len(child')
        BY <2>1, <3>3, <3>5, <3>7, ChildFacts DEF ThreadsOK, childVars
      <3> QED BY <3>6, <3>8 DEF ThreadsOK, Fits
    <2> QED BY <1>1, <2>1, <2>2, PrivateStep
  <1>10. CASE PokeKills
    <2>1. ChildrenKept /\ UNCHANGED <<superVars, childVars>>
      BY <1>10, ChildrenSame DEF PokeKills
    <2>2. ThreadsOK'
      <3> DEFINE a == Resting("exited")
      <3>1. th' = [th EXCEPT !["control"] = a, !["main"] = a]
        BY <1>10 DEF PokeKills
      <3>2. "exited" \in Jobs \ NamedJobs
        BY DEF Jobs, NamedJobs
      <3>3. a \in ThreadRecs /\ a.pid = 0 /\ \A t \in Threads : Fits(t, a)
        BY <1>2, <3>2, RestingFits
      <3> HIDE DEF a
      <3>4. th' \in [Threads -> ThreadRecs]
        BY <3>1, <3>3 DEF ThreadsOK, Threads
      <3>5. ASSUME NEW t \in Threads PROVE th'[t] \in {a, th[t]}
        BY <3>1 DEF ThreadsOK, Threads
      <3>6. \A t \in Threads : Fits(t, th'[t]) /\ th'[t].pid <= Len(child')
        BY <2>1, <3>3, <3>5, ChildFacts DEF ThreadsOK, childVars
      <3> QED BY <3>4, <3>6 DEF ThreadsOK, Fits
    <2> QED BY <1>1, <2>1, <2>2, PrivateStep
  <1> QED BY <1>3, <1>5, <1>6, <1>7, <1>8, <1>9, <1>10 DEF MainJob

LEMMA NextOK ==
  ASSUME TypeOK, [Next]_vars
  PROVE  TypeOK'
  <1> USE TypeParts
  <1>1. CASE Terminated \/ UNCHANGED vars
    BY <1>1 DEF Terminated, vars, superVars, managerVars, childVars, TypeOK, ChildTypeOK,
                RuntimeOK, ManagerOK, ThreadsOK, Fits
  <1>2. CASE Accept /\ UNCHANGED bgRunning
    BY <1>2, AcceptOK
  <1>3. CASE (MainJob \/ Shutdown) /\ UNCHANGED commands
    BY <1>3, MainJobOK
  <1>4. ASSUME UNCHANGED <<bgRunning, commands>>,
               ControlJob \/ MonitorJob \/ PollExits \/ \E t \in Threads : Call(t)
        PROVE  TypeOK'
    <2>1. CASE PollExits
      <3>1. /\ ChildrenKept /\ UNCHANGED superVars /\ Rest("poll", "exited")
            /\ "poll" \in Threads /\ "exited" \in Jobs \ NamedJobs
        BY <2>1, ChildrenSame DEF PollExits, Threads, Jobs, NamedJobs
      <3>2. bgRunning' \in BOOLEAN /\ commands' \in Nat
        BY <1>4 DEF TypeOK, ManagerOK
      <3> QED BY <3>1, <3>2, RestOK, PrivateStep
    <2> QED BY <1>4, <2>1, ControlJobOK, MonitorJobOK, CallOK
  <1>5. ASSUME NEW i \in 1..Len(child), ChildStep(i),
               UNCHANGED <<superVars, bgRunning, th, commands>>
        PROVE  TypeOK'
    <2>1. ChildrenKept /\ Len(child) \in Nat
      BY <1>5, ChildStepOK, ChildFacts
    <2>2. ThreadsOK'
      BY <1>5, <2>1, ThreadsSame DEF ChildrenKept
    <2>3. bgRunning' \in BOOLEAN /\ commands' \in Nat
      BY <1>5 DEF TypeOK, ManagerOK
    <2> QED BY <1>5, <2>1, <2>2, <2>3, PrivateStep
  <1> QED BY <1>1, <1>2, <1>3, <1>4, <1>5 DEF Next

LEMMA InitOK == Init => TypeOK
  <1> SUFFICES ASSUME Init PROVE TypeOK
    OBVIOUS
  <1>1. ChildTypeOK /\ Len(child) = 0
    BY EmptySeq DEF Init, ChildInit, ChildTypeOK
  <1>2. RuntimeOK
    BY <1>1 DEF Init, RuntimeOK, Runtimes, NewRuntime, ProcStates
  <1>3. ManagerOK
    BY EmptySeq DEF Init, ManagerOK, ManagerModes, ManagerStates
  <1>4. ThreadsOK
    <2>1. {"idle", "new", "launch"} \subseteq Jobs \ NamedJobs
      BY DEF Jobs, NamedJobs
    <2>2. \A t \in Threads, j \in {"idle", "new", "launch"} :
            /\ Resting(j) \in ThreadRecs /\ Fits(t, Resting(j))
            /\ Resting(j).pid = 0
      BY <2>1, RestingFits
    <2>3. th \in [Threads -> ThreadRecs]
      BY <2>2 DEF Init, Threads
    <2>4. ASSUME NEW t \in Threads
          PROVE  \E j \in {"idle", "new", "launch"} : th[t] = Resting(j)
      BY DEF Init, Threads
    <2> QED BY <1>1, <2>2, <2>3, <2>4 DEF ThreadsOK
  <1> QED BY <1>1, <1>2, <1>3, <1>4 DEF TypeOK

\* Whatever the processes, their dependencies and policies, however many of
\* them are forked, and whatever operators send and children do: every variable
\* keeps its type, no thread or record refers to a pid that was never forked,
\* and no thread is in a function its job does not call.
THEOREM TypeCorrect == Spec => []TypeOK
  BY InitOK, NextOK, PTL DEF Spec
==========================================================================
