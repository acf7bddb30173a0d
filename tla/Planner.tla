------------------------------ MODULE Planner ------------------------------
(***************************************************************************)
(* The threads of planner_process: four loops registered with a            *)
(* ThreadManager, one of them its watchdog, and the main thread that stops *)
(* and joins them.                                                         *)
(*                                                                         *)
(* Time is kept as the set of a thread's stamps (heartbeat, progress) that *)
(* are older than their timeout.  The periods of the loops, 100 to 500 ms, *)
(* are below the timeouts, 500 to 5000 ms, so a stamp gets old only while  *)
(* its thread does not move, or goes round without progress.               *)
(***************************************************************************)
EXTENDS Integers, FiniteSets

CONSTANTS
  Threads,      \* the loops that run; planning_thread does nothing another one
                \* sees, so an instance may leave it out
  ClockTicks,   \* whether a millisecond may begin between the watchdog's
                \* reading of the clock and its locking of info_mu_
  MaxFaults     \* how many stalls, exceptions and failing accepts there are

ASSUME PlannerAssumption ==
  /\ {"status", "watchdog"} \subseteq Threads
  /\ Threads \subseteq {"planning", "ipc", "status", "watchdog"}
  /\ ClockTicks \in BOOLEAN /\ MaxFaults \in Nat

VARIABLES
  at,           \* where each thread is
  st,           \* PlannerThreadInfo::state
  old,          \* the stamps of each running thread older than their timeout
  ahead,        \* threads that stamped since the watchdog read its clock
  verdict,      \* watchdog_check's local flag failed
  failed, degraded, runtime, stop,   \* ThreadManager's atomics
  snap,         \* the health build_status_json has read
  cached,       \* cached_status_
  main,
  gstop,        \* g_stop, set by SIGTERM or SIGINT
  stuck,        \* threads that do not move
  nofd,         \* poll or accept fails
  faults

flags == <<failed, degraded, runtime, stop>>
status == <<snap, cached>>
env == <<gstop, stuck, nofd, faults>>
vars == <<at, st, old, ahead, verdict, flags, status, main, env>>

Critical == Threads \ {"status"}
Stamps == {"heartbeat", "progress"}

ThreadStates == {"Running", "Stopped", "Error"}
RuntimeStates == {"Starting", "Running", "Stopping", "Stopped", "Error"}
Healths == {"OK", "ERR", "FAIL"}
Publishing == {"store_failed", "store_runtime"}
Points == {"loop", "read", "list", "poll", "asked", "judge", "progress", "threw", "marked",
           "noted", "left", "done"} \cup Publishing
MainPoints == {"launched", "run", "join", "exited"}

\* The threads are launched, each at the first test of its loop.
Init ==
  /\ at = [t \in Threads |-> "loop"]
  /\ st = [t \in Threads |-> "Running"]
  /\ old = [t \in Threads |-> {}]
  /\ ahead = {}
  /\ verdict = FALSE
  /\ failed = FALSE /\ degraded = FALSE /\ runtime = "Starting" /\ stop = FALSE
  /\ snap = "none" /\ cached = "none"
  /\ main = "launched"
  /\ gstop = FALSE /\ stuck = {} /\ nofd = FALSE /\ faults = 0

Stopping == stop \/ gstop

\* (Mutation of Unlocked: info_mu_ is released before the stores.)
NeverLocked == TRUE

\* info_mu_ is held by watchdog_check from its judging to the last store.
Unlocked == at.watchdog \notin Publishing

Step(t, from, to) ==
  /\ t \notin stuck
  /\ at[t] = from
  /\ at' = [at EXCEPT ![t] = to]
  /\ UNCHANGED <<main, env>>

\* A step that takes info_mu_ for a moment.
Locked(t, from, to) == Unlocked /\ Step(t, from, to)

--------------------------------------------------------------------------
\* What the loops have in common, and the frame launch_thread puts around them.

\* The watchdog reads the clock right after its own heartbeat.
Stamped(t, s) ==
  /\ old' = [old EXCEPT ![t] = @ \ {s}]
  /\ ahead' = IF t = "watchdog" THEN {} ELSE IF ClockTicks THEN ahead \cup {t} ELSE ahead

Body == [planning |-> "progress", status |-> "read", ipc |-> "poll", watchdog |-> "judge"]

Beat(t) ==
  /\ ~Stopping
  /\ Locked(t, "loop", Body[t])
  /\ Stamped(t, "heartbeat")
  /\ UNCHANGED <<st, verdict, flags, status>>

\* The watchdog tests process_failed at the end of its turn.
Progress(t) ==
  /\ Locked(t, "progress", "loop")
  /\ Stamped(t, "progress")
  /\ stop' = (stop \/ (t = "watchdog" /\ failed))
  /\ UNCHANGED <<st, verdict, failed, degraded, runtime, status>>

\* The loop is left: the state is read in one critical section ...
Leave(t) ==
  /\ Stopping
  /\ Locked(t, "loop", IF st[t] = "Error" THEN "done" ELSE "left")
  /\ UNCHANGED <<st, old, ahead, verdict, flags, status>>

\* ... and set in the next.
Stopped(t) ==
  /\ Locked(t, "left", "done")
  /\ st' = [st EXCEPT ![t] = "Stopped"]
  /\ old' = [old EXCEPT ![t] = {}]
  /\ UNCHANGED <<ahead, verdict, flags, status>>

\* The handlers of launch_thread: Error, then the runtime state, then failed.
Mark(t) ==
  /\ Locked(t, "threw", "marked")
  /\ st' = [st EXCEPT ![t] = "Error"]
  /\ old' = [old EXCEPT ![t] = {}]
  /\ UNCHANGED <<ahead, verdict, flags, status>>

Note(t) ==
  /\ Step(t, "marked", "noted")
  /\ runtime' = "Error"
  /\ UNCHANGED <<st, old, ahead, verdict, failed, degraded, stop, status>>

Raise(t) ==
  /\ Step(t, "noted", "done")
  /\ failed' = TRUE
  /\ UNCHANGED <<st, old, ahead, verdict, degraded, runtime, stop, status>>

Frame(t) ==
  Beat(t) \/ Progress(t) \/ Leave(t) \/ Stopped(t) \/ Mark(t) \/ Note(t) \/ Raise(t)

--------------------------------------------------------------------------
\* status_thread and ipc_thread.

\* Lines 631 to 651 of supervisor.cpp, of an answer with these fields.
Health(rt, fail, degr) ==
  IF fail \/ rt = "Error" THEN "FAIL" ELSE IF degr THEN "ERR" ELSE "OK"

\* build_status_json loads the flags before it locks info_mu_ for the threads;
\* cached_mu_ is held around both.
ReadFlags ==
  /\ Step("status", "read", "list")
  /\ snap' = Health(runtime, failed, degraded)
  /\ UNCHANGED <<st, old, ahead, verdict, flags, cached>>

\* (Mutation of Cache: the cache is filled once.)
CacheOnce ==
  /\ Locked("status", "list", "progress")
  /\ cached' = IF cached = "none" THEN snap ELSE cached
  /\ snap' = "none"
  /\ UNCHANGED <<st, old, ahead, verdict, flags>>

Cache ==
  /\ Locked("status", "list", "progress")
  /\ cached' = snap /\ snap' = "none"
  /\ UNCHANGED <<st, old, ahead, verdict, flags>>

\* What GET_STATUS is answered with: the cache, once there is one.
Answer == IF cached # "none" THEN cached ELSE Health(runtime, failed, degraded)

\* A GET_STATUS has come ...
Request ==
  /\ ~nofd
  /\ Step("ipc", "poll", "asked")
  /\ UNCHANGED <<st, old, ahead, verdict, flags, status>>

\* ... and is answered under cached_mu_, and info_mu_ if there is no cache yet.
GetStatus ==
  /\ at.status # "list"
  /\ cached # "none" \/ Unlocked
  /\ Step("ipc", "asked", "progress")
  /\ UNCHANGED <<st, old, ahead, verdict, flags, status>>

\* poll() finds nobody in 200 ms, or a request without effect on these threads.
NoRequest ==
  /\ ~nofd
  /\ Step("ipc", "poll", "progress")
  /\ UNCHANGED <<st, old, ahead, verdict, flags, status>>

\* poll or accept fails: round the loop without progress.
AcceptFails ==
  /\ nofd
  /\ Locked("ipc", "poll", "loop")
  /\ UNCHANGED <<st, old, ahead, verdict, flags, status>>

--------------------------------------------------------------------------
\* watchdog_check and the watchdog's loop.

\* (Mutation of Late: both stamps have to be old.)
LateInBoth(t) == old[t] = Stamps \/ t \in ahead

\* The ages are unsigned: a stamp newer than the clock reading is very old.
Late(t) == old[t] # {} \/ t \in ahead

\* Every thread under info_mu_, then the first of the three stores: nobody
\* sees anything between.
Judge ==
  LET judged == [t \in Threads |-> IF st[t] = "Running" /\ Late(t) THEN "Error" ELSE st[t]] IN
  /\ Locked("watchdog", "judge", "store_failed")
  /\ st' = judged
  /\ verdict' = (\E t \in Critical : judged[t] = "Error")
  /\ degraded' = (\E t \in Threads \ Critical : judged[t] = "Error")
  /\ old' = [t \in Threads |-> IF judged[t] = "Running" THEN old[t] ELSE {}]
  /\ ahead' = {}
  /\ UNCHANGED <<failed, runtime, stop, status>>

StoreFailed ==
  /\ Step("watchdog", "store_failed", IF verdict THEN "store_runtime" ELSE "progress")
  /\ failed' = verdict
  /\ UNCHANGED <<st, old, ahead, verdict, degraded, runtime, stop, status>>

StoreRuntime ==
  /\ Step("watchdog", "store_runtime", "progress")
  /\ runtime' = "Error" /\ verdict' = FALSE
  /\ UNCHANGED <<st, old, ahead, failed, degraded, stop, status>>

ThreadStep(t) ==
  \/ Frame(t)
  \/ t = "status" /\ (ReadFlags \/ Cache)
  \/ t = "ipc" /\ (Request \/ GetStatus \/ NoRequest \/ AcceptFails)
  \/ t = "watchdog" /\ (Judge \/ StoreFailed \/ StoreRuntime)

--------------------------------------------------------------------------
\* The main thread: Run and Shutdown.

Main(from, to) ==
  /\ main = from
  /\ main' = to
  /\ UNCHANGED <<at, st, old, ahead, verdict, failed, degraded, status, env>>

\* Also over the Error of a thread that has failed already.
SetRunning ==
  /\ Main("launched", "run")
  /\ runtime' = "Running"
  /\ UNCHANGED stop

\* (Mutation of RunEnds: main leaves failures to the watchdog.)
RunEndsOnStop ==
  /\ Stopping
  /\ Main("run", "join")
  /\ runtime' = "Stopping"
  /\ stop' = TRUE

\* (Mutation of RunEnds: the threads are not asked to stop.)
RunEndsQuietly ==
  /\ Stopping \/ failed
  /\ Main("run", "join")
  /\ runtime' = "Stopping"
  /\ UNCHANGED stop

\* The loop of Run is left, and Shutdown goes as far as the joins.  It shuts the
\* socket too, which wakes poll() and accept().
RunEnds ==
  /\ Stopping \/ failed
  /\ Main("run", "join")
  /\ runtime' = "Stopping"
  /\ stop' = TRUE

JoinAll ==
  /\ \A t \in Threads : at[t] = "done"
  /\ Main("join", "exited")
  /\ runtime' = "Stopped"
  /\ UNCHANGED stop

MainStep == SetRunning \/ RunEnds \/ JoinAll

--------------------------------------------------------------------------
\* The environment.

Fault == faults < MaxFaults /\ faults' = faults + 1

\* A blocking read of a silent client, a slow disk, a starved thread.
Stall(t) ==
  /\ at[t] # "done" /\ t \notin stuck
  /\ stuck' = stuck \cup {t} /\ Fault
  /\ UNCHANGED <<at, st, old, ahead, verdict, flags, status, main, gstop, nofd>>

Wake(t) ==
  /\ t \in stuck
  /\ stuck' = stuck \ {t}
  /\ UNCHANGED <<at, st, old, ahead, verdict, flags, status, main, gstop, nofd, faults>>

FdsRunOut ==
  /\ ~nofd /\ nofd' = TRUE /\ Fault
  /\ UNCHANGED <<at, st, old, ahead, verdict, flags, status, main, gstop, stuck>>

FdsReturn ==
  /\ nofd /\ nofd' = FALSE
  /\ UNCHANGED <<at, st, old, ahead, verdict, flags, status, main, gstop, stuck, faults>>

\* An exception in the body of a loop.
Throw(t) ==
  /\ t \notin stuck /\ at[t] \in {"loop", "list", "poll", "asked", "progress"}
  /\ at' = [at EXCEPT ![t] = "threw"]
  /\ snap' = IF t = "status" THEN "none" ELSE snap
  /\ Fault
  /\ UNCHANGED <<st, old, ahead, verdict, flags, cached, main, gstop, stuck, nofd>>

Signal ==
  /\ ~gstop /\ gstop' = TRUE
  /\ UNCHANGED <<at, st, old, ahead, verdict, flags, status, main, stuck, nofd, faults>>

\* Whom a thread that does not move waits for: itself, the holder of info_mu_
\* or, in GET_STATUS, the holder of cached_mu_.
Held(t) ==
  \/ t \in stuck
  \/ "watchdog" \in stuck /\ ~Unlocked
  \/ t = "ipc" /\ at[t] = "asked" /\ "status" \in stuck /\ at.status = "list"

\* Only a Running thread's stamps are looked at.
\* The heartbeat of a held thread gets old first, and is renewed first.
GetsOld(t) ==
  LET S == IF Held(t) THEN Stamps ELSE IF t = "ipc" /\ nofd THEN {"progress"} ELSE {} IN
  /\ st[t] = "Running" /\ at.watchdog # "judge"
  /\ ~(S \subseteq old[t])
  /\ old' = [old EXCEPT ![t] = @ \cup S]
  /\ UNCHANGED <<at, st, ahead, verdict, flags, status, main, env>>

--------------------------------------------------------------------------
Next ==
  \/ \E t \in Threads : ThreadStep(t) \/ Stall(t) \/ Wake(t) \/ Throw(t) \/ GetsOld(t)
  \/ MainStep \/ FdsRunOut \/ FdsReturn \/ Signal

Spec == Init /\ [][Next]_vars

\* Threads that are not stuck run and get their turn at info_mu_, and time
\* passes for one that stands still.  Nothing has to wake a stuck thread.
Fairness ==
  /\ \A t \in Threads : SF_vars(ThreadStep(t))
  /\ SF_vars(\E t \in Threads : GetsOld(t))
  /\ WF_vars(MainStep)

FairSpec == Spec /\ Fairness

--------------------------------------------------------------------------
\* The types; status_thread holds a health while it builds its answer, and main
\* joins only threads it has told to stop.
TypeOK ==
  /\ at \in [Threads -> Points]
  /\ st \in [Threads -> ThreadStates]
  /\ old \in [Threads -> SUBSET Stamps]
  /\ ahead \subseteq Threads
  /\ verdict \in BOOLEAN
  /\ failed \in BOOLEAN /\ degraded \in BOOLEAN /\ stop \in BOOLEAN
  /\ runtime \in RuntimeStates
  /\ snap \in Healths \cup {"none"} /\ cached \in Healths \cup {"none"}
  /\ snap # "none" <=> at.status = "list"
  /\ main \in MainPoints
  /\ main \in {"join", "exited"} => stop
  /\ gstop \in BOOLEAN /\ stuck \subseteq Threads /\ nofd \in BOOLEAN
  /\ faults \in 0..MaxFaults

\* The failure of a critical thread is not lost: once its handler is through
\* and no check is storing its verdict, process_failed is set, whatever checks
\* were under way when it failed.
CriticalFailureKept ==
  (\E t \in Critical : st[t] = "Error" /\ at[t] \notin {"marked", "noted"}) /\ Unlocked
    => failed

\* A critical thread that stands still, or goes round without progress, is
\* found: it moves again or the process is stopped, unless the watchdog is
\* stuck itself.
StallFound ==
  \A t \in Critical \ {"watchdog"} :
    (main = "run" /\ (t \in stuck \/ (t = "ipc" /\ nofd)))
      ~> \/ t \notin stuck /\ ~(t = "ipc" /\ nofd)
         \/ "watchdog" \in stuck
         \/ Stopping

\* A failed critical thread, the watchdog or another, and a stop end the
\* process, unless a thread stays stuck: join_all has no time limit.
FailureEnds ==
  Stopping \/ (\E t \in Critical : st[t] = "Error") ~> main = "exited" \/ stuck # {}

\* A degraded process tells so, as long as its status thread runs.
DegradedTold ==
  degraded /\ at.status \in {"loop", "read", "list", "progress"}
    ~> \/ Answer # "OK" \/ ~degraded
       \/ Stopping \/ stuck # {} \/ nofd
       \/ at.status \in {"threw", "marked", "noted", "done"}

\* The watchdog finds fault with nobody who beats in time: without a stall, an
\* exception or a failing accept no thread is in Error.
NoFalseAlarm == faults = 0 => \A t \in Threads : st[t] # "Error"
==========================================================================
