--------------------------- MODULE ProcLifecycle ---------------------------
(***************************************************************************)
(* What the supervisor promises about one managed process at a time: a     *)
(* process comes up only by being started, a process that was asked to     *)
(* stop, has gone down or has failed to start stays so until it is started *)
(* again, and automatic restarts are bounded.  Nothing is said here about  *)
(* threads, locks, pids or sockets.                                        *)
(***************************************************************************)
EXTENDS Integers

CONSTANTS
  Procs,
  Restartable,    \* the processes that may be restarted automatically
  MaxRestart      \* and how often

VARIABLES phase, restarts

vars == <<phase, restarts>>

Phases == {"down", "starting", "up", "stopping", "failed"}

Init ==
  /\ phase = [p \in Procs |-> "down"]
  /\ restarts = [p \in Procs |-> 0]

\* p, if in one of the phases "from", is now in phase "to".
Move(p, from, to) ==
  /\ phase[p] \in from
  /\ phase' = [phase EXCEPT ![p] = to]
  /\ UNCHANGED restarts

Start(p) == Move(p, Phases, "starting")
ComeUp(p) == Move(p, {"starting"}, "up")
Stop(p) == Move(p, Phases \ {"down"}, "stopping")
GoDown(p) == Move(p, Phases, "down")
Fail(p) == Move(p, Phases, "failed")

CountRestart(p) ==
  /\ p \in Restartable
  /\ restarts[p] < MaxRestart[p]
  /\ restarts' = [restarts EXCEPT ![p] = @ + 1]
  /\ UNCHANGED phase

Next == \E p \in Procs :
  Start(p) \/ ComeUp(p) \/ Stop(p) \/ GoDown(p) \/ Fail(p) \/ CountRestart(p)

Spec == Init /\ [][Next]_vars
==========================================================================
