------------------------- MODULE SupervisorTypes -------------------------
(***************************************************************************)
(* The types of include/supervisor_types.hpp and the configuration the     *)
(* supervisor runs with (one ProcessSpec per configured process).  Fields  *)
(* that only reach execvp, a timer's length or a log line are left out;    *)
(* a timer is a step that may be taken at any time while it is waited for. *)
(***************************************************************************)
EXTENDS Integers, Sequences, FiniteSets

CONSTANTS
  Procs,          \* the keys of specs_
  Deps,           \* ProcessSpec::deps, as a set
  Role,           \* ProcessSpec::role
  Critical,       \* ProcessSpec::critical
  RestartPolicy,  \* ProcessSpec::restart_policy
  MaxRestart,     \* ProcessSpec::max_restart_count, an int from the JSON file
  Order           \* the result of topo_order_() for this configuration

Roles == {"Sensor", "Compute", "Actuator"}

RestartPolicies == {"Never", "OnFailure", "Always"}

ProcStates == {"Stopped", "Starting", "Running", "Degraded", "Stopping",
               "Exited", "Failed"}

\* What validate_mode_ accepts.
Modes == {"SAFE", "IDLE", "TELEOP", "AUTO", "DIAG"}

\* manager_state_; manager_mode_ is a mode, or "INIT" or "STOPPED".
ManagerStates == {"INIT", "STARTING", "RUNNING", "STOPPING", "STOPPED", "ERROR"}
ManagerModes == Modes \cup {"INIT", "STOPPED"}

\* The name the code logs where no process is meant.
NoProc == "-"

ASSUME SpecsAssumption ==
  /\ IsFiniteSet(Procs)
  /\ Deps \in [Procs -> SUBSET Procs]
  /\ Role \in [Procs -> Roles]
  /\ Critical \in [Procs -> BOOLEAN]
  /\ RestartPolicy \in [Procs -> RestartPolicies]
  /\ MaxRestart \in [Procs -> Int]

\* Order lists every process once, each after its dependencies.  A dependency
\* graph that is cyclic or dangling has no such order: topo_order_ throws.
ASSUME OrderAssumption ==
  /\ Order \in Seq(Procs)
  /\ \A p \in Procs : \E k \in 1..Len(Order) : Order[k] = p
  /\ \A j, k \in 1..Len(Order) :
        /\ Order[j] = Order[k] => j = k
        /\ Order[j] \in Deps[Order[k]] => j < k

\* The place of p in Order.
Rank(p) == CHOOSE k \in 1..Len(Order) : Order[k] = p

\* A ProcessRuntime.  pid 0 stands for the code's -1; pgid always equals pid;
\* last_exit_code is never read, and the mode, health and detail of the cached
\* ChildStatus only reach status_text().
Runtimes == [pid : Nat, state : ProcStates, reach : BOOLEAN, restarts : Nat]

NewRuntime == [pid |-> 0, state |-> "Stopped", reach |-> FALSE, restarts |-> 0]
==========================================================================
