----------------------------- MODULE Children -----------------------------
(***************************************************************************)
(* The operating-system side: the processes the supervisor forks and the   *)
(* Unix sockets they answer on, as examples/dummy_process.cpp (and, for    *)
(* the graceful exit, examples/planner_process.cpp) behave.                *)
(*                                                                         *)
(* child[i] is the i-th process forked; i is its pid, and pids are not     *)
(* reused.  sock[p] is the process whose listening socket the path of p    *)
(* leads to, 0 if none.  Several instances of one p can be alive.          *)
(***************************************************************************)
EXTENDS SupervisorTypes

CONSTANTS
  MaxForks,       \* the process table: fork fails when it is full
  Faults,         \* the kinds of fault a run injects
  MaxFaults       \* and how many of them

FaultKinds == {"crash", "quit", "hang", "sick", "slow"}

ASSUME ChildrenAssumption ==
  /\ MaxForks \in Nat
  /\ Faults \subseteq FaultKinds
  /\ MaxFaults \in Nat

VARIABLES child, sock, faults

childVars == <<child, sock, faults>>

\* "boot" has not bound its socket, "hung" does not answer (HANG, or a delay
\* longer than the caller's timeout), "zombie" waits for waitpid, "gone" was
\* waited for.
Phases == {"boot", "serving", "hung", "zombie", "gone"}

ChildRecs == [proc : Procs, phase : Phases, mode : Modes \cup {"INIT"},
              health : {"OK", "ERR"}, asked : BOOLEAN, termed : BOOLEAN,
              failed : BOOLEAN]

ChildTypeOK ==
  /\ child \in Seq(ChildRecs)
  /\ sock \in [Procs -> Nat]
  /\ \A p \in Procs : sock[p] <= Len(child)
  /\ faults \in Nat

ChildInit ==
  /\ child = <<>>
  /\ sock = [p \in Procs |-> 0]
  /\ faults = 0

--------------------------------------------------------------------------
\* What the supervisor sees and does.

NewChild(p) == [proc |-> p, phase |-> "boot", mode |-> "INIT", health |-> "OK",
                asked |-> FALSE, termed |-> FALSE, failed |-> FALSE]

Live(i) == child[i].phase \in {"boot", "serving", "hung"}

\* A request to the socket of p is answered before its timeout.
Answers(p) == sock[p] # 0 /\ child[sock[p]].phase = "serving"

\* The sockets once process i is dead: its listener is closed.
Closed(i) == [p \in Procs |-> IF sock[p] = i THEN 0 ELSE sock[p]]

\* fork() and execvp().
Spawn(p) ==
  /\ Len(child) < MaxForks
  /\ child' = Append(child, NewChild(p))
  /\ UNCHANGED <<sock, faults>>

\* kill(-pgid, SIGTERM): the child ends when it gets to it (Terminate).
Term(i) ==
  /\ child' = IF Live(i) THEN [child EXCEPT ![i].termed = TRUE] ELSE child
  /\ UNCHANGED <<sock, faults>>

\* i is dead and not yet waited for, and what it knew is lost; failed iff its exit
\* code is not 0.
Corpse(i, failed) ==
  [NewChild(child[i].proc) EXCEPT !.phase = "zombie", !.failed = failed]

Die(i, failed) ==
  /\ child' = [child EXCEPT ![i] = Corpse(i, failed)]
  /\ sock' = Closed(i)

\* kill(-pgid, SIGKILL).
Kill(i) ==
  /\ IF Live(i) THEN Die(i, TRUE) ELSE UNCHANGED <<child, sock>>
  /\ UNCHANGED faults

\* waitpid(i, WNOHANG) that returns i.
Reap(i) ==
  /\ child[i].phase = "zombie"
  /\ child' = [child EXCEPT ![i].phase = "gone"]
  /\ UNCHANGED <<sock, faults>>

\* SET_MODE m, carried out and answered OK by the instance listening for p.
Told(p, m) ==
  /\ Answers(p)
  /\ child' = [child EXCEPT ![sock[p]].mode = m]
  /\ UNCHANGED sock

SetMode(p, m) == Told(p, m) /\ UNCHANGED faults

\* Any request to p that times out; it stays with a child that does not answer.
Unanswered(p) ==
  /\ ~Answers(p)
  /\ child' = IF sock[p] = 0 THEN child
              ELSE [child EXCEPT ![sock[p]].asked = TRUE]
  /\ UNCHANGED <<sock, faults>>

--------------------------------------------------------------------------
\* What the children do by themselves, or because an operator forwards them a
\* command (CRASH, EXIT n, HANG, SET_DELAY_MS, SET_HEALTH, RECOVER).

Fault(kind) ==
  /\ kind \in Faults
  /\ faults < MaxFaults
  /\ faults' = faults + 1

\* It removes whatever is at its path and binds: the path now leads to i.
Boot(i) ==
  /\ child[i].phase = "boot"
  /\ child' = [child EXCEPT ![i].phase = "serving"]
  /\ sock' = [sock EXCEPT ![child[i].proc] = i]
  /\ UNCHANGED faults

\* abort(), EXIT n with n # 0, a failed execvp (127).
Crash(i) == Live(i) /\ Fault("crash") /\ Die(i, TRUE)

\* EXIT 0, and run() returning after a failed bind.
Quit(i) == Live(i) /\ Fault("quit") /\ Die(i, FALSE)

\* SET_DELAY_MS with more than the callers' timeouts, or HANG.  A child that was
\* told HANG sleeps for a day at the next request and answers nothing after it:
\* it takes neither of the two steps below.
Hang(i) ==
  /\ child[i].phase = "serving"
  /\ Fault("hang")
  /\ child' = [child EXCEPT ![i].phase = "hung"]
  /\ UNCHANGED sock

\* The delay is taken back, and nobody has asked meanwhile.
Wake(i) ==
  /\ child[i].phase = "hung" /\ ~child[i].asked
  /\ child' = [child EXCEPT ![i].phase = "serving"]
  /\ UNCHANGED <<sock, faults>>

\* The delay is over and the child answers a caller that has given up and
\* closed the connection: send() without MSG_NOSIGNAL raises SIGPIPE.
BrokenPipe(i) ==
  /\ child[i].phase = "hung" /\ child[i].asked
  /\ Die(i, TRUE)
  /\ UNCHANGED faults

Sicken(i) ==
  /\ child[i].phase = "serving" /\ child[i].health = "OK"
  /\ Fault("sick")
  /\ child' = [child EXCEPT ![i].health = "ERR"]
  /\ UNCHANGED sock

Heal(i) ==
  /\ child[i].phase = "serving" /\ child[i].health = "ERR"
  /\ child' = [child EXCEPT ![i].health = "OK"]
  /\ UNCHANGED <<sock, faults>>

\* SIGTERM takes effect: the dummy dies of the signal, the planner exits 0 ...
Terminate(i) ==
  /\ Live(i) /\ child[i].termed
  /\ \E failed \in BOOLEAN : Die(i, failed)
  /\ UNCHANGED faults

\* ... and on its way out unlinks its path, whoever listens there by now.
TerminateUnlinks(i) ==
  /\ Live(i) /\ child[i].termed
  /\ sock[child[i].proc] # i
  /\ child' = [child EXCEPT ![i] = Corpse(i, FALSE)]
  /\ sock' = [sock EXCEPT ![child[i].proc] = 0]
  /\ UNCHANGED faults

ChildStep(i) ==
  \/ Boot(i) \/ Crash(i) \/ Quit(i) \/ Hang(i) \/ Wake(i) \/ BrokenPipe(i)
  \/ Sicken(i) \/ Heal(i) \/ Terminate(i) \/ TerminateUnlinks(i)
==========================================================================
