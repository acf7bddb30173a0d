--------------------------- MODULE PlannerProofs ---------------------------
(***************************************************************************)
(* The failure of a critical thread is not lost, for every choice of loops *)
(* and any number of stalls and exceptions.                                *)
(*                                                                         *)
(* CriticalFailureKept says nothing about a watchdog that is storing its   *)
(* verdict, so it is not inductive: StoreFailed may reset process_failed.  *)
(* It does so only if no critical thread is in Error, because states       *)
(* change under info_mu_ and the watchdog holds it since it judged.        *)
(***************************************************************************)
EXTENDS Planner, TLAPS

\* While the watchdog holds info_mu_ its verdict stays true of the states.
VerdictHolds ==
  at.watchdog = "store_failed" => (verdict <=> \E t \in Critical : st[t] = "Error")

\* A critical thread in Error whose handler is through, or that the watchdog put
\* there, has made the process fail, but for a verdict not yet stored.
FailureKept ==
  at.watchdog # "store_failed" =>
    \A t \in Critical : st[t] = "Error" /\ at[t] \notin {"marked", "noted"} => failed

KeptInv == TypeOK /\ VerdictHolds /\ FailureKept

USE PlannerAssumption DEF PlannerAssumption

--------------------------------------------------------------------------
\* Types.

\* Health gives one of the three healths.
LEMMA HealthType ==
  ASSUME NEW rt, NEW fail, NEW degr
  PROVE  Health(rt, fail, degr) \in Healths /\ Health(rt, fail, degr) # "none"
BY DEF Health, Healths

\* The initial states have the types.
LEMMA TypeInit == Init => TypeOK
<1> SUFFICES ASSUME Init PROVE TypeOK
  OBVIOUS
<1>1. at \in [Threads -> Points] /\ st \in [Threads -> ThreadStates]
      /\ old \in [Threads -> SUBSET Stamps] /\ at.status = "loop"
  BY DEF Init, Points, ThreadStates
<1>2. snap # "none" <=> at.status = "list"
  BY <1>1 DEF Init
<1>3. /\ verdict \in BOOLEAN /\ failed \in BOOLEAN /\ degraded \in BOOLEAN
      /\ stop \in BOOLEAN /\ gstop \in BOOLEAN /\ nofd \in BOOLEAN
  BY DEF Init
<1>4. faults \in 0..MaxFaults
  BY DEF Init
<1> QED
  BY <1>1, <1>2, <1>3, <1>4 DEF Init, TypeOK, RuntimeStates, MainPoints, Healths

\* A thread's step keeps the types.
LEMMA TypeThread ==
  ASSUME TypeOK, NEW t \in Threads, ThreadStep(t)
  PROVE  TypeOK'
<1> USE DEF TypeOK, Step, env, flags, status
<1>1. CASE Beat(t)
  <2>1. Body[t] \in Points /\ Body[t] # "list"
    BY DEF Body, Points
  <2> QED
    BY <1>1, <2>1 DEF Beat, Locked, Stamped
<1>2. CASE Progress(t)
  BY <1>2 DEF Progress, Locked, Stamped, Points
<1>3. CASE Leave(t)
  BY <1>3 DEF Leave, Locked, Points
<1>4. CASE Stopped(t)
  BY <1>4 DEF Stopped, Locked, Points, ThreadStates
<1>5. CASE Mark(t)
  BY <1>5 DEF Mark, Locked, Points, ThreadStates
<1>6. CASE Note(t)
  BY <1>6 DEF Note, Points, RuntimeStates
<1>7. CASE Raise(t)
  BY <1>7 DEF Raise, Points
<1>8. CASE t = "status" /\ ReadFlags
  <2>1. snap' \in Healths /\ snap' # "none" /\ at'.status = "list"
    BY <1>8, HealthType DEF ReadFlags
  <2> QED
    BY <1>8, <2>1 DEF ReadFlags, Points
<1>9. CASE t = "status" /\ Cache
  <2>1. snap' = "none" /\ at'.status = "progress"
    BY <1>9 DEF Cache, Locked
  <2> QED
    BY <1>9, <2>1 DEF Cache, Locked, Points
<1>10. CASE t = "ipc" /\ (Request \/ GetStatus \/ NoRequest \/ AcceptFails)
  <2>1. PICK p \in Points \ {"list"} : at' = [at EXCEPT !["ipc"] = p]
    BY <1>10 DEF Request, GetStatus, NoRequest, AcceptFails, Locked, Points
  <2>2. UNCHANGED <<st, old, ahead, verdict, flags, status, main, env>>
    BY <1>10 DEF Request, GetStatus, NoRequest, AcceptFails, Locked
  <2> QED
    BY <1>10, <2>1, <2>2
<1>11. CASE t = "watchdog" /\ Judge
  <2>1. st' \in [Threads -> ThreadStates] /\ old' \in [Threads -> SUBSET Stamps]
    BY <1>11 DEF Judge, ThreadStates
  <2>2. verdict' \in BOOLEAN /\ degraded' \in BOOLEAN
    BY <1>11 DEF Judge
  <2>3. at' = [at EXCEPT !["watchdog"] = "store_failed"]
    BY <1>11 DEF Judge, Locked
  <2>4. at' \in [Threads -> Points] /\ at'.status = at.status
    BY <2>3 DEF Points, Publishing
  <2> QED
    BY <1>11, <2>1, <2>2, <2>4 DEF Judge, Locked
<1>12. CASE t = "watchdog" /\ StoreFailed
  <2>1. PICK p \in {"store_runtime", "progress"} : at' = [at EXCEPT !["watchdog"] = p]
    BY <1>12 DEF StoreFailed
  <2>2. at' \in [Threads -> Points] /\ at'.status = at.status
    BY <2>1 DEF Points, Publishing
  <2> QED
    BY <1>12, <2>2 DEF StoreFailed
<1>13. CASE t = "watchdog" /\ StoreRuntime
  <2>1. at' \in [Threads -> Points] /\ at'.status = at.status
    BY <1>13 DEF StoreRuntime, Points
  <2> QED
    BY <1>13, <2>1 DEF StoreRuntime, RuntimeStates
<1> QED
  BY <1>1, <1>2, <1>3, <1>4, <1>5, <1>6, <1>7, <1>8, <1>9, <1>10, <1>11, <1>12, <1>13
  DEF ThreadStep, Frame

\* So do the main thread, the environment and a stutter.
LEMMA TypeRest ==
  ASSUME TypeOK,
         \/ MainStep \/ FdsRunOut \/ FdsReturn \/ Signal \/ UNCHANGED vars
         \/ \E t \in Threads : Stall(t) \/ Wake(t) \/ Throw(t) \/ GetsOld(t)
  PROVE  TypeOK'
<1> USE DEF TypeOK, env, flags, status
<1>1. CASE MainStep
  BY <1>1 DEF MainStep, SetRunning, RunEnds, JoinAll, Main, MainPoints, RuntimeStates
<1>2. CASE FdsRunOut
  BY <1>2 DEF FdsRunOut, Fault
<1>7. CASE FdsReturn
  BY <1>7 DEF FdsReturn
<1>8. CASE Signal
  BY <1>8 DEF Signal
<1>3. CASE UNCHANGED vars
  BY <1>3 DEF vars
<1>4. ASSUME NEW t \in Threads, Stall(t) \/ Wake(t)
      PROVE  TypeOK'
  <2>1. stuck' \subseteq Threads
    BY <1>4 DEF Stall, Wake
  <2>3. faults' = faults \/ (faults < MaxFaults /\ faults' = faults + 1)
    BY <1>4 DEF Stall, Wake, Fault
  <2>4. faults' \in 0..MaxFaults
    BY <2>3
  <2>2. UNCHANGED <<at, st, old, ahead, verdict, flags, status, main, gstop, nofd>>
    BY <1>4 DEF Stall, Wake
  <2> QED
    BY <2>1, <2>2, <2>4
<1>5. ASSUME NEW t \in Threads, Throw(t)
      PROVE  TypeOK'
  BY <1>5 DEF Throw, Fault, Points
<1>6. ASSUME NEW t \in Threads, GetsOld(t)
      PROVE  TypeOK'
  BY <1>6 DEF GetsOld, Stamps
<1> QED
  BY <1>1, <1>2, <1>3, <1>4, <1>5, <1>6, <1>7, <1>8

\* Every step keeps the types.
LEMMA TypeNext == TypeOK /\ [Next]_vars => TypeOK'
BY TypeThread, TypeRest DEF Next

\* The types of the planner's threads, for every choice of loops.
THEOREM PlannerTypes == Spec => []TypeOK
BY TypeInit, TypeNext, PTL DEF Spec

--------------------------------------------------------------------------
\* The verdict and the failure.

\* Steps that change neither states nor flags and take no thread out of a
\* handler keep both parts.
LEMMA KeptCalm ==
  ASSUME KeptInv, TypeOK',
         st' = st, verdict' = verdict, failed' = failed,
         at'.watchdog = "store_failed" <=> at.watchdog = "store_failed",
         \A t \in Critical : at[t] \in {"marked", "noted"} => at'[t] \in {"marked", "noted"}
  PROVE  KeptInv'
BY DEF KeptInv, VerdictHolds, FailureKept, Critical

\* A thread's step keeps the invariant.
LEMMA KeptThread ==
  ASSUME KeptInv, TypeOK', NEW t \in Threads, ThreadStep(t)
  PROVE  KeptInv'
<1> USE DEF Step, env, flags, status
<1>0. at \in [Threads -> Points] /\ st \in [Threads -> ThreadStates]
  BY DEF KeptInv, TypeOK
<1>1. CASE Beat(t)
  <2>1. Body[t] # "store_failed"
    BY DEF Body
  <2>2. /\ at[t] = "loop" /\ at' = [at EXCEPT ![t] = Body[t]]
        /\ st' = st /\ verdict' = verdict /\ failed' = failed
    BY <1>1 DEF Beat, Locked
  <2>3. /\ at'.watchdog = "store_failed" <=> at.watchdog = "store_failed"
        /\ \A u \in Critical : at[u] \in {"marked", "noted"} => at'[u] \in {"marked", "noted"}
    BY <1>0, <2>1, <2>2 DEF Critical
  <2> QED
    BY <2>2, <2>3, KeptCalm
<1>2. CASE Progress(t)
  BY <1>0, <1>2, KeptCalm DEF Progress, Locked, Critical
<1>3. CASE Leave(t)
  BY <1>0, <1>3, KeptCalm DEF Leave, Locked, Critical
<1>4. CASE Stopped(t)
  BY <1>0, <1>4 DEF Stopped, Locked, Unlocked, Publishing, KeptInv, VerdictHolds,
     FailureKept, Critical
<1>5. CASE Mark(t)
  BY <1>0, <1>5 DEF Mark, Locked, Unlocked, Publishing, KeptInv, VerdictHolds,
     FailureKept, Critical
<1>6. CASE Note(t)
  BY <1>0, <1>6, KeptCalm DEF Note, Critical
<1>7. CASE Raise(t)
  BY <1>0, <1>7 DEF Raise, KeptInv, VerdictHolds, FailureKept, Critical
<1>8. CASE t = "status" /\ (ReadFlags \/ Cache)
  BY <1>0, <1>8, KeptCalm DEF ReadFlags, Cache, Locked, Critical
<1>9. CASE t = "ipc" /\ (Request \/ GetStatus \/ NoRequest \/ AcceptFails)
  BY <1>0, <1>9, KeptCalm DEF Request, GetStatus, NoRequest, AcceptFails, Locked, Critical
<1>10. CASE t = "watchdog" /\ Judge
  <2>1. at'.watchdog = "store_failed"
    BY <1>0, <1>10 DEF Judge, Locked
  <2>2. verdict' <=> \E u \in Critical : st'[u] = "Error"
    BY <1>0, <1>10 DEF Judge, Critical
  <2> QED
    BY <2>1, <2>2 DEF KeptInv, VerdictHolds, FailureKept
<1>11. CASE t = "watchdog" /\ StoreFailed
  <2>1. at'.watchdog # "store_failed"
    BY <1>0, <1>11 DEF StoreFailed
  <2>2. ASSUME NEW u \in Critical, st'[u] = "Error"
        PROVE  failed'
    BY <1>11, <2>2 DEF StoreFailed, KeptInv, VerdictHolds
  <2> QED
    BY <2>1, <2>2 DEF KeptInv, VerdictHolds, FailureKept
<1>12. CASE t = "watchdog" /\ StoreRuntime
  <2>1. at'.watchdog = "progress" /\ \A u \in Threads \ {"watchdog"} : at'[u] = at[u]
    BY <1>0, <1>12 DEF StoreRuntime
  <2> QED
    BY <1>0, <1>12, <2>1 DEF StoreRuntime, KeptInv, VerdictHolds, FailureKept, Critical
<1> QED
  BY <1>1, <1>2, <1>3, <1>4, <1>5, <1>6, <1>7, <1>8, <1>9, <1>10, <1>11, <1>12
  DEF ThreadStep, Frame

\* So do the main thread, the environment and a stutter.
LEMMA KeptRest ==
  ASSUME KeptInv, TypeOK',
         \/ MainStep \/ FdsRunOut \/ FdsReturn \/ Signal \/ UNCHANGED vars
         \/ \E t \in Threads : Stall(t) \/ Wake(t) \/ Throw(t) \/ GetsOld(t)
  PROVE  KeptInv'
<1> USE DEF env, flags, status
<1>0. at \in [Threads -> Points] /\ st \in [Threads -> ThreadStates]
  BY DEF KeptInv, TypeOK
<1>1. CASE MainStep
  BY <1>1, KeptCalm DEF MainStep, SetRunning, RunEnds, JoinAll, Main
<1>2. CASE FdsRunOut \/ FdsReturn \/ Signal \/ UNCHANGED vars
  BY <1>2, KeptCalm DEF FdsRunOut, FdsReturn, Signal, vars
<1>3. ASSUME NEW t \in Threads, Stall(t) \/ Wake(t) \/ GetsOld(t)
      PROVE  KeptInv'
  BY <1>3, KeptCalm DEF Stall, Wake, GetsOld
<1>4. ASSUME NEW t \in Threads, Throw(t)
      PROVE  KeptInv'
  BY <1>0, <1>4, KeptCalm DEF Throw, Critical
<1> QED
  BY <1>1, <1>2, <1>3, <1>4

\* The initial states and every step keep the invariant.
LEMMA KeptInductive == (Init => KeptInv) /\ (KeptInv /\ [Next]_vars => KeptInv')
<1>1. Init => KeptInv
  BY TypeInit DEF Init, KeptInv, VerdictHolds, FailureKept, Critical
<1>2. ASSUME KeptInv, [Next]_vars
      PROVE  KeptInv'
  <2>1. TypeOK'
    BY <1>2, TypeNext DEF KeptInv
  <2> QED
    BY <1>2, <2>1, KeptThread, KeptRest DEF Next
<1> QED
  BY <1>1, <1>2

\* thread_manager.cpp, watchdog_check against the handlers of launch_thread: no
\* interleaving withdraws the failure of a critical thread.
THEOREM FailureNotLost == Spec => []CriticalFailureKept
<1>1. KeptInv => CriticalFailureKept
  BY DEF KeptInv, FailureKept, CriticalFailureKept, Unlocked, Publishing
<1> QED
  BY <1>1, KeptInductive, PTL DEF Spec
==========================================================================
