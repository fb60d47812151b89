---------------------------- MODULE WorkerProofs ----------------------------
(***************************************************************************)
(* Proofs about Worker: the safety properties of the worker thread, and     *)
(* that it implements JobWorker, for any set of jobs and number of launches.*)
(***************************************************************************)
EXTENDS Worker, TLAPS

(* The inductive invariant.  The lifetime of the thread, told from both     *)
(* program counters, is what the properties of Worker leave out.            *)

\* mutex_ is held exactly where the code is between lock and unlock.
MutexInv ==
  /\ owner = "main"   <=> mpc \in {"create", "created", "test"}
  /\ owner = "worker" <=> wpc \in {"test", "hook", "unlock"}

\* The thread is down, being created, up, being ended, or being destroyed.
Down    == /\ status = "NOT_OK" /\ ~ impl
           /\ mpc \in {"idle", "reset", "return"} /\ wpc \in {"none", "exited"}
Create  == /\ status = "NOT_OK" /\ impl
           /\ mpc = "create" /\ wpc \in {"none", "exited"}
Starts  == /\ status = "NOT_OK" /\ impl
           /\ mpc = "created" /\ wpc = "lock"
Runs    == /\ status \in {"OK", "WORK"} /\ impl
           /\ mpc \in {"idle", "reset", "lock", "test", "waiting", "signal",
                       "return"}
           /\ mpc = "signal" => op # "End"
           /\ wpc \in {"lock", "test", "waiting", "hook", "unlock", "signal"}
Ends    == /\ status = "NOT_OK" /\ impl /\ op = "End"
           /\ mpc \in {"signal", "join"}
           /\ wpc \in {"lock", "test", "waiting", "signal", "last_signal",
                       "exited"}
Destroyed == /\ status = "NOT_OK" /\ impl
             /\ mpc = "destroy" /\ wpc = "exited"
Lifetime == Down \/ Create \/ Starts \/ Runs \/ Ends \/ Destroyed

\* A hook runs for the job status_ announces, with its arguments, and it has
\* seen every failure recorded before it.
HookInv ==
  /\ wpc = "hook" => /\ status = "WORK" /\ arg = data
                     /\ failed => saw
  /\ wpc = "unlock" => status = "OK"

Inv ==
  /\ TypeOK
  /\ MutexInv
  /\ Lifetime
  /\ HookInv
  /\ RunExactlyOnce
  /\ SyncedIsIdle
  /\ NoLostWakeup
  /\ NoErrorLost

\* The state WebPWorkerInit leaves satisfies the invariant.
LEMMA InitInv == Init => Inv
<1> SUFFICES ASSUME Init PROVE Inv
  OBVIOUS
<1>1. TypeOK
  <2>1. << >> \in Seq(Jobs)
    OBVIOUS
  <2> QED
    BY <2>1 DEF Init, TypeOK, Statuses, Threads, Ops
<1>2. MutexInv /\ Lifetime /\ HookInv
  BY DEF Init, MutexInv, Lifetime, Down, HookInv
<1>3. RunExactlyOnce /\ SyncedIsIdle /\ NoLostWakeup /\ NoErrorLost
  BY DEF Init, RunExactlyOnce, SyncedIsIdle, NoLostWakeup, NoErrorLost, Threads
<1> QED
  BY <1>1, <1>2, <1>3 DEF Inv

\* Every step of either thread preserves the invariant.
LEMMA NextInv == Inv /\ [Next]_vars => Inv'
<1> SUFFICES ASSUME Inv, [Next]_vars PROVE Inv'
  OBVIOUS
<1> USE DEF Inv, TypeOK, MutexInv, Lifetime, Down, Create, Starts, Runs, Ends,
            Destroyed, HookInv, RunExactlyOnce, SyncedIsIdle, NoLostWakeup,
            NoErrorLost, Statuses, Threads, Ops, mainVars, threadVars, history
<1>1. CASE SetJob
  BY <1>1 DEF SetJob
<1>2. CASE CallReset
  BY <1>2 DEF CallReset
<1>3. CASE CallSync
  BY <1>3 DEF CallSync
<1>4. CASE CallLaunch
  BY <1>4 DEF CallLaunch
<1>5. CASE CallEnd
  BY <1>5 DEF CallEnd
<1>6. CASE ResetUp
  <2> USE <1>6 DEF ResetUp
  <2>1. TypeOK'
    <3>1. CASE status = "WORK"
      BY <3>1
    <3>2. CASE status # "WORK"
      BY <3>2
    <3> QED
      BY <3>1, <3>2
  <2>2. MutexInv' /\ HookInv'
    OBVIOUS
  <2>3. Lifetime'
    OBVIOUS
  <2>4. RunExactlyOnce' /\ SyncedIsIdle'
    OBVIOUS
  <2>5. NoLostWakeup' /\ NoErrorLost'
    OBVIOUS
  <2> QED
    BY <2>1, <2>2, <2>3, <2>4, <2>5
<1>7. CASE ResetAllocate
  BY <1>7 DEF ResetAllocate
<1>8. CASE ResetAllocateFails
  BY <1>8 DEF ResetAllocateFails
<1>9. CASE CreateThread
  BY <1>9 DEF CreateThread
<1>10. CASE CreateFails
  BY <1>10 DEF CreateFails
<1>11. CASE Created
  BY <1>11 DEF Created
<1>12. CASE MainWait
  BY <1>12 DEF MainWait, MainMustWait
<1>13. CASE MainAssign
  <2> USE <1>13 DEF MainAssign, MainMustWait, NewStatus
  <2>1. TypeOK'
    <3>1. launched' \in Seq(Jobs) /\ ran' \in Seq(Jobs)
      <4>1. Append(launched, data) \in Seq(Jobs)
        OBVIOUS
      <4> QED
        BY <4>1
    <3>2. status' \in Statuses /\ mpc' \in {"signal", "return"}
      OBVIOUS
    <3>3. synced' \in BOOLEAN
      OBVIOUS
    <3> QED
      BY <3>1, <3>2, <3>3
  <2>2. MutexInv' /\ HookInv'
    OBVIOUS
  <2>3. Lifetime'
    OBVIOUS
  <2>4. RunExactlyOnce' /\ SyncedIsIdle'
    OBVIOUS
  <2>5. NoLostWakeup' /\ NoErrorLost'
    OBVIOUS
  <2> QED
    BY <2>1, <2>2, <2>3, <2>4, <2>5
<1>14. CASE MainSignal
  <2> USE <1>14 DEF MainSignal, Signal
  <2>1. TypeOK'
    <3>1. waiters' \in SUBSET Threads /\ waiters' \subseteq waiters
      BY Zenon DEF Threads
    <3>2. UNCHANGED <<launched, ran>>
      OBVIOUS
    <3> QED
      BY <3>1, <3>2
  <2>2. MutexInv' /\ HookInv'
    OBVIOUS
  <2>3. Lifetime'
    OBVIOUS
  <2>4. RunExactlyOnce' /\ SyncedIsIdle'
    OBVIOUS
  <2>5. NoLostWakeup' /\ NoErrorLost'
    OBVIOUS
  <2> QED
    BY <2>1, <2>2, <2>3, <2>4, <2>5
<1>15. CASE SyncReturn
  BY <1>15 DEF SyncReturn
<1>16. CASE Join
  BY <1>16 DEF Join, ThreadIsOver
<1>17. CASE Destroy
  BY <1>17 DEF Destroy
<1>18. CASE MainLock
  BY <1>18 DEF MainLock, Asleep
<1>19. CASE ThreadLock
  BY <1>19 DEF ThreadLock, Asleep
<1>20. CASE ThreadWait
  BY <1>20 DEF ThreadWait, ThreadMustWait
<1>21. CASE ExecuteBegin
  BY <1>21 DEF ExecuteBegin
<1>22. CASE ExecuteEnd
  BY <1>22 DEF ExecuteEnd, Accumulate, StatusAfterJob
<1>23. CASE ThreadQuit
  BY <1>23 DEF ThreadQuit, ThreadMustWait
<1>24. CASE ThreadUnlock
  BY <1>24 DEF ThreadUnlock
<1>25. CASE ThreadSignal
  <2> USE <1>25 DEF ThreadSignal, Signal
  <2>1. TypeOK'
    <3>1. waiters' \in SUBSET Threads /\ waiters' \subseteq waiters
      BY Zenon DEF Threads
    <3>2. UNCHANGED <<launched, ran>>
      OBVIOUS
    <3> QED
      BY <3>1, <3>2
  <2>2. MutexInv' /\ HookInv'
    OBVIOUS
  <2>3. Lifetime'
    OBVIOUS
  <2>4. RunExactlyOnce' /\ SyncedIsIdle'
    OBVIOUS
  <2>5. NoLostWakeup' /\ NoErrorLost'
    OBVIOUS
  <2> QED
    BY <2>1, <2>2, <2>3, <2>4, <2>5
<1>26. CASE SpuriousWakeup
  BY <1>26 DEF SpuriousWakeup
<1>27. CASE UNCHANGED vars
  BY <1>27 DEF vars
<1> QED
  BY <1>1, <1>2, <1>3, <1>4, <1>5, <1>6, <1>7, <1>8, <1>9, <1>10, <1>11,
     <1>12, <1>13, <1>14, <1>15, <1>16, <1>17, <1>18, <1>19, <1>20, <1>21,
     <1>22, <1>23, <1>24, <1>25, <1>26, <1>27
     DEF Next, Calls, MainSteps, ResetSteps, ChangeState, ThreadSteps
-----------------------------------------------------------------------------
\* Inv holds in every reachable state.
THEOREM Invariance == SafeSpec => []Inv
<1>1. Init => Inv
  BY InitInv
<1>2. Inv /\ [Next]_vars => Inv'
  BY NextInv
<1> QED
  BY <1>1, <1>2, PTL DEF SafeSpec

\* Every variable of the worker keeps its type.
THEOREM TypeCorrect == SafeSpec => []TypeOK
<1>1. Inv => TypeOK
  BY DEF Inv
<1> QED
  BY <1>1, Invariance, PTL

\* ThreadLoop runs each launched job once, in order, with its arguments.
THEOREM ExactlyOnce == SafeSpec => []RunExactlyOnce
<1>1. Inv => RunExactlyOnce
  BY DEF Inv
<1> QED
  BY <1>1, Invariance, PTL

\* After a Sync, and until the next Launch, the thread has nothing to do.
THEOREM SyncWaits == SafeSpec => []SyncedIsIdle
<1>1. Inv => SyncedIsIdle
  BY DEF Inv
<1> QED
  BY <1>1, Invariance, PTL

\* No thread sleeps on the condition with its wake-up already gone by.
THEOREM WakeupsArrive == SafeSpec => []NoLostWakeup
<1>1. Inv => NoLostWakeup
  BY DEF Inv
<1> QED
  BY <1>1, Invariance, PTL

\* The mutex and the condition outlive every use of them.
THEOREM ImplOutlivesUse == SafeSpec => []NoUseAfterFree
<1>1. Inv => NoUseAfterFree
  BY DEF Inv, Lifetime, Down, Create, Starts, Runs, Ends, Destroyed,
         NoUseAfterFree
<1> QED
  BY <1>1, Invariance, PTL

\* A failure of a hook since the last Reset is never lost.
THEOREM ErrorsSurvive == SafeSpec => []NoErrorLost
<1>1. Inv => NoErrorLost
  BY DEF Inv
<1> QED
  BY <1>1, Invariance, PTL

-----------------------------------------------------------------------------
(* Refinement: each step of Worker is a step of JobWorker or leaves it alone. *)

\* A launch makes the sequence of launched jobs differ from the finished ones.
LEMMA AppendIsLonger ==
  ASSUME NEW s \in Seq(Jobs), NEW j \in Jobs
  PROVE  Append(s, j) # s
<1>1. Len(Append(s, j)) = Len(s) + 1 /\ Len(s) \in Nat
  OBVIOUS
<1> QED
  BY <1>1

\* The initial states of Worker are initial states of JobWorker.
LEMMA InitRefines == Init => Abstract!Init
  BY DEF Init, Abstract!Init

\* Created starts the abstract worker, MainAssign launches or stops,
\* ExecuteEnd finishes; every other step stutters.
LEMMA NextRefines == Inv /\ [Next]_vars => [Abstract!Next]_(Abstract!vars)
<1> SUFFICES ASSUME Inv, [Next]_vars
             PROVE  [Abstract!Next]_(Abstract!vars)
  OBVIOUS
<1> USE DEF Abstract!vars, mainVars, threadVars, history
<1>1. CASE Created
  <2>1. status = "NOT_OK"
    BY <1>1 DEF Created, Inv, Lifetime, Down, Create, Starts, Runs, Ends,
                Destroyed
  <2>2. Abstract!Start
    BY <1>1, <2>1 DEF Created, Abstract!Start
  <2> QED
    BY <2>2 DEF Abstract!Next
<1>2. CASE MainAssign
  <2>1. status = "OK" /\ launched = ran /\ op \in Ops /\ data \in Jobs
    BY <1>2 DEF MainAssign, MainMustWait, Inv, RunExactlyOnce, TypeOK, Lifetime,
                Down, Create, Starts, Runs, Ends, Destroyed, MutexInv
  <2>2. CASE op = "Launch"
    <3>1. Abstract!Launch(data)
      BY <1>2, <2>1, <2>2
         DEF MainAssign, NewStatus, Abstract!Launch, Abstract!Busy
    <3> QED
      BY <3>1, <2>1 DEF Abstract!Next
  <2>3. CASE op = "End"
    <3>1. Abstract!Stop
      BY <1>2, <2>1, <2>3
         DEF MainAssign, NewStatus, Abstract!Stop, Abstract!Busy
    <3> QED
      BY <3>1 DEF Abstract!Next
  <2>4. CASE op \in {"Reset", "Sync"}
    <3>1. UNCHANGED <<status, launched, ran>>
      BY <1>2, <2>4 DEF MainAssign, NewStatus
    <3> QED
      BY <3>1
  <2> QED
    BY <2>1, <2>2, <2>3, <2>4 DEF Ops
<1>3. CASE ExecuteEnd
  <2>1. /\ status = "WORK" /\ arg = data
        /\ launched = Append(ran, data)
        /\ ran \in Seq(Jobs) /\ data \in Jobs
    BY <1>3 DEF ExecuteEnd, Inv, HookInv, RunExactlyOnce, TypeOK
  <2>2. launched # ran
    BY <2>1, AppendIsLonger
  <2>3. ran' = launched /\ launched' = launched
        /\ (status' # "NOT_OK") = (status # "NOT_OK")
    BY <1>3, <2>1 DEF ExecuteEnd, StatusAfterJob
  <2>4. Abstract!Finish
    BY <2>2, <2>3 DEF Abstract!Finish, Abstract!Busy
  <2> QED
    BY <2>4 DEF Abstract!Next
<1>4. CASE SetJob \/ CallReset \/ CallSync \/ CallLaunch \/ CallEnd
  BY <1>4 DEF SetJob, CallReset, CallSync, CallLaunch, CallEnd
<1>5. CASE \/ ResetUp \/ ResetAllocate \/ ResetAllocateFails
           \/ CreateThread \/ CreateFails
  BY <1>5 DEF ResetUp, ResetAllocate, ResetAllocateFails, CreateThread,
              CreateFails
<1>6. CASE MainWait \/ MainSignal \/ SyncReturn \/ Join \/ Destroy \/ MainLock
  BY <1>6 DEF MainWait, MainSignal, SyncReturn, Join, Destroy, MainLock
<1>7. CASE \/ ThreadLock \/ ThreadWait \/ ExecuteBegin \/ ThreadQuit
           \/ ThreadUnlock \/ ThreadSignal \/ SpuriousWakeup
  BY <1>7 DEF ThreadLock, ThreadWait, ExecuteBegin, ThreadQuit, ThreadUnlock,
              ThreadSignal, SpuriousWakeup
<1>8. CASE UNCHANGED vars
  BY <1>8 DEF vars
<1> QED
  BY <1>1, <1>2, <1>3, <1>4, <1>5, <1>6, <1>7, <1>8
     DEF Next, Calls, MainSteps, ResetSteps, ChangeState, ThreadSteps

\* The safety part of ImplementsJobWorker, for any jobs and any number of them.
THEOREM Refinement == SafeSpec => Abstract!SafeSpec
<1>1. Init => Abstract!Init
  BY InitRefines
<1>2. Inv /\ [Next]_vars => [Abstract!Next]_(Abstract!vars)
  BY NextRefines
<1> QED
  BY <1>1, <1>2, Invariance, PTL DEF SafeSpec, Abstract!SafeSpec
=============================================================================
