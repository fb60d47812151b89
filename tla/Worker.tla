------------------------------- MODULE Worker -------------------------------
(***************************************************************************)
(* The worker thread of src/utils/thread_utils.c (pthread build): the owner *)
(* thread ("main") calls Reset, Launch, Sync and End; the thread running    *)
(* ThreadLoop ("worker") executes the hook.  One mutex and ONE condition    *)
(* variable are shared by both directions, pthread_cond_signal (not         *)
(* broadcast) is called after the unlock, and a wait may wake up spuriously.*)
(***************************************************************************)
EXTENDS Naturals, Sequences

CONSTANTS
  Jobs,                \* values of the hook's arguments (data1, data2)
  MaxLaunch            \* bound: number of jobs launched in a behaviour

ASSUME JobsAssumption == Jobs # {}
ASSUME MaxLaunchAssumption == MaxLaunch \in Nat

VARIABLES
  status,              \* worker->status_
  impl,                \* worker->impl_ # NULL: mutex and condition exist
  owner,               \* which thread holds impl->mutex_
  waiters,             \* threads blocked in pthread_cond_wait
  hadError,            \* worker->had_error
  data,                \* worker->data1 / data2
  mpc, op,             \* where main is, and in which call
  ret,                 \* what the last Sync or Reset returned
  wpc,                 \* where ThreadLoop is; "none": no thread
  arg, saw,            \* arguments and had_error as the running hook read them
  launched, ran,       \* history: jobs launched, jobs whose hook returned
  synced,              \* history: main has synced since its last launch
  failed               \* history: a hook failed since the last Reset

mainVars   == <<mpc, op, ret, synced>>
threadVars == <<wpc, arg, saw>>
history    == <<launched, ran, failed>>
vars == <<status, impl, owner, waiters, hadError, data,
          mainVars, threadVars, history>>

Threads  == {"main", "worker"}
Statuses == {"NOT_OK", "OK", "WORK"}
Ops      == {"Reset", "Sync", "Launch", "End"}

\* The argument of ChangeState in each call; Reset reaches it through Sync.
NewStatus(o) == CASE o = "Launch" -> "WORK"
                  [] o = "End"    -> "NOT_OK"
                  [] OTHER        -> "OK"

\* Variant for a check of NoLostWakeup: the signal reaches nobody.
SignalMissed == waiters' = waiters

\* pthread_cond_signal: wakes one waiter if there is one.
Signal == IF waiters = {} THEN waiters' = waiters
          ELSE \E t \in waiters : waiters' = waiters \ {t}

\* pthread_cond_wait has not been woken yet.
Asleep(t) == t \in waiters

\* ChangeState: while (status_ != OK), once status_ >= OK.
MainMustWait == status = "WORK"

\* Variant: ThreadLoop goes back to sleep unless there is work.
ThreadIdlesUnlessWork == status # "WORK"

\* ThreadLoop: while (status_ == OK).
ThreadMustWait == status = "OK"

\* Variant: the job is not taken off status_ once it has run.
StatusKept == "WORK"

\* ThreadLoop, after Execute.
StatusAfterJob == "OK"

\* Execute: had_error |= !hook().
Accumulate(old, fails) == old \/ fails

\* Variant: End frees impl_ without waiting for the thread.
NoJoin == TRUE

\* pthread_join returns once ThreadLoop has.
ThreadIsOver == wpc = "exited"

Init ==
  /\ status = "NOT_OK" /\ impl = FALSE
  /\ owner = "none" /\ waiters = {}
  /\ hadError = FALSE /\ failed = FALSE
  /\ data \in Jobs /\ arg = data /\ saw = FALSE
  /\ mpc = "idle" /\ op = "Sync" /\ ret = TRUE /\ synced = TRUE
  /\ wpc = "none"
  /\ launched = << >> /\ ran = << >>

-----------------------------------------------------------------------------
(* The owner.  Between two calls it may give the hook new arguments, once   *)
(* it has synced (thread_utils.h: "not be changed afterward until the next  *)
(* call to Sync()").                                                        *)

SetJob ==
  /\ mpc = "idle" /\ synced
  /\ data' \in Jobs
  /\ UNCHANGED <<status, impl, owner, waiters, hadError,
                 mainVars, threadVars, history>>

\* had_error is cleared without the mutex, before status_ is looked at.
CallReset ==
  /\ mpc = "idle"
  /\ mpc' = "reset" /\ op' = "Reset"
  /\ hadError' = FALSE /\ failed' = FALSE
  /\ UNCHANGED <<status, impl, owner, waiters, data, ret, synced,
                 threadVars, launched, ran>>

\* status_ is read without the mutex.
ResetUp ==
  /\ mpc = "reset" /\ status # "NOT_OK"
  /\ IF status = "WORK"
       THEN mpc' = "lock" /\ ret' = ret
       ELSE mpc' = "idle" /\ ret' = TRUE
  /\ UNCHANGED <<status, impl, owner, waiters, hadError, data, op, synced,
                 threadVars, history>>

\* The allocation and both inits succeed and the fresh mutex is taken.
ResetAllocate ==
  /\ mpc = "reset" /\ status = "NOT_OK"
  /\ impl' = TRUE /\ owner' = "main" /\ mpc' = "create"
  /\ UNCHANGED <<status, waiters, hadError, data, op, ret, synced,
                 threadVars, history>>

\* The allocation or one of the inits fails: nothing is left behind.
ResetAllocateFails ==
  /\ mpc = "reset" /\ status = "NOT_OK"
  /\ impl' = FALSE /\ mpc' = "idle" /\ ret' = FALSE
  /\ UNCHANGED <<status, owner, waiters, hadError, data, op, synced,
                 threadVars, history>>

CreateThread ==
  /\ mpc = "create"
  /\ wpc' = "lock" /\ mpc' = "created"
  /\ UNCHANGED <<status, impl, owner, waiters, hadError, data,
                 op, ret, synced, arg, saw, history>>

CreateFails ==
  /\ mpc = "create"
  /\ owner' = "none" /\ impl' = FALSE
  /\ mpc' = "idle" /\ ret' = FALSE
  /\ UNCHANGED <<status, waiters, hadError, data, op, synced,
                 threadVars, history>>

\* The thread exists but cannot look at status_ before main unlocks.
Created ==
  /\ mpc = "created"
  /\ status' = "OK" /\ owner' = "none"
  /\ mpc' = "idle" /\ ret' = TRUE
  /\ UNCHANGED <<impl, waiters, hadError, data, op, synced,
                 threadVars, history>>

\* Without a thread, Sync only reports; Launch and End do nothing.
CallSync ==
  /\ mpc = "idle"
  /\ op' = "Sync"
  /\ mpc' = IF impl THEN "lock" ELSE "return"
  /\ UNCHANGED <<status, impl, owner, waiters, hadError, data, ret, synced,
                 threadVars, history>>

CallLaunch ==
  /\ mpc = "idle" /\ Len(launched) < MaxLaunch
  /\ impl
  /\ op' = "Launch" /\ mpc' = "lock"
  /\ UNCHANGED <<status, impl, owner, waiters, hadError, data, ret, synced,
                 threadVars, history>>

CallEnd ==
  /\ mpc = "idle"
  /\ impl
  /\ op' = "End" /\ mpc' = "lock"
  /\ UNCHANGED <<status, impl, owner, waiters, hadError, data, ret, synced,
                 threadVars, history>>

-----------------------------------------------------------------------------
(* ChangeState(NewStatus(op)), run by main.                                 *)

\* First acquisition, or re-acquisition inside pthread_cond_wait.
MainLock ==
  /\ mpc \in {"lock", "waiting"} /\ ~ Asleep("main")
  /\ owner = "none"
  /\ owner' = "main" /\ mpc' = "test"
  /\ UNCHANGED <<status, impl, waiters, hadError, data, op, ret, synced,
                 threadVars, history>>

MainWait ==
  /\ mpc = "test" /\ MainMustWait
  /\ owner' = "none" /\ waiters' = waiters \union {"main"}
  /\ mpc' = "waiting"
  /\ UNCHANGED <<status, impl, hadError, data, op, ret, synced,
                 threadVars, history>>

\* Assign the new status and unlock; Launch and End still have to signal.
MainAssign ==
  /\ mpc = "test" /\ ~ MainMustWait
  /\ owner' = "none"
  /\ IF status = "OK" /\ NewStatus(op) # "OK"
       THEN status' = NewStatus(op) /\ mpc' = "signal"
       ELSE status' = status /\ mpc' = "return"
  /\ IF op = "Launch"
       THEN launched' = Append(launched, data) /\ synced' = FALSE
       ELSE UNCHANGED <<launched, synced>>
  /\ UNCHANGED <<impl, waiters, hadError, data, op, ret,
                 threadVars, ran, failed>>

MainSignal ==
  /\ mpc = "signal"
  /\ Signal
  /\ mpc' = IF op = "End" THEN "join" ELSE "idle"
  /\ UNCHANGED <<status, impl, owner, hadError, data, op, ret, synced,
                 threadVars, history>>

\* The end of Sync, also when Reset called it.
SyncReturn ==
  /\ mpc = "return"
  /\ ret' = ~ hadError /\ synced' = TRUE
  /\ mpc' = "idle"
  /\ UNCHANGED <<status, impl, owner, waiters, hadError, data, op,
                 threadVars, history>>

Join ==
  /\ mpc = "join" /\ ThreadIsOver
  /\ mpc' = "destroy"
  /\ UNCHANGED <<status, impl, owner, waiters, hadError, data,
                 op, ret, synced, threadVars, history>>

\* Destroy the mutex and the condition, free impl_.
Destroy ==
  /\ mpc = "destroy"
  /\ impl' = FALSE /\ synced' = TRUE
  /\ mpc' = "idle"
  /\ UNCHANGED <<status, owner, waiters, hadError, data, op, ret,
                 threadVars, history>>

-----------------------------------------------------------------------------
(* ThreadLoop.                                                              *)

ThreadLock ==
  /\ wpc \in {"lock", "waiting"} /\ ~ Asleep("worker")
  /\ owner = "none"
  /\ owner' = "worker" /\ wpc' = "test"
  /\ UNCHANGED <<status, impl, waiters, hadError, data, arg, saw,
                 mainVars, history>>

ThreadWait ==
  /\ wpc = "test" /\ ThreadMustWait
  /\ owner' = "none" /\ waiters' = waiters \union {"worker"}
  /\ wpc' = "waiting"
  /\ UNCHANGED <<status, impl, hadError, data, arg, saw, mainVars, history>>

\* Execute calls the hook, with the mutex held for as long as the hook runs.
ExecuteBegin ==
  /\ wpc = "test" /\ status = "WORK"
  /\ arg' = data /\ saw' = hadError
  /\ wpc' = "hook"
  /\ UNCHANGED <<status, impl, owner, waiters, hadError, data,
                 mainVars, history>>

\* had_error |= !hook(): the old value may be read before or after the hook
\* runs, and CallReset clears it without the mutex.
ExecuteEnd ==
  /\ wpc = "hook"
  /\ \E fails \in BOOLEAN :
       /\ hadError' \in {Accumulate(saw, fails), Accumulate(hadError, fails)}
       /\ failed' = (failed \/ fails)
  /\ ran' = Append(ran, arg)
  /\ status' = StatusAfterJob
  /\ wpc' = "unlock"
  /\ UNCHANGED <<impl, owner, waiters, data, arg, saw, mainVars, launched>>

ThreadQuit ==
  /\ wpc = "test" /\ ~ ThreadMustWait /\ status = "NOT_OK"
  /\ owner' = "none" /\ wpc' = "last_signal"
  /\ UNCHANGED <<status, impl, waiters, hadError, data, arg, saw,
                 mainVars, history>>

ThreadUnlock ==
  /\ wpc = "unlock"
  /\ owner' = "none" /\ wpc' = "signal"
  /\ UNCHANGED <<status, impl, waiters, hadError, data, arg, saw,
                 mainVars, history>>

ThreadSignal ==
  /\ wpc \in {"signal", "last_signal"}
  /\ Signal
  /\ wpc' = IF wpc = "signal" THEN "lock" ELSE "exited"
  /\ UNCHANGED <<status, impl, owner, hadError, data, arg, saw,
                 mainVars, history>>

\* pthread_cond_wait may return although nobody signalled.
SpuriousWakeup ==
  /\ \E t \in waiters : waiters' = waiters \ {t}
  /\ UNCHANGED <<status, impl, owner, hadError, data,
                 mainVars, threadVars, history>>

-----------------------------------------------------------------------------
Calls       == SetJob \/ CallReset \/ CallSync \/ CallLaunch \/ CallEnd
ResetSteps  == ResetUp \/ ResetAllocate \/ ResetAllocateFails
                 \/ CreateThread \/ CreateFails \/ Created
ChangeState == MainWait \/ MainAssign \/ MainSignal
MainSteps   == ResetSteps \/ ChangeState \/ SyncReturn \/ Join \/ Destroy
ThreadSteps == ThreadWait \/ ExecuteBegin \/ ExecuteEnd \/ ThreadQuit
                 \/ ThreadUnlock \/ ThreadSignal

Next == Calls \/ MainSteps \/ MainLock \/ ThreadSteps \/ ThreadLock
          \/ SpuriousWakeup

SafeSpec == Init /\ [][Next]_vars

(* Neither thread stops between two steps, every hook returns, and a mutex  *)
(* that is free again and again is eventually taken by a thread that keeps  *)
(* asking for it.  The owner need not call anything, and spurious wake-ups  *)
(* need not come.                                                           *)
Fairness ==
  /\ WF_vars(MainSteps) /\ SF_vars(MainLock)
  /\ WF_vars(ThreadSteps) /\ SF_vars(ThreadLock)

Spec == SafeSpec /\ Fairness

-----------------------------------------------------------------------------
(* Properties.                                                              *)

\* Every variable holds a value of its type, and only a thread inside
\* pthread_cond_wait is on the list of waiters.
TypeOK ==
  /\ status \in Statuses /\ impl \in BOOLEAN
  /\ owner \in Threads \union {"none"} /\ waiters \in SUBSET Threads
  /\ hadError \in BOOLEAN /\ failed \in BOOLEAN
  /\ data \in Jobs /\ arg \in Jobs /\ saw \in BOOLEAN
  /\ mpc \in {"idle", "reset", "create", "created", "lock", "test",
              "waiting", "signal", "return", "join", "destroy"}
  /\ op \in Ops /\ ret \in BOOLEAN /\ synced \in BOOLEAN
  /\ wpc \in {"none", "lock", "test", "waiting", "hook", "unlock",
              "signal", "last_signal", "exited"}
  /\ launched \in Seq(Jobs) /\ ran \in Seq(Jobs)
  /\ "main" \in waiters => mpc = "waiting"
  /\ "worker" \in waiters => wpc = "waiting"

\* Each launched job is run once, in launch order and with the arguments it
\* was launched with (ChangeState and ThreadLoop share status_ under mutex_;
\* main writes data1 and data2 only after a Sync).
RunExactlyOnce ==
  launched = IF status = "WORK" THEN Append(ran, data) ELSE ran

\* When a call to Sync is over, and until the next launch, the thread is idle:
\* the assertion status_ <= OK of Sync, and what every user of Sync relies on.
SyncedIsIdle == (synced \/ mpc = "return") => status # "WORK"

\* A thread asleep on the condition it waits for has a signal coming: from main
\* if work or the end was announced, from ThreadLoop if the job is finished,
\* although signals are sent after the unlock.  The two never sleep together,
\* so a signal that wakes one thread cannot wake the wrong one.
NoLostWakeup ==
  /\ "worker" \in waiters /\ status # "OK" => mpc = "signal"
  /\ "main" \in waiters /\ status # "WORK" => wpc \in {"unlock", "signal"}
  /\ waiters # Threads

\* A thread that still uses impl_ (its mutex or its condition) finds it
\* alive: End frees it only after the join.
NoUseAfterFree ==
  /\ wpc \notin {"none", "exited"} => impl
  /\ mpc \in {"lock", "test", "waiting", "signal"} => impl

\* had_error never forgets a failure that came after the last Reset, so a
\* Sync that returns true really covers every job since then.
NoErrorLost == failed => hadError

\* Every call of the owner returns: nobody waits for a wake-up for ever.
CallsReturn == mpc # "idle" ~> mpc = "idle"

\* The pthread code does what JobWorker promises, and every launched job is
\* finished even if its owner never calls again.
Abstract == INSTANCE JobWorker WITH up <- status # "NOT_OK", done <- ran
ImplementsJobWorker == Abstract!Spec
=============================================================================
