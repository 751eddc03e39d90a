----------------------- MODULE PluginRuntime_proofs -----------------------
(***************************************************************************)
(* Proofs about PluginRuntime, for every set of callers, tasks and         *)
(* closers.                                                                *)
(***************************************************************************)
EXTENDS PluginRuntime, TLAPS

(***************************************************************************)
(* Typing. The operators several actions share come first.                 *)
(***************************************************************************)

\* Every update of the job record yields a job record.
LEMMA JobTypes ==
  /\ NoJob \in Job
  /\ \A j \in Job : /\ [j EXCEPT !.by = NoOne] \in Job
                   /\ [j EXCEPT !.due = TRUE] \in Job
                   /\ [j EXCEPT !.left = 0] \in Job
<1>1. NoJob \in Job
  BY DEF Job, NoJob
<1>2. ASSUME NEW j \in Job
      PROVE  /\ [j EXCEPT !.by = NoOne] \in Job
             /\ [j EXCEPT !.due = TRUE] \in Job
             /\ [j EXCEPT !.left = 0] \in Job
  <2>1. [j EXCEPT !.by = NoOne] \in Job
    BY DEF Job
  <2>2. [j EXCEPT !.due = TRUE] \in Job
    BY DEF Job
  <2>3. 0 \in 0..1
    OBVIOUS
  <2>4. [j EXCEPT !.left = 0] \in Job
    BY <2>3 DEF Job
  <2> QED
    BY <2>1, <2>2, <2>4
<1> QED
  BY <1>1, <1>2

\* Sending a result keeps the types of all that belongs to calls.
LEMMA SendTypes ==
  ASSUME TypeOK, NEW o \in Outcome, Send(o)
  PROVE  /\ inbox' \in [Callers -> Outcome \cup {None}]
         /\ job' \in Job
         /\ UNCHANGED <<pc, due, gone, fresh, outcome, strikes>>
BY JobTypes DEF TypeOK, Send

\* So does returning from call.
LEMMA ReturnTypes ==
  ASSUME TypeOK, NEW c \in Callers, NEW o \in Outcome, Return(c, o)
  PROVE  /\ pc' \in [Callers -> {"idle", "dispatch", "wait", "expiring", "cancelling"}]
         /\ due' \in [Callers -> BOOLEAN]
         /\ gone' \in [Callers -> BOOLEAN]
         /\ fresh' \in [Callers -> BOOLEAN]
         /\ inbox' \in [Callers -> Outcome \cup {None}]
         /\ outcome' \in [Callers -> Outcome \cup {None}]
         /\ job' \in Job
BY JobTypes DEF TypeOK, Return

\* Every step of call, work, activate, the background goroutines and Shutdown
\* keeps the state well typed.
LEMMA TypeStep == TypeOK /\ [Next]_vars => TypeOK'
<1> USE RuntimeAssumption DEF TypeOK, Outcome, callVars, restVars, taskVars, stopVars
<1> SUFFICES ASSUME TypeOK, [Next]_vars PROVE TypeOK'
  OBVIOUS
<1>1. CASE ActivateOk
  BY <1>1 DEF ActivateOk
<1>2. CASE ActivateExpires
  BY <1>2 DEF ActivateExpires
<1>3. CASE ActivateFails
  BY <1>3 DEF ActivateFails, StopTasks
<1>4. CASE JsReturns
  BY <1>4, SendTypes, JobTypes DEF JsReturns, Proceed, Finish
<1>5. CASE JsPromises
  BY <1>5 DEF JsPromises
<1>6. CASE JsThrows
  BY <1>6, SendTypes, JobTypes DEF JsThrows, Finish
<1>7. CASE PromiseSettles
  BY <1>7, SendTypes, JobTypes DEF PromiseSettles, Proceed, Finish
<1>8. CASE WorkerQuit
  BY <1>8 DEF WorkerQuit
<1>9. CASE PrepareVM
  BY <1>9, SendTypes, JobTypes DEF PrepareVM
<1>10. CASE Gate
  BY <1>10, SendTypes, JobTypes DEF Gate, Finish
<1>11. CASE JsInterrupted
  BY <1>11, SendTypes, JobTypes DEF JsInterrupted, Finish
<1>12. CASE TickInterrupted
  BY <1>12 DEF TickInterrupted
<1>13. CASE AwaitDeadline
  BY <1>13, SendTypes, JobTypes DEF AwaitDeadline, Finish
<1>14. CASE ShutdownStopsTasks
  BY <1>14 DEF ShutdownStopsTasks, StopTasks
<1>15. CASE ShutdownCloses
  BY <1>15 DEF ShutdownCloses
<1>16. ASSUME NEW k \in Closers, ShutdownLeavesOnce(k)
      PROVE  TypeOK'
  BY <1>16 DEF ShutdownLeavesOnce
<1>17. ASSUME NEW k \in Closers, ShutdownReturns(k)
      PROVE  TypeOK'
  BY <1>17 DEF ShutdownReturns
<1>18. ASSUME NEW c \in Hosts, HostCall(c)
      PROVE  TypeOK'
  BY <1>18 DEF HostCall, Begin
<1>19. ASSUME NEW c \in Hosts, Cancel(c)
      PROVE  TypeOK'
  BY <1>19 DEF Cancel
<1>20. ASSUME NEW c \in Callers, Dispatch(c)
      PROVE  TypeOK'
  BY <1>20, JobTypes DEF Dispatch, Job
<1>21. ASSUME NEW c \in Callers, DispatchQuit(c)
      PROVE  TypeOK'
  BY <1>21, ReturnTypes DEF DispatchQuit
<1>22. ASSUME NEW c \in Callers, DispatchDone(c)
      PROVE  TypeOK'
  BY <1>22, ReturnTypes DEF DispatchDone
<1>23. ASSUME NEW c \in Callers, TakeResult(c)
      PROVE  TypeOK'
  BY <1>23, ReturnTypes DEF TakeResult
<1>24. ASSUME NEW c \in Callers, WaitQuit(c)
      PROVE  TypeOK'
  BY <1>24, ReturnTypes DEF WaitQuit
<1>25. ASSUME NEW c \in Callers, ChooseTimer(c)
      PROVE  TypeOK'
  BY <1>25, JobTypes DEF ChooseTimer
<1>26. ASSUME NEW c \in Callers, GiveUp(c)
      PROVE  TypeOK'
  BY <1>26, ReturnTypes DEF GiveUp
<1>27. ASSUME NEW c \in Callers, Expire(c)
      PROVE  TypeOK'
  BY <1>27, JobTypes DEF Expire
<1>28. CASE ExpireJob
  BY <1>28, JobTypes DEF ExpireJob
<1>29. CASE ResetStrikes
  BY <1>29 DEF ResetStrikes
<1>30. CASE SetBackground
  BY <1>30 DEF SetBackground
<1>31. ASSUME NEW t \in Timers, Every(t)
      PROVE  TypeOK'
  BY <1>31 DEF Every
<1>32. ASSUME NEW t \in Timers, CancelTask(t)
      PROVE  TypeOK'
  BY <1>32 DEF CancelTask
<1>33. ASSUME NEW t \in Timers, TimerTick(t)
      PROVE  TypeOK'
  BY <1>33 DEF TimerTick, Begin
<1>34. ASSUME NEW t \in Timers, TimerExit(t)
      PROVE  TypeOK'
  BY <1>34 DEF TimerExit
<1>35. ASSUME NEW k \in Closers, ShutdownCalled(k)
      PROVE  TypeOK'
  BY <1>35 DEF ShutdownCalled
<1>36. CASE UNCHANGED vars
  BY <1>36 DEF vars, callVars, restVars, taskVars, stopVars
<1> QED
  BY <1>1, <1>2, <1>3, <1>4, <1>5, <1>6, <1>7, <1>8, <1>9, <1>10, <1>11, <1>12, <1>13, <1>14,
     <1>15, <1>16, <1>17, <1>18, <1>19, <1>20, <1>21, <1>22, <1>23, <1>24, <1>25, <1>26,
     <1>27, <1>28, <1>29, <1>30, <1>31, <1>32, <1>33, <1>34, <1>35, <1>36
  DEF Next, ActivateStep, JsStep, WorkerStep, ShutdownStep, CallStep

\* newRuntime builds a well typed runtime.
LEMMA TypeInit == Init => TypeOK
<1>1. 0 \in 0..StrikeCap
  BY RuntimeAssumption
<1> QED
  BY <1>1, JobTypes DEF Init, TypeOK

\* Every reachable state of the runtime is well typed.
THEOREM TypeCorrect == Spec => []TypeOK
BY TypeInit, TypeStep, PTL DEF Spec

----------------------------------------------------------------------------
(***************************************************************************)
(* The inductive invariant.                                                *)
(***************************************************************************)

\* RuntimeInv is inductive: no step of any goroutine of the runtime breaks it.
LEMMA InvStep == RuntimeInv /\ [Next]_vars => RuntimeInv'
<1> USE RuntimeAssumption
    DEF RuntimeInv, ShutdownInterruptPending, QuitInv, RequestInv, LateInv,
        Executing, Waiting, TypeOK, Job, NoJob, Outcome, None,
        callVars, restVars, taskVars, stopVars
<1> SUFFICES ASSUME RuntimeInv, [Next]_vars PROVE RuntimeInv'
  OBVIOUS
<1>0. TypeOK'
  BY TypeStep
<1>1. CASE ActivateOk
  BY <1>1, <1>0 DEF ActivateOk
<1>2. CASE ActivateExpires
  BY <1>2, <1>0 DEF ActivateExpires
<1>3. CASE ActivateFails
  BY <1>3, <1>0 DEF ActivateFails, StopTasks
<1>4. CASE JsReturns
  BY <1>4, <1>0 DEF JsReturns, Proceed, Finish, Send
<1>5. CASE JsPromises
  BY <1>5, <1>0 DEF JsPromises
<1>6. CASE JsThrows
  BY <1>6, <1>0 DEF JsThrows, Finish, Send
<1>7. CASE PromiseSettles
  BY <1>7, <1>0 DEF PromiseSettles, Proceed, Finish, Send
<1>8. CASE WorkerQuit
  BY <1>8, <1>0 DEF WorkerQuit
<1>9. CASE PrepareVM
  BY <1>9, <1>0 DEF PrepareVM, Send
<1>10. CASE Gate
  BY <1>10, <1>0 DEF Gate, Finish, Send
<1>11. CASE JsInterrupted
  BY <1>11, <1>0 DEF JsInterrupted, Finish, Send
<1>12. CASE TickInterrupted
  BY <1>12, <1>0 DEF TickInterrupted
<1>13. CASE AwaitDeadline
  BY <1>13, <1>0 DEF AwaitDeadline, Finish, Send
<1>14. CASE ShutdownStopsTasks
  BY <1>14, <1>0 DEF ShutdownStopsTasks, StopTasks
<1>15. CASE ShutdownCloses
  BY <1>15, <1>0 DEF ShutdownCloses
<1>16. ASSUME NEW k \in Closers, ShutdownLeavesOnce(k)
      PROVE  RuntimeInv'
  <2>1. ShutdownInterruptPending'
    BY <1>16 DEF ShutdownLeavesOnce
  <2>2. QuitInv'
    BY <1>16 DEF ShutdownLeavesOnce
  <2>3. RequestInv'
    BY <1>16 DEF ShutdownLeavesOnce
  <2>4. LateInv'
    BY <1>16 DEF ShutdownLeavesOnce
  <2> QED
    BY <1>0, <2>1, <2>2, <2>3, <2>4
<1>17. ASSUME NEW k \in Closers, ShutdownReturns(k)
      PROVE  RuntimeInv'
  BY <1>17, <1>0 DEF ShutdownReturns
<1>18. ASSUME NEW c \in Hosts, HostCall(c)
      PROVE  RuntimeInv'
  BY <1>18, <1>0 DEF HostCall, Begin
<1>19. ASSUME NEW c \in Hosts, Cancel(c)
      PROVE  RuntimeInv'
  BY <1>19, <1>0 DEF Cancel
<1>20. ASSUME NEW c \in Callers, Dispatch(c)
      PROVE  RuntimeInv'
  BY <1>20, <1>0 DEF Dispatch
<1>21. ASSUME NEW c \in Callers, DispatchQuit(c)
      PROVE  RuntimeInv'
  <2>1. ShutdownInterruptPending'
    BY <1>21 DEF DispatchQuit, Return
  <2>2. QuitInv'
    BY <1>21 DEF DispatchQuit, Return
  <2>3. RequestInv'
    BY <1>21 DEF DispatchQuit, Return
  <2>4. LateInv'
    BY <1>21 DEF DispatchQuit, Return
  <2> QED
    BY <1>0, <2>1, <2>2, <2>3, <2>4
<1>22. ASSUME NEW c \in Callers, DispatchDone(c)
      PROVE  RuntimeInv'
  BY <1>22, <1>0 DEF DispatchDone, Return
<1>23. ASSUME NEW c \in Callers, TakeResult(c)
      PROVE  RuntimeInv'
  BY <1>23, <1>0 DEF TakeResult, Return
<1>24. ASSUME NEW c \in Callers, WaitQuit(c)
      PROVE  RuntimeInv'
  <2>1. ShutdownInterruptPending'
    BY <1>24 DEF WaitQuit, Return
  <2>2. QuitInv'
    BY <1>24 DEF WaitQuit, Return
  <2>3. RequestInv'
    BY <1>24 DEF WaitQuit, Return
  <2>4. LateInv'
    BY <1>24 DEF WaitQuit, Return
  <2> QED
    BY <1>0, <2>1, <2>2, <2>3, <2>4
<1>25. ASSUME NEW c \in Callers, ChooseTimer(c)
      PROVE  RuntimeInv'
  BY <1>25, <1>0 DEF ChooseTimer
<1>26. ASSUME NEW c \in Callers, GiveUp(c)
      PROVE  RuntimeInv'
  BY <1>26, <1>0 DEF GiveUp, Return
<1>27. ASSUME NEW c \in Callers, Expire(c)
      PROVE  RuntimeInv'
  BY <1>27, <1>0 DEF Expire
<1>28. CASE ExpireJob
  BY <1>28, <1>0 DEF ExpireJob
<1>29. CASE ResetStrikes
  BY <1>29, <1>0 DEF ResetStrikes
<1>30. CASE SetBackground
  BY <1>30, <1>0 DEF SetBackground
<1>31. ASSUME NEW t \in Timers, Every(t)
      PROVE  RuntimeInv'
  BY <1>31, <1>0 DEF Every
<1>32. ASSUME NEW t \in Timers, CancelTask(t)
      PROVE  RuntimeInv'
  BY <1>32, <1>0 DEF CancelTask
<1>33. ASSUME NEW t \in Timers, TimerTick(t)
      PROVE  RuntimeInv'
  BY <1>33, <1>0 DEF TimerTick, Begin
<1>34. ASSUME NEW t \in Timers, TimerExit(t)
      PROVE  RuntimeInv'
  BY <1>34, <1>0 DEF TimerExit
<1>35. ASSUME NEW k \in Closers, ShutdownCalled(k)
      PROVE  RuntimeInv'
  BY <1>35, <1>0 DEF ShutdownCalled
<1>36. CASE UNCHANGED vars
  BY <1>36, <1>0 DEF vars, callVars, restVars, taskVars, stopVars
<1> QED
  BY <1>1, <1>2, <1>3, <1>4, <1>5, <1>6, <1>7, <1>8, <1>9, <1>10, <1>11, <1>12, <1>13, <1>14,
     <1>15, <1>16, <1>17, <1>18, <1>19, <1>20, <1>21, <1>22, <1>23, <1>24, <1>25, <1>26,
     <1>27, <1>28, <1>29, <1>30, <1>31, <1>32, <1>33, <1>34, <1>35, <1>36
  DEF Next, ActivateStep, JsStep, WorkerStep, ShutdownStep, CallStep

\* RuntimeInv holds when newRuntime returns: nothing is requested or running.
LEMMA InvInit == Init => RuntimeInv
<1> SUFFICES ASSUME Init PROVE RuntimeInv
  OBVIOUS
<1> USE DEF Init, NoJob, None
<1>1. ShutdownInterruptPending
  BY DEF ShutdownInterruptPending
<1>2. QuitInv
  BY DEF QuitInv
<1>3. RequestInv
  BY DEF RequestInv, Waiting
<1>4. LateInv
  BY DEF LateInv, Executing
<1> QED
  BY <1>1, <1>2, <1>3, <1>4, TypeInit DEF RuntimeInv

\* The inductive invariant holds in every reachable state.
THEOREM InvCorrect == Spec => []RuntimeInv
BY InvInit, InvStep, PTL DEF Spec

\* The comment of prepareVM, for any number of callers, tasks and closers.
THEOREM ShutdownInterruptStays == Spec => []ShutdownInterruptPending
<1>1. RuntimeInv => ShutdownInterruptPending
  BY DEF RuntimeInv
<1> QED
  BY <1>1, InvCorrect, PTL

----------------------------------------------------------------------------
(***************************************************************************)
(* The runtime implements the abstract call service.                       *)
(***************************************************************************)

\* A new runtime is a new call service: no call is asked, nothing executes.
LEMMA PromiseInit == Init => Promise!Init
BY DEF Init, Promise!Init, Executing

\* A caller that enters call asks. The mapped status of the other callers
\* depends on their own pc and fresh only, and those do not change.
LEMMA AskStep ==
  ASSUME RuntimeInv, NEW c \in Callers, Begin(c), UNCHANGED <<worker, quit, closer>>
  PROVE  Promise!Ask(c)
<1> DEFINE st(p, f) == [d \in Callers |-> IF p[d] = "idle" THEN "idle"
                                          ELSE IF f[d] THEN "asked" ELSE "late"]
<1>1. st(pc, fresh)[c] = "idle"
  BY DEF Begin
<1>2. st(pc', fresh') = [st(pc, fresh) EXCEPT ![c] = IF quit THEN "late" ELSE "asked"]
  BY DEF Begin, RuntimeInv, TypeOK
<1>3. outcome' = [outcome EXCEPT ![c] = None]
  BY DEF Begin
<1>4. Executing' = Executing
  BY DEF Executing
<1> QED
  BY <1>1, <1>2, <1>3, <1>4 DEF Promise!Ask

\* A caller that returns from call is answered, and nobody else is.
LEMMA AnswerStep ==
  ASSUME RuntimeInv, NEW c \in Callers, NEW o \in Outcome, Return(c, o), pc[c] # "idle",
         o = "plugin" => fresh[c], UNCHANGED <<worker, quit, closer>>
  PROVE  Promise!Answer(c, o)
<1> DEFINE st(p, f) == [d \in Callers |-> IF p[d] = "idle" THEN "idle"
                                          ELSE IF f[d] THEN "asked" ELSE "late"]
<1>1. /\ st(pc, fresh)[c] # "idle"
      /\ o = "plugin" => st(pc, fresh)[c] = "asked"
  OBVIOUS
<1>2. st(pc', fresh') = [st(pc, fresh) EXCEPT ![c] = "idle"]
  BY DEF Return, RuntimeInv, TypeOK
<1>3. outcome' = [outcome EXCEPT ![c] = o]
  BY DEF Return
<1>4. Executing' = Executing
  BY DEF Executing
<1> QED
  BY <1>1, <1>2, <1>3, <1>4 DEF Promise!Answer, Promise!ByPlugin

\* The worker leaves its loop without having executed anything.
LEMMA ExitStep == WorkerQuit => Executing' = Executing
<1> SUFFICES ASSUME worker = "idle", worker' = "exited" PROVE Executing' = Executing
  BY DEF WorkerQuit
<1>1. Executing = FALSE
  BY DEF Executing
<1>2. Executing' = FALSE
  BY DEF Executing
<1> QED
  BY <1>1, <1>2

\* Every step of the runtime is a step of the call service or changes nothing
\* of it: the step that makes PluginRuntime implement PluginCalls.
LEMMA PromiseStep == RuntimeInv /\ [Next]_vars => [Promise!Next]_Promise!vars
<1> USE RuntimeAssumption
    DEF RuntimeInv, QuitInv, RequestInv, LateInv, Executing, Waiting, TypeOK, Job, NoJob,
        Outcome, None, callVars, restVars, taskVars, stopVars, Promise!vars, Promise!Next,
        Promise!Ask, Promise!Answer, Promise!Start, Promise!Stop, Promise!Close,
        Promise!Release, Promise!ByPlugin
<1> SUFFICES ASSUME RuntimeInv, [Next]_vars PROVE [Promise!Next]_Promise!vars
  OBVIOUS
<1>1. CASE ActivateOk
  BY <1>1 DEF ActivateOk
<1>2. CASE ActivateExpires
  BY <1>2 DEF ActivateExpires
<1>3. CASE ActivateFails
  BY <1>3 DEF ActivateFails, StopTasks
<1>4. CASE JsReturns
  BY <1>4 DEF JsReturns, Proceed, Finish, Send
<1>5. CASE JsPromises
  BY <1>5 DEF JsPromises
<1>6. CASE JsThrows
  BY <1>6 DEF JsThrows, Finish, Send
<1>7. CASE PromiseSettles
  BY <1>7 DEF PromiseSettles, Proceed, Finish, Send
<1>8. CASE WorkerQuit
  BY <1>8, ExitStep DEF WorkerQuit
<1>9. CASE PrepareVM
  BY <1>9 DEF PrepareVM, Send
<1>10. CASE Gate
  BY <1>10 DEF Gate, Finish, Send
<1>11. CASE JsInterrupted
  BY <1>11 DEF JsInterrupted, Finish, Send
<1>12. CASE TickInterrupted
  BY <1>12 DEF TickInterrupted
<1>13. CASE AwaitDeadline
  BY <1>13 DEF AwaitDeadline, Finish, Send
<1>14. CASE ShutdownStopsTasks
  BY <1>14 DEF ShutdownStopsTasks, StopTasks
<1>15. CASE ShutdownCloses
  BY <1>15 DEF ShutdownCloses
<1>16. ASSUME NEW k \in Closers, ShutdownLeavesOnce(k)
      PROVE  [Promise!Next]_Promise!vars
  BY <1>16 DEF ShutdownLeavesOnce
<1>17. ASSUME NEW k \in Closers, ShutdownReturns(k)
      PROVE  [Promise!Next]_Promise!vars
  <2>1. Promise!Release(k)
    BY <1>17 DEF ShutdownReturns
  <2> QED
    BY <2>1
<1>18. ASSUME NEW c \in Hosts, HostCall(c)
      PROVE  [Promise!Next]_Promise!vars
  <2>1. c \in Callers
    BY DEF Callers
  <2>2. Promise!Ask(c)
    BY <1>18, <2>1, AskStep DEF HostCall
  <2> QED
    BY <2>1, <2>2
<1>19. ASSUME NEW c \in Hosts, Cancel(c)
      PROVE  [Promise!Next]_Promise!vars
  BY <1>19 DEF Cancel
<1>20. ASSUME NEW c \in Callers, Dispatch(c)
      PROVE  [Promise!Next]_Promise!vars
  BY <1>20 DEF Dispatch
<1>21. ASSUME NEW c \in Callers, DispatchQuit(c)
      PROVE  [Promise!Next]_Promise!vars
  <2>1. Promise!Answer(c, "shutdown")
    BY <1>21, AnswerStep DEF DispatchQuit
  <2> QED
    BY <2>1
<1>22. ASSUME NEW c \in Callers, DispatchDone(c)
      PROVE  [Promise!Next]_Promise!vars
  <2>1. Promise!Answer(c, "timeout")
    BY <1>22, AnswerStep DEF DispatchDone
  <2> QED
    BY <2>1
<1>23. ASSUME NEW c \in Callers, TakeResult(c)
      PROVE  [Promise!Next]_Promise!vars
  <2>1. inbox[c] \in Outcome
    BY <1>23 DEF TakeResult
  <2>2. Promise!Answer(c, inbox[c])
    BY <1>23, <2>1, AnswerStep DEF TakeResult
  <2> QED
    BY <2>1, <2>2
<1>24. ASSUME NEW c \in Callers, WaitQuit(c)
      PROVE  [Promise!Next]_Promise!vars
  <2>1. Promise!Answer(c, "shutdown")
    BY <1>24, AnswerStep DEF WaitQuit
  <2> QED
    BY <2>1
<1>25. ASSUME NEW c \in Callers, ChooseTimer(c)
      PROVE  [Promise!Next]_Promise!vars
  BY <1>25 DEF ChooseTimer
<1>26. ASSUME NEW c \in Callers, GiveUp(c)
      PROVE  [Promise!Next]_Promise!vars
  <2>1. Promise!Answer(c, "timeout")
    BY <1>26, AnswerStep DEF GiveUp
  <2> QED
    BY <2>1
<1>27. ASSUME NEW c \in Callers, Expire(c)
      PROVE  [Promise!Next]_Promise!vars
  BY <1>27 DEF Expire
<1>28. CASE ExpireJob
  BY <1>28 DEF ExpireJob
<1>29. CASE ResetStrikes
  BY <1>29 DEF ResetStrikes
<1>30. CASE SetBackground
  BY <1>30 DEF SetBackground
<1>31. ASSUME NEW t \in Timers, Every(t)
      PROVE  [Promise!Next]_Promise!vars
  BY <1>31 DEF Every
<1>32. ASSUME NEW t \in Timers, CancelTask(t)
      PROVE  [Promise!Next]_Promise!vars
  BY <1>32 DEF CancelTask
<1>33. ASSUME NEW t \in Timers, TimerTick(t)
      PROVE  [Promise!Next]_Promise!vars
  <2>1. t \in Callers
    BY DEF Callers
  <2>2. Promise!Ask(t)
    BY <1>33, <2>1, AskStep DEF TimerTick
  <2> QED
    BY <2>1, <2>2
<1>34. ASSUME NEW t \in Timers, TimerExit(t)
      PROVE  [Promise!Next]_Promise!vars
  BY <1>34 DEF TimerExit
<1>35. ASSUME NEW k \in Closers, ShutdownCalled(k)
      PROVE  [Promise!Next]_Promise!vars
  BY <1>35 DEF ShutdownCalled
<1>36. CASE UNCHANGED vars
  BY <1>36 DEF vars, callVars, restVars, taskVars, stopVars
<1> QED
  BY <1>1, <1>2, <1>3, <1>4, <1>5, <1>6, <1>7, <1>8, <1>9, <1>10, <1>11, <1>12, <1>13, <1>14,
     <1>15, <1>16, <1>17, <1>18, <1>19, <1>20, <1>21, <1>22, <1>23, <1>24, <1>25, <1>26,
     <1>27, <1>28, <1>29, <1>30, <1>31, <1>32, <1>33, <1>34, <1>35, <1>36
  DEF Next, ActivateStep, JsStep, WorkerStep, ShutdownStep, CallStep

\* Calls of the plugin runtime keep the promise of PluginCalls.
THEOREM Refinement == Spec => PromiseKept
BY PromiseInit, PromiseStep, InvCorrect, PTL DEF Spec, PromiseKept, Promise!Spec

=============================================================================
