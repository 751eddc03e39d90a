--------------------------- MODULE PluginRuntime ---------------------------
(***************************************************************************)
(* One sandboxed plugin (internal/plugin/runtime.go and the background     *)
(* timers of capabilities.go): a goja VM owned by one worker goroutine,    *)
(* host goroutines that dispatch calls to it under a deadline, timer       *)
(* goroutines that do the same on every tick, and shutdown.                *)
(*                                                                         *)
(* Time is a fact a deadline may acquire at any moment (Expire); the VM's  *)
(* interrupt is a latched flag that running JavaScript may or may not      *)
(* consume when it observes it.                                            *)
(***************************************************************************)
EXTENDS Naturals, FiniteSets

CONSTANTS
  Hosts,      \* goroutines of the host that issue calls (search, action, view)
  Viewers,    \* those of them whose requests may run two JavaScript functions
  Timers,     \* identities a background.every task may take
  Closers,    \* goroutines that call Shutdown (reload, application exit)
  NoOne,      \* "nobody waits for this job any more"
  TaskLimit,  \* at most this many registered tasks (16 in the code)
  StrikeCap   \* strikes are only compared with disableStrikes: they saturate

Callers == Hosts \cup Timers

ASSUME RuntimeAssumption ==
  /\ NoOne \notin Callers
  /\ Hosts \cap Timers = {}
  /\ Viewers \subseteq Hosts
  /\ TaskLimit \in Nat
  /\ StrikeCap \in Nat

None == "none"

\* "plugin": the value, the exception or the rejected argument fn came back with.
Outcome == {"plugin", "timeout", "shutdown"}

VARIABLES
  pc,        \* where each caller is inside call
  due,       \* has the caller's own deadline passed
  gone,      \* was the caller's context cancelled
  fresh,     \* history: did the caller's call begin before quit was closed
  inbox,     \* req.res, the one-slot channel of the caller's current request
  outcome,   \* what the caller's last call returned, none while it runs
  strikes,   \* consecutiveTimeouts
  worker,    \* where the worker goroutine is
  job,       \* the request the worker executes
  interrupt, \* the VM's latched interrupt flag
  task,      \* the goroutine and registration of each background task
  enabled,   \* backgroundEnabled
  boot,      \* has the budget of module evaluation plus activate run out
  once,      \* progress of the sync.Once body of Shutdown
  quit,      \* is the quit channel closed
  closer     \* where each goroutine is inside Shutdown

callVars == <<pc, due, gone, fresh, inbox, outcome, strikes>>
taskVars == <<task, enabled>>
stopVars == <<once, quit, closer>>
restVars == <<taskVars, boot, stopVars>>
vars == <<callVars, worker, job, interrupt, restVars>>

Job == [owner : Callers \cup {NoOne}, by : Callers \cup {NoOne},
        due : BOOLEAN, left : 0..1]

NoJob == [owner |-> NoOne, by |-> NoOne, due |-> FALSE, left |-> 0]

TypeOK ==
  /\ pc \in [Callers -> {"idle", "dispatch", "wait", "expiring", "cancelling"}]
  /\ due \in [Callers -> BOOLEAN]
  /\ gone \in [Callers -> BOOLEAN]
  /\ fresh \in [Callers -> BOOLEAN]
  /\ inbox \in [Callers -> Outcome \cup {None}]
  /\ outcome \in [Callers -> Outcome \cup {None}]
  /\ strikes \in 0..StrikeCap
  /\ worker \in {"activating", "idle", "ready", "gate", "js", "poll", "stuck",
                 "exited", "discarded"}
  /\ job \in Job
  /\ interrupt \in BOOLEAN
  /\ task \in [Timers -> {"off", "armed", "stopped", "ended"}]
  /\ enabled \in BOOLEAN
  /\ boot \in {"within", "expired"}
  /\ once \in {"free", "closing", "over"}
  /\ quit \in BOOLEAN
  /\ closer \in [Closers -> {"idle", "once", "wait", "returned"}]

Init ==
  /\ pc = [c \in Callers |-> "idle"]
  /\ due = [c \in Callers |-> FALSE]
  /\ gone = [c \in Callers |-> FALSE]
  /\ fresh = [c \in Callers |-> TRUE]
  /\ inbox = [c \in Callers |-> None]
  /\ outcome = [c \in Callers |-> None]
  /\ strikes = 0
  /\ worker = "activating"
  /\ job = NoJob
  /\ interrupt = FALSE
  /\ task = [t \in Timers |-> "off"]
  /\ enabled = FALSE
  /\ boot = "within"
  /\ once = "free"
  /\ quit = FALSE
  /\ closer = [k \in Closers |-> "idle"]

----------------------------------------------------------------------------
(* newRuntime: module evaluation and activate run on a helper goroutine    *)
(* under runBounded; the worker starts only when both succeed.             *)

Alive(t) == task[t] \in {"armed", "stopped"}

\* stopTasks: pause the timers, close every stop channel, empty the table.
StopTasks ==
  /\ enabled' = FALSE
  /\ task' = [t \in Timers |-> IF task[t] \in {"armed", "stopped"}
                                  THEN "stopped" ELSE "off"]

ActivateOk ==
  /\ worker = "activating" /\ boot = "within"
  /\ worker' = "idle"
  /\ UNCHANGED <<callVars, job, interrupt, restVars>>

ActivateExpires ==
  /\ worker = "activating" /\ boot = "within"
  /\ boot' = "expired"
  /\ interrupt' = TRUE
  /\ UNCHANGED <<callVars, worker, job, taskVars, stopVars>>

\* Failure, or (after the timeout) whatever the helper goroutine ends with.
\* boot = "expired" leaves no other way out than this one.
ActivateFails ==
  /\ worker = "activating"
  /\ worker' = "discarded"
  /\ StopTasks
  /\ UNCHANGED <<callVars, job, interrupt, boot, stopVars>>

----------------------------------------------------------------------------
(* call, as its caller sees it.                                            *)

Usable == worker \notin {"activating", "discarded"}

Begin(c) ==
  /\ pc[c] = "idle"
  /\ pc' = [pc EXCEPT ![c] = "dispatch"]
  /\ fresh' = [fresh EXCEPT ![c] = ~quit]
  /\ outcome' = [outcome EXCEPT ![c] = None]
  /\ UNCHANGED <<due, gone, inbox, strikes>>

\* RunAction, renderView.
HostCall(h) ==
  /\ Usable
  /\ Begin(h)
  /\ UNCHANGED <<worker, job, interrupt, restVars>>

\* Faulty Return: the late result is still delivered.
ReturnAttached(c, o) ==
  /\ pc' = [pc EXCEPT ![c] = "idle"]
  /\ due' = [due EXCEPT ![c] = FALSE]
  /\ gone' = [gone EXCEPT ![c] = FALSE]
  /\ fresh' = [fresh EXCEPT ![c] = TRUE]
  /\ outcome' = [outcome EXCEPT ![c] = o]
  /\ inbox' = [inbox EXCEPT ![c] = None]
  /\ UNCHANGED job

\* The call returns o and its timers and context are released; a late result
\* of its request reaches nobody.
Return(c, o) ==
  /\ pc' = [pc EXCEPT ![c] = "idle"]
  /\ due' = [due EXCEPT ![c] = FALSE]
  /\ gone' = [gone EXCEPT ![c] = FALSE]
  /\ fresh' = [fresh EXCEPT ![c] = TRUE]
  /\ outcome' = [outcome EXCEPT ![c] = o]
  /\ inbox' = [inbox EXCEPT ![c] = None]
  /\ job' = IF job.by = c THEN [job EXCEPT !.by = NoOne] ELSE job

\* r.reqs <- req meets the worker's receive; left = 1 for onViewEvent, which
\* runs renderView as a second JavaScript call.
Dispatch(c) ==
  /\ pc[c] = "dispatch" /\ worker = "idle"
  /\ pc' = [pc EXCEPT ![c] = "wait"]
  /\ worker' = "ready"
  /\ \E n \in IF c \in Viewers THEN 0..1 ELSE {0} :
       job' = [owner |-> c, by |-> c, due |-> due[c], left |-> n]
  /\ UNCHANGED <<due, gone, fresh, inbox, outcome, strikes, interrupt, restVars>>

DispatchQuit(c) ==
  /\ pc[c] = "dispatch" /\ quit
  /\ Return(c, "shutdown")
  /\ UNCHANGED <<strikes, worker, interrupt, restVars>>

\* dispatchCtx is done: the deadline passed or the context was cancelled.
DispatchDone(c) ==
  /\ pc[c] = "dispatch" /\ (due[c] \/ gone[c])
  /\ Return(c, "timeout")
  /\ UNCHANGED <<strikes, worker, interrupt, restVars>>

TakeResult(c) ==
  /\ pc[c] = "wait" /\ inbox[c] # None
  /\ strikes' = 0
  /\ Return(c, inbox[c])
  /\ UNCHANGED <<worker, interrupt, restVars>>

WaitQuit(c) ==
  /\ pc[c] = "wait" /\ quit
  /\ Return(c, "shutdown")
  /\ UNCHANGED <<strikes, worker, interrupt, restVars>>

\* Faulty ChooseTimer: the select has no timer case.
ChooseDone(c) ==
  /\ pc[c] = "wait" /\ gone[c]
  /\ pc' = [pc EXCEPT ![c] = "cancelling"]
  /\ UNCHANGED <<due, gone, fresh, inbox, outcome, strikes, worker, job,
                 interrupt, restVars>>

\* The select took timer.C (or ctx.Done) although a result may be arriving:
\* the VM is interrupted only in the next step.
ChooseTimer(c) ==
  /\ pc[c] = "wait"
  /\ \/ due[c]  /\ pc' = [pc EXCEPT ![c] = "expiring"]
     \/ gone[c] /\ pc' = [pc EXCEPT ![c] = "cancelling"]
  /\ UNCHANGED <<due, gone, fresh, inbox, outcome, strikes, worker, job,
                 interrupt, restVars>>

GiveUp(c) ==
  /\ \/ /\ pc[c] = "expiring"
        /\ strikes' = IF strikes < StrikeCap THEN strikes + 1 ELSE strikes
     \/ pc[c] = "cancelling" /\ UNCHANGED strikes
  /\ interrupt' = TRUE
  /\ Return(c, "timeout")
  /\ UNCHANGED <<worker, restVars>>

\* The wall clock reaches the deadline of a call in progress.
Expire(c) ==
  /\ pc[c] \in {"dispatch", "wait"} /\ ~due[c]
  /\ due' = [due EXCEPT ![c] = TRUE]
  /\ job' = IF job.by = c THEN [job EXCEPT !.due = TRUE] ELSE job
  /\ UNCHANGED <<pc, gone, fresh, inbox, outcome, strikes, worker, interrupt, restVars>>

\* ... or that of a job whose caller has left.
ExpireJob ==
  /\ worker \in {"ready", "gate", "js", "poll", "stuck"}
  /\ job.by = NoOne /\ ~job.due
  /\ job' = [job EXCEPT !.due = TRUE]
  /\ UNCHANGED <<callVars, worker, interrupt, restVars>>

\* Timers pass context.Background(): only a host call can be cancelled.
Cancel(h) ==
  /\ pc[h] \in {"dispatch", "wait"} /\ ~gone[h]
  /\ gone' = [gone EXCEPT ![h] = TRUE]
  /\ UNCHANGED <<pc, due, fresh, inbox, outcome, strikes, worker, job,
                 interrupt, restVars>>

\* SetEnabled(true) calls resetStrikes.
ResetStrikes ==
  /\ Usable /\ strikes # 0
  /\ strikes' = 0
  /\ UNCHANGED <<pc, due, gone, fresh, inbox, outcome, worker, job, interrupt, restVars>>

----------------------------------------------------------------------------
(* The worker goroutine.                                                   *)

\* req.res <- runtimeRes: dropped when nobody waits for it.
Send(o) ==
  /\ inbox' = IF job.by = NoOne THEN inbox ELSE [inbox EXCEPT ![job.by] = o]
  /\ job' = NoJob
  /\ UNCHANGED <<pc, due, gone, fresh, outcome, strikes>>

Finish(o) ==
  /\ Send(o)
  /\ worker' = "idle"

WorkerQuit ==
  /\ worker = "idle" /\ quit
  /\ worker' = "exited"
  /\ UNCHANGED <<callVars, job, interrupt, restVars>>

\* Faulty PrepareVM: the interrupt is cleared without looking at quit.
PrepareUnchecked ==
  /\ worker = "ready"
  /\ interrupt' = FALSE
  /\ worker' = IF job.owner \in Timers THEN "gate" ELSE "js"
  /\ UNCHANGED <<callVars, job, restVars>>

\* prepareVM holds quitMu: the check of quit and ClearInterrupt are one step.
PrepareVM ==
  /\ worker = "ready"
  /\ \/ /\ quit
        /\ Send("shutdown")
        /\ worker' = "exited"
        /\ UNCHANGED interrupt
     \/ /\ ~quit
        /\ interrupt' = FALSE
        /\ worker' = IF job.owner \in Timers THEN "gate" ELSE "js"
        /\ UNCHANGED <<callVars, job>>
  /\ UNCHANGED <<restVars>>

\* A timer's request looks at its stop channel and at backgroundEnabled
\* again, now on the worker, before it enters the callback.
Gate ==
  /\ worker = "gate"
  /\ IF task[job.owner] = "armed" /\ enabled
       THEN worker' = "js" /\ UNCHANGED <<callVars, job>>
       ELSE Finish("plugin")
  /\ UNCHANGED <<interrupt, restVars>>

\* Faulty Proceed: the second call of a request is not the last one.
ProceedForever ==
  IF job.left = 0 /\ job.owner \notin Viewers
    THEN Finish("plugin")
    ELSE job' = [job EXCEPT !.left = @ - 1] /\ worker' = "js" /\ UNCHANGED callVars

\* One JavaScript call of the request is done.
Proceed ==
  IF job.left = 0
    THEN Finish("plugin")
    ELSE /\ job' = [job EXCEPT !.left = 0]
         /\ worker' = "js"
         /\ UNCHANGED callVars

JsReturns ==
  /\ worker = "js"
  /\ Proceed
  /\ UNCHANGED <<interrupt, restVars>>

JsPromises ==
  /\ worker = "js"
  /\ worker' = "poll"
  /\ UNCHANGED <<callVars, job, interrupt, restVars>>

JsThrows ==
  /\ worker \in {"js", "poll"}  \* an exception, or a rejected promise
  /\ Finish("plugin")
  /\ UNCHANGED <<interrupt, restVars>>

JsInterrupted ==
  /\ worker = "js" /\ interrupt
  /\ Finish("timeout")
  /\ interrupt' \in BOOLEAN
  /\ UNCHANGED <<restVars>>

PromiseSettles ==
  /\ worker = "poll"
  /\ Proceed
  /\ UNCHANGED <<interrupt, restVars>>

\* await discards the error of its tick script: the interrupt is swallowed and
\* the promise, whose jobs are gone, stays pending until the deadline.
TickInterrupted ==
  /\ worker = "poll" /\ interrupt
  /\ worker' = "stuck"
  /\ interrupt' \in BOOLEAN
  /\ UNCHANGED <<callVars, job, restVars>>

AwaitDeadline ==
  /\ worker \in {"poll", "stuck"} /\ job.due
  /\ Finish("timeout")
  /\ UNCHANGED <<interrupt, restVars>>

----------------------------------------------------------------------------
(* Background tasks: registered and cancelled by JavaScript, run by one    *)
(* goroutine each.                                                         *)

Registered == {t \in Timers : task[t] \in {"armed", "ended"}}

\* ... which also runs in the tick script, as jobs of a pending promise.
RunsJs == worker \in {"activating", "js", "poll"}

Every(t) ==
  /\ RunsJs /\ task[t] = "off" /\ pc[t] = "idle"
  /\ Cardinality(Registered) < TaskLimit
  /\ task' = [task EXCEPT ![t] = "armed"]
  /\ UNCHANGED <<callVars, worker, job, interrupt, enabled, boot, stopVars>>

CancelTask(t) ==
  /\ RunsJs /\ t \in Registered
  /\ task' = [task EXCEPT ![t] = IF @ = "armed" THEN "stopped" ELSE "off"]
  /\ UNCHANGED <<callVars, worker, job, interrupt, enabled, boot, stopVars>>

TimerTick(t) ==
  /\ Alive(t) /\ enabled
  /\ Begin(t)
  /\ UNCHANGED <<worker, job, interrupt, restVars>>

\* Faulty TimerExit: the goroutine does not watch quit.
TimerExitStop(t) ==
  /\ pc[t] = "idle" /\ task[t] = "stopped"
  /\ task' = [task EXCEPT ![t] = "off"]
  /\ UNCHANGED <<callVars, worker, job, interrupt, enabled, boot, stopVars>>

\* The goroutine sees stop or quit in its select and returns.
TimerExit(t) ==
  /\ pc[t] = "idle" /\ Alive(t)
  /\ \/ task[t] = "stopped" /\ task' = [task EXCEPT ![t] = "off"]
     \/ task[t] = "armed" /\ quit /\ task' = [task EXCEPT ![t] = "ended"]
  /\ UNCHANGED <<callVars, worker, job, interrupt, enabled, boot, stopVars>>

\* LoadAll, SetEnabled and disable store the flag of a loaded runtime.
SetBackground ==
  /\ Usable
  /\ enabled' = ~enabled
  /\ UNCHANGED <<callVars, worker, job, interrupt, task, boot, stopVars>>

----------------------------------------------------------------------------
(* Shutdown.                                                               *)

ShutdownCalled(k) ==
  /\ closer[k] = "idle" /\ Usable
  /\ closer' = [closer EXCEPT ![k] = "once"]
  /\ UNCHANGED <<callVars, worker, job, interrupt, taskVars, boot, once, quit>>

ShutdownStopsTasks ==
  /\ once = "free" /\ \E k \in Closers : closer[k] = "once"
  /\ once' = "closing"
  /\ StopTasks
  /\ UNCHANGED <<callVars, worker, job, interrupt, boot, quit, closer>>

\* Faulty ShutdownCloses: running JavaScript is not interrupted.
ShutdownClosesQuietly ==
  /\ once = "closing"
  /\ once' = "over"
  /\ quit' = TRUE
  /\ UNCHANGED <<callVars, worker, job, interrupt, taskVars, boot, closer>>

\* quit is closed and the VM interrupted while quitMu is held.
ShutdownCloses ==
  /\ once = "closing"
  /\ once' = "over"
  /\ quit' = TRUE
  /\ interrupt' = TRUE
  /\ UNCHANGED <<callVars, worker, job, taskVars, boot, closer>>

\* The first caller leaves Do; later callers, blocked in it, do so too.
ShutdownLeavesOnce(k) ==
  /\ closer[k] = "once" /\ once = "over"
  /\ closer' = [closer EXCEPT ![k] = "wait"]
  /\ UNCHANGED <<callVars, worker, job, interrupt, taskVars, boot, once, quit>>

\* Faulty ShutdownReturns: it does not wait for the worker.
ShutdownReturnsEarly(k) ==
  /\ closer[k] = "wait"
  /\ closer' = [closer EXCEPT ![k] = "returned"]
  /\ UNCHANGED <<callVars, worker, job, interrupt, taskVars, boot, once, quit>>

ShutdownReturns(k) ==
  /\ closer[k] = "wait" /\ worker = "exited"
  /\ closer' = [closer EXCEPT ![k] = "returned"]
  /\ UNCHANGED <<callVars, worker, job, interrupt, taskVars, boot, once, quit>>

----------------------------------------------------------------------------
CallStep(c) ==
  \/ DispatchQuit(c) \/ DispatchDone(c)
  \/ TakeResult(c) \/ WaitQuit(c) \/ ChooseTimer(c) \/ GiveUp(c)

ActivateStep == ActivateOk \/ ActivateExpires \/ ActivateFails

JsStep == JsReturns \/ JsPromises \/ JsThrows \/ PromiseSettles

WorkerStep ==
  WorkerQuit \/ PrepareVM \/ Gate \/ JsInterrupted \/ TickInterrupted \/ AwaitDeadline

ShutdownStep == 
  \/ ShutdownStopsTasks \/ ShutdownCloses
  \/ \E k \in Closers : ShutdownLeavesOnce(k) \/ ShutdownReturns(k)

Next ==
  \/ ActivateStep \/ JsStep \/ WorkerStep \/ ShutdownStep
  \/ \E h \in Hosts : HostCall(h) \/ Cancel(h)
  \/ \E c \in Callers : Dispatch(c) \/ CallStep(c) \/ Expire(c)
  \/ ExpireJob \/ ResetStrikes \/ SetBackground
  \/ \E t \in Timers : Every(t) \/ CancelTask(t) \/ TimerTick(t) \/ TimerExit(t)
  \/ \E k \in Closers : ShutdownCalled(k)

(***************************************************************************)
(* Goroutines that can run do run, clocks advance, running JavaScript      *)
(* observes a pending interrupt; nothing makes JavaScript end by itself.   *)
(* TimerExit competes with the ticker in one select, which chooses at      *)
(* random: strong fairness.                                                *)
(***************************************************************************)
Fairness ==
  /\ WF_vars(ActivateExpires) /\ WF_vars(boot = "expired" /\ ActivateFails)
  /\ WF_vars(WorkerStep) /\ WF_vars(ExpireJob)
  /\ WF_vars(ShutdownStopsTasks) /\ WF_vars(ShutdownCloses)
  /\ \A c \in Callers : WF_vars(CallStep(c)) /\ WF_vars(Expire(c))
  /\ \A t \in Timers : SF_vars(TimerExit(t))
  /\ \A k \in Closers : WF_vars(ShutdownLeavesOnce(k)) /\ WF_vars(ShutdownReturns(k))

Spec == Init /\ [][Next]_vars
FairSpec == Spec /\ Fairness

----------------------------------------------------------------------------
(* Safety.                                                                 *)

\* While JavaScript can run after quit was closed, the interrupt of Shutdown
\* is still pending: prepareVM's ClearInterrupt never erases it (quitMu).
ShutdownInterruptPending ==
  quit /\ worker \in {"gate", "js", "poll"} => interrupt

\* The worker has prepared the VM for a request and is not done with it.
Executing == worker \in {"gate", "js", "poll", "stuck"}

\* The runtime implements the abstract service: one request at a time, an
\* answer per call, no plugin answer for a call made after quit was closed,
\* nothing running once any Shutdown has returned.
Promise == INSTANCE PluginCalls WITH
  NoAnswer  <- None,
  status    <- [c \in Callers |-> IF pc[c] = "idle" THEN "idle"
                               ELSE IF fresh[c] THEN "asked" ELSE "late"],
  answer    <- outcome,
  executing <- Executing,
  closed    <- quit,
  released  <- {k \in Closers : closer[k] = "returned"}

PromiseKept == Promise!Spec

----------------------------------------------------------------------------
(* The inductive invariant behind them.                                    *)

Waiting(c) == pc[c] \in {"wait", "expiring", "cancelling"}

\* quit is closed by the body of Shutdown's Once and by nothing else; only
\* then does the worker exit and a Shutdown caller pass the Once.
QuitInv ==
  /\ quit = (once = "over")
  /\ worker = "exited" => quit
  /\ \A k \in Closers : closer[k] \in {"wait", "returned"} => quit
  /\ \A k \in Closers : closer[k] = "returned" => worker = "exited"

\* A request belongs to the caller that waits for it, and to one slot.
RequestInv ==
  /\ \A c \in Callers : inbox[c] # None => Waiting(c)
  /\ job.by # NoOne => Waiting(job.by) /\ inbox[job.by] = None
  /\ worker \notin {"ready", "gate", "js", "poll", "stuck"} => job.by = NoOne

\* A call begun after quit was closed gets no further than prepareVM.
LateInv ==
  /\ \A c \in Callers : ~fresh[c] => quit /\ pc[c] # "idle"
  /\ \A c \in Callers : inbox[c] = "plugin" => fresh[c]
  /\ \A c \in Callers : Executing /\ job.by = c => fresh[c]

RuntimeInv ==
  /\ TypeOK
  /\ ShutdownInterruptPending
  /\ QuitInv
  /\ RequestInv
  /\ LateInv

----------------------------------------------------------------------------
(* Liveness.                                                               *)

\* No caller of the runtime is ever stuck: not behind JavaScript that does
\* not end, not behind another call, not behind Shutdown.
EveryCallReturns == \A c \in Callers : pc[c] # "idle" ~> pc[c] = "idle"

\* Shutdown returns even while JavaScript loops or awaits a promise.
EveryShutdownReturns ==
  \A k \in Closers : closer[k] = "once" ~> closer[k] = "returned"

\* Shutdown, or an activate that fails, ends every timer goroutine, those
\* included that JavaScript registers while the tasks are being stopped.
TimersEnd == 
  quit \/ worker = "discarded" ~> \A t \in Timers : ~Alive(t)

----------------------------------------------------------------------------
(* A statement of a comment that the code contradicts.                     *)

\* "expiry interrupts the VM": JavaScript whose deadline passed stops running.
ExpiredJsStops == (worker = "js" /\ job.due) ~> worker # "js"

=============================================================================
