---------------------------- MODULE WorkerGroup ----------------------------
(***************************************************************************)
(* The worker threads of one runtime: MediaGraphWorker, its MediaNodeWakeup *)
(* (POSIX build), the failure recorder and supervisor they share,           *)
(* MediaGraphThreadedExecutor, and the calls MediaGraphRuntimeLifecycle-    *)
(* Executor makes on it.                                                    *)
(*                                                                          *)
(* Worker w runs node w; 1..N is the executor's vector order.  A function   *)
(* that walks that vector (requestStop, abort, the start and join loops) is *)
(* a program: the sequence of its shared-memory steps, in program order.    *)
(* job[a] is what actor a still has to execute: the controller (0) runs the *)
(* lifecycle calls, a worker runs the supervisor's callback.                *)
(***************************************************************************)
EXTENDS Integers, Sequences, FiniteSets

CONSTANTS
    N,       \* number of workers
    Waits    \* the ways the nodes of the graph wait

ASSUME NAssumption == N \in Nat \ {0}

\* A wait for input, for input or a deadline (InputOrDeadline), for a deadline
\* alone (DeadlineOrCancellation).
ASSUME WaitsAssumption == Waits \subseteq {"waitInput", "waitEither", "waitDeadline"}

VARIABLES
    pc,           \* where worker w's thread is; "new" before start()
    stopRequested, aborted,   \* MediaGraphWorker's atomics
    interrupted,  \* MediaNodeWakeup::m_interrupted
    changed,      \* m_sequence differs from the sequence the worker observed
    nodeInterrupted,  \* MediaRuntimeNode::interrupt reached the node
    err,          \* the error the worker is about to record
    errors,       \* MediaGraphWorkerMetrics::errors
    primary,      \* MediaGraphWorkerFailureRecorder::m_primaryFailure
    notified,     \* MediaGraphWorkerFailureSupervisor::m_notified
    job,          \* the steps each actor has left
    withdrawn,    \* MediaGraphPayloadCreditState::cancelled
    channels,     \* "open", "closed" or "aborted"
    executor, runtime, scheduler,  \* the three m_state members
    call,         \* the lifecycle call the controller is in
    result        \* what the last lifecycle call returned

thread == <<pc, stopRequested, aborted, interrupted, changed,
            nodeInterrupted, err, errors>>
failure == <<primary, notified>>
states == <<executor, runtime, scheduler, call, result>>
vars == <<thread, failure, job, withdrawn, channels, states>>

Workers == 1..N
Controller == 0
Actors == 0..N

None == [worker |-> 0, error |-> "none"]

\* "io": a failure of the node itself.  "refused": payload admission withdrawn.
\* "interrupt": the node or its channels were interrupted, closed or aborted.
\* "wakeup": a wait interrupted outside its coordinated stop.
Errors == {"io", "refused", "interrupt", "wakeup"}
Cancelled == {"refused", "interrupt", "wakeup"}   \* ErrorCode::Cancelled

Stopping(w) == stopRequested[w] \/ aborted[w]

-----------------------------------------------------------------------------
(* Programs: the steps of the functions that walk the workers. *)

Step(op, w) == [op |-> op, w |-> w]

ForEach(op) == [w \in Workers |-> Step(op, w)]

\* Mutant: a worker is woken before it is marked.
RequestStop_WakeFirst ==
    [k \in 1..2 * N |-> Step(IF k % 2 = 1 THEN "wake" ELSE "mark", (k + 1) \div 2)]
    \o ForEach("interrupt") \o <<Step("wakeAll", 0)>>

\* Each worker's requestStop() (flag, then wakeup), each node's interrupt(),
\* then context.interruptNodeWakeups().
RequestStop ==
    [k \in 1..2 * N |-> Step(IF k % 2 = 1 THEN "mark" ELSE "wake", (k + 1) \div 2)]
    \o ForEach("interrupt") \o <<Step("wakeAll", 0)>>

\* Mutant: workers are marked and not interrupted.
CoordinatedStop_NoInterrupt == SelectSeq(RequestStop, LAMBDA s : s.op = "mark")

\* The callback the executor arms: withdraw payload admission, then stop.
CoordinatedStop == <<Step("withdraw", 0)>> \o RequestStop

\* Each worker's abort().
AbortWorkers ==
    [k \in 1..3 * N |->
        Step(CASE k % 3 = 1 -> "markAborted" [] k % 3 = 2 -> "wake"
               [] OTHER -> "interrupt", (k + 2) \div 3)]

\* Mutant: the nodes are torn down without the joins.
AbortExecutor_NoJoin ==
    AbortWorkers \o <<Step("abortChannels", 0), Step("teardown", 0)>>

\* Then abortChannels, the joins and the teardown.
AbortExecutor ==
    AbortWorkers \o <<Step("abortChannels", 0)>> \o ForEach("join")
    \o <<Step("teardown", 0)>>

\* Mutant: the result is harvested without the joins.
StopExecutor_HarvestFirst ==
    <<Step("withdraw", 0), Step("stopping", 0)>> \o RequestStop
    \o <<Step("closeChannels", 0), Step("harvest", 0)>>

\* Lifecycle stop(): payload admission is withdrawn before the executor's
\* stop() marks the workers.
StopExecutor ==
    <<Step("withdraw", 0), Step("stopping", 0)>> \o RequestStop
    \o <<Step("closeChannels", 0)>> \o ForEach("join") \o <<Step("harvest", 0)>>

StartExecutor == ForEach("launch") \o <<Step("started", 0)>>

Init ==
    /\ pc = [w \in Workers |-> "new"]
    /\ stopRequested = [w \in Workers |-> FALSE]
    /\ aborted = [w \in Workers |-> FALSE]
    /\ interrupted = [w \in Workers |-> FALSE]
    /\ changed = [w \in Workers |-> FALSE]
    /\ nodeInterrupted = [w \in Workers |-> FALSE]
    /\ err = [w \in Workers |-> "none"]
    /\ errors = [w \in Workers |-> 0]
    /\ primary = None
    /\ notified = FALSE
    /\ job = [a \in Actors |-> <<>>]
    /\ withdrawn = FALSE
    /\ channels = "open"
    /\ executor = "Idle" /\ runtime = "Compiled" /\ scheduler = "Idle"
    /\ call = "none" /\ result = "none"

-----------------------------------------------------------------------------
(* Steps of a program.  Does(a, op, w) takes the next step of actor a. *)

Does(a, op, w) ==
    /\ job[a] # <<>>
    /\ Head(job[a]) = Step(op, w)
    /\ job' = [job EXCEPT ![a] = Tail(@)]

Mark(a, w) ==
    /\ Does(a, "mark", w)
    /\ stopRequested' = [stopRequested EXCEPT ![w] = TRUE]
    /\ UNCHANGED <<pc, aborted, interrupted, changed,
                   nodeInterrupted, err, errors, failure, withdrawn, channels,
                   states>>

MarkAborted(a, w) ==
    /\ Does(a, "markAborted", w)
    /\ stopRequested' = [stopRequested EXCEPT ![w] = TRUE]
    /\ aborted' = [aborted EXCEPT ![w] = TRUE]
    /\ UNCHANGED <<pc, interrupted, changed, nodeInterrupted, err,
                   errors, failure, withdrawn, channels, states>>

\* MediaNodeWakeup::interrupt, of one worker and of every node of the context.
Wake(a, w) ==
    /\ Does(a, "wake", w)
    /\ interrupted' = [interrupted EXCEPT ![w] = TRUE]
    /\ changed' = [changed EXCEPT ![w] = TRUE]
    /\ UNCHANGED <<pc, stopRequested, aborted, nodeInterrupted, err,
                   errors, failure, withdrawn, channels, states>>

WakeAll(a) ==
    /\ Does(a, "wakeAll", 0)
    /\ interrupted' = [w \in Workers |-> TRUE]
    /\ changed' = [w \in Workers |-> TRUE]
    /\ UNCHANGED <<pc, stopRequested, aborted, nodeInterrupted, err,
                   errors, failure, withdrawn, channels, states>>

Interrupt(a, w) ==
    /\ Does(a, "interrupt", w)
    /\ nodeInterrupted' = [nodeInterrupted EXCEPT ![w] = TRUE]
    /\ UNCHANGED <<pc, stopRequested, aborted, interrupted, changed,
                   err, errors, failure, withdrawn, channels, states>>

\* cancelSessionPayloadWaiters: every later reservation is refused, and the
\* producers that wait for credit are notified.
Withdraw(a) ==
    /\ Does(a, "withdraw", 0)
    /\ withdrawn' = TRUE
    /\ \E W \in SUBSET Workers :
          changed' = [w \in Workers |-> changed[w] \/ w \in W]
    /\ UNCHANGED <<pc, stopRequested, aborted, interrupted,
                   nodeInterrupted, err, errors, failure, channels, states>>

\* closeChannels and abortChannels also notify the nodes at both ends.
ShutChannels(op, state) ==
    /\ Does(Controller, op, 0)
    /\ channels' = state
    /\ changed' = [w \in Workers |-> TRUE]
    /\ UNCHANGED <<pc, stopRequested, aborted, interrupted,
                   nodeInterrupted, err, errors, failure, withdrawn, states>>

CloseChannels == ShutChannels("closeChannels", "closed")

AbortChannels == ShutChannels("abortChannels", "aborted")

Join(w) ==
    /\ pc[w] \in {"new", "exited"}
    /\ Does(Controller, "join", w)
    /\ UNCHANGED <<thread, failure, withdrawn, channels, states>>

-----------------------------------------------------------------------------
(* Lifecycle calls, made one at a time by the controller. *)

\* startThreaded(): scheduler.start, every worker built, the supervisor armed.
StartThreaded ==
    /\ runtime = "Compiled" /\ call = "none"
    /\ executor' = "Starting" /\ scheduler' = "Running" /\ call' = "start"
    /\ job' = [job EXCEPT ![Controller] = StartExecutor]
    /\ UNCHANGED <<thread, failure, withdrawn, channels, runtime, result>>

\* scheduler.start fails: the executor is Idle again, the runtime aborts.
StartRefused ==
    /\ runtime = "Compiled" /\ call = "none"
    /\ withdrawn' = TRUE /\ channels' = "aborted"
    /\ scheduler' = "Aborted" /\ runtime' = "Aborted" /\ result' = "io"
    /\ UNCHANGED <<thread, failure, job, executor, call>>

\* MediaGraphWorker::start: refused once the worker is marked.
Launch(w) ==
    /\ ~Stopping(w)
    /\ Does(Controller, "launch", w)
    /\ pc' = [pc EXCEPT ![w] = "launched"]
    /\ UNCHANGED <<stopRequested, aborted, interrupted, changed,
                   nodeInterrupted, err, errors, failure, withdrawn, channels,
                   states>>

LaunchRefused(w) ==
    /\ Stopping(w)
    /\ job[Controller] # <<>> /\ Head(job[Controller]) = Step("launch", w)
    /\ job' = [job EXCEPT ![Controller] = AbortExecutor]
    /\ UNCHANGED <<thread, failure, withdrawn, channels, states>>

Started ==
    /\ primary = None
    /\ Does(Controller, "started", 0)
    /\ executor' = "Running" /\ runtime' = "ThreadedRunning"
    /\ call' = "none" /\ result' = "ok"
    /\ UNCHANGED <<thread, failure, withdrawn, channels, scheduler>>

StartedFailed ==
    /\ primary # None
    /\ job[Controller] # <<>> /\ Head(job[Controller]) = Step("started", 0)
    /\ job' = [job EXCEPT ![Controller] = AbortExecutor]
    /\ UNCHANGED <<thread, failure, withdrawn, channels, states>>

Begin(name, program) ==
    /\ runtime = "ThreadedRunning" /\ call = "none"
    /\ call' = name
    /\ job' = [job EXCEPT ![Controller] = program]
    /\ UNCHANGED <<thread, failure, withdrawn, channels, executor, runtime,
                   scheduler, result>>

\* stop() comes from the caller, from a timeout, or after completed().
Stop == Begin("stop", StopExecutor)

\* synchronizeThreadedState() aborts once a failure is recorded.
Synchronize ==
    primary # None /\ Begin("sync", <<Step("withdraw", 0)>> \o AbortExecutor)

Abort == Begin("abort", <<Step("withdraw", 0)>> \o AbortExecutor)

StopBegins ==
    /\ Does(Controller, "stopping", 0)
    /\ executor' = "Stopping"
    /\ UNCHANGED <<thread, failure, withdrawn, channels, runtime, scheduler,
                   call, result>>

\* The end of MediaGraphThreadedExecutor::stop and of the lifecycle stop():
\* worker errors abort the scheduler; otherwise every node is stopped, and a
\* node that fails to stop leaves the states as they are.
HarvestErrors ==
    /\ \E w \in Workers : errors[w] # 0
    /\ Does(Controller, "harvest", 0)
    /\ scheduler' = "Aborted" /\ executor' = "Aborted" /\ runtime' = "Aborted"
    /\ channels' = "aborted"
    /\ call' = "none"
    /\ result' = IF primary = None THEN "internal" ELSE primary.error
    /\ UNCHANGED <<thread, failure, withdrawn>>

HarvestClean ==
    /\ \A w \in Workers : errors[w] = 0
    /\ Does(Controller, "harvest", 0)
    /\ call' = "none"
    /\ \/ /\ scheduler' = "Stopped" /\ executor' = "Stopped"
          /\ runtime' = "Stopped" /\ result' = "ok"
       \/ /\ scheduler' = "Stopping" /\ result' = "io"
          /\ UNCHANGED <<executor, runtime>>
    /\ UNCHANGED <<thread, failure, withdrawn, channels>>

\* Mutant: a refused start reports the refusal, not the failure behind it.
Teardown_OwnStatus ==
    /\ Does(Controller, "teardown", 0)
    /\ scheduler' = "Aborted" /\ executor' = "Aborted" /\ runtime' = "Aborted"
    /\ withdrawn' = TRUE
    /\ call' = "none"
    /\ result' = CASE call = "abort" -> "ok"
                   [] call = "start" -> "startCancelled"
                   [] OTHER -> primary.error
    /\ UNCHANGED <<thread, failure, channels>>

\* The end of MediaGraphThreadedExecutor::abort and of the lifecycle call:
\* startThreaded() reports the primary failure or its own refusal,
\* synchronizeThreadedState() the primary failure, abort() nothing.
Teardown ==
    /\ Does(Controller, "teardown", 0)
    /\ scheduler' = "Aborted" /\ executor' = "Aborted" /\ runtime' = "Aborted"
    /\ withdrawn' = TRUE
    /\ call' = "none"
    /\ result' = IF call = "abort" THEN "ok"
                 ELSE IF primary # None THEN primary.error
                 ELSE IF call = "start" THEN "startCancelled" ELSE "internal"
    /\ UNCHANGED <<thread, failure, channels>>

-----------------------------------------------------------------------------
(* MediaGraphWorker::run. *)

Go(w, from, to) == pc[w] = from /\ pc' = [pc EXCEPT ![w] = to]

\* run() begins: the wakeup forgets an earlier interrupt.
ResetWakeup(w) ==
    /\ Go(w, "launched", "loop")
    /\ interrupted' = [interrupted EXCEPT ![w] = FALSE]
    /\ UNCHANGED <<stopRequested, aborted, changed, nodeInterrupted,
                   err, errors, failure, job, withdrawn, channels, states>>

\* The condition of the worker's loop.
Loop(w) ==
    /\ Go(w, "loop", IF Stopping(w) THEN "leaving" ELSE "observe")
    /\ UNCHANGED <<stopRequested, aborted, interrupted, changed,
                   nodeInterrupted, err, errors, failure, job, withdrawn,
                   channels, states>>

\* m_wakeup.sequence() before process().
Observe(w) ==
    /\ Go(w, "observe", "process")
    /\ changed' = [changed EXCEPT ![w] = FALSE]
    /\ UNCHANGED <<stopRequested, aborted, interrupted,
                   nodeInterrupted, err, errors, failure, job, withdrawn,
                   channels, states>>

\* process() makes progress or asks for a wait, with or without a deadline.
\* Its channel operations notify other nodes.
Processed(w) ==
    /\ \E next \in {"loop"} \cup Waits : Go(w, "process", next)
    /\ \E W \in SUBSET (Workers \ {w}) :
          changed' = [v \in Workers |-> changed[v] \/ v \in W]
    /\ UNCHANGED <<stopRequested, aborted, interrupted,
                   nodeInterrupted, err, errors, failure, job, withdrawn,
                   channels, states>>

\* process() reports Finished and has closed its outputs.
ProcessFinished(w) ==
    /\ Go(w, "process", "leaving")
    /\ \E W \in SUBSET (Workers \ {w}) :
          changed' = [v \in Workers |-> changed[v] \/ v \in W]
    /\ UNCHANGED <<stopRequested, aborted, interrupted, nodeInterrupted, err,
                   errors, failure, job, withdrawn, channels, states>>

\* The errors process() can return in the current state.
NodeErrors(w) ==
    {"io"} \cup (IF withdrawn THEN {"refused"} ELSE {})
           \cup (IF nodeInterrupted[w] \/ channels # "open"
                 THEN {"interrupt"} ELSE {})

ProcessFailed(w) ==
    /\ Go(w, "process", "failed")
    /\ \E e \in NodeErrors(w) : err' = [err EXCEPT ![w] = e]
    /\ UNCHANGED <<stopRequested, aborted, interrupted, changed,
                   nodeInterrupted, errors, failure, job, withdrawn, channels,
                   states>>

\* A Cancelled that follows the worker's own stop or abort mark just leaves.
Classify(w) ==
    /\ IF Stopping(w) /\ err[w] \in Cancelled
       THEN Go(w, "failed", "leaving") /\ err' = [err EXCEPT ![w] = "none"]
       ELSE Go(w, "failed", "recording") /\ UNCHANGED err
    /\ UNCHANGED <<stopRequested, aborted, interrupted, changed,
                   nodeInterrupted, errors, failure, job, withdrawn, channels,
                   states>>

\* recordFailure(), the first time: the error becomes the primary failure and
\* the supervisor's callback runs on this thread.
RecordPrimary(w) ==
    /\ primary = None
    /\ \/ Go(w, "recording", "reporting")
       \/ Go(w, "recordingRelease", "reportingRelease")
    /\ primary' = [worker |-> w, error |-> err[w]]
    /\ notified' = TRUE
    /\ err' = [err EXCEPT ![w] = "none"]
    /\ job' = [job EXCEPT ![w] = IF notified THEN <<>> ELSE CoordinatedStop]
    /\ UNCHANGED <<stopRequested, aborted, interrupted, changed,
                   nodeInterrupted, errors, withdrawn, channels, states>>

\* recordFailure() after that: a coordinated cancellation is not counted.
RecordLater(w) ==
    /\ primary # None
    /\ \/ Go(w, "recording", "leaving") /\ aborted' = [aborted EXCEPT ![w] = TRUE]
       \/ Go(w, "recordingRelease", "exited") /\ UNCHANGED aborted
    /\ errors' = [errors EXCEPT ![w] =
                    IF err[w] \in Cancelled /\ Stopping(w) THEN @ ELSE @ + 1]
    /\ err' = [err EXCEPT ![w] = "none"]
    /\ UNCHANGED <<stopRequested, interrupted, changed,
                   nodeInterrupted, failure, job, withdrawn, channels,
                   states>>

\* The callback has returned.
Reported(w) ==
    /\ job[w] = <<>>
    /\ \/ Go(w, "reporting", "leaving") /\ aborted' = [aborted EXCEPT ![w] = TRUE]
       \/ Go(w, "reportingRelease", "exited") /\ UNCHANGED aborted
    /\ errors' = [errors EXCEPT ![w] = @ + 1]
    /\ UNCHANGED <<stopRequested, interrupted, changed,
                   nodeInterrupted, err, failure, job, withdrawn, channels,
                   states>>

\* MediaNodeWakeup::wait returns Notified or Deadline.
WaitEnds(w) ==
    /\ ~interrupted[w]
    /\ \/ changed[w] /\ pc[w] \in {"waitInput", "waitEither"}
       \/ pc[w] \in {"waitEither", "waitDeadline"}
    /\ pc' = [pc EXCEPT ![w] = "loop"]
    /\ UNCHANGED <<stopRequested, aborted, interrupted, changed,
                   nodeInterrupted, err, errors, failure, job, withdrawn,
                   channels, states>>

\* It returns Interrupted: a failure unless the worker was marked before.
WaitInterrupted(w) ==
    /\ interrupted[w] /\ pc[w] \in Waits
    /\ IF Stopping(w)
       THEN /\ pc' = [pc EXCEPT ![w] = "loop"]
            /\ stopRequested' = [stopRequested EXCEPT ![w] = TRUE]
            /\ UNCHANGED err
       ELSE /\ pc' = [pc EXCEPT ![w] = "recording"]
            /\ err' = [err EXCEPT ![w] = "wakeup"]
            /\ UNCHANGED stopRequested
    /\ UNCHANGED <<aborted, interrupted, changed, nodeInterrupted,
                   errors, failure, job, withdrawn, channels, states>>

\* ExitPublication: finishExecution() succeeds or its Cancelled follows a mark.
Exit(w) ==
    /\ Go(w, "leaving", "exited")
    /\ UNCHANGED <<stopRequested, aborted, interrupted, changed,
                   nodeInterrupted, err, errors, failure, job, withdrawn,
                   channels, states>>

\* finishExecution() fails: the failure of the Release phase is recorded.
ExitFailed(w) ==
    /\ Go(w, "leaving", "recordingRelease")
    /\ \E e \in NodeErrors(w) \ {"refused"} :
          /\ ~(e \in Cancelled /\ Stopping(w))
          /\ err' = [err EXCEPT ![w] = e]
    /\ UNCHANGED <<stopRequested, aborted, interrupted, changed,
                   nodeInterrupted, errors, failure, job, withdrawn, channels,
                   states>>

-----------------------------------------------------------------------------
ProgramStep(a) ==
    \/ \E w \in Workers : Mark(a, w) \/ MarkAborted(a, w) \/ Wake(a, w)
                          \/ Interrupt(a, w)
    \/ WakeAll(a)
    \/ Withdraw(a)

ControllerStep ==
    \/ ProgramStep(Controller)
    \/ CloseChannels \/ AbortChannels
    \/ \E w \in Workers : Join(w) \/ Launch(w) \/ LaunchRefused(w)
    \/ Started \/ StartedFailed \/ StopBegins
    \/ HarvestErrors \/ HarvestClean \/ Teardown

Call == StartThreaded \/ StartRefused \/ Stop \/ Synchronize \/ Abort

ProcessReturns(w) == Processed(w) \/ ProcessFinished(w) \/ ProcessFailed(w)

WorkerStep(w) ==
    \/ ProgramStep(w)
    \/ ResetWakeup(w) \/ Loop(w) \/ Observe(w)
    \/ Classify(w) \/ RecordPrimary(w) \/ RecordLater(w) \/ Reported(w)
    \/ WaitEnds(w) \/ WaitInterrupted(w)
    \/ Exit(w) \/ ExitFailed(w)

Gone(w) == pc[w] \in {"new", "exited"}

\* The runtime has reached Stopped or Aborted and has no thread left.
Over ==
    /\ runtime \in {"Stopped", "Aborted"} /\ \A w \in Workers : Gone(w)
    /\ UNCHANGED vars

Next ==
    \/ Call
    \/ ControllerStep
    \/ \E w \in Workers : WorkerStep(w) \/ ProcessReturns(w)
    \/ Over

Spec == Init /\ [][Next]_vars

\* The controller and the workers run; process() need only return once its
\* node has been interrupted.
Fairness ==
    /\ WF_vars(ControllerStep)
    /\ \A w \in Workers :
          /\ WF_vars(WorkerStep(w))
          /\ WF_vars(nodeInterrupted[w] /\ ProcessReturns(w))

FairSpec == Spec /\ Fairness

-----------------------------------------------------------------------------
(* Safety. *)

\* Cancelling the remaining workers never produces the primary failure: the
\* error it keeps is not one that an interrupt, a closed channel or a woken
\* wait of the coordinated stop caused (MediaGraphWorker::recordFailure).
PrimaryIsNotCancellation == primary.error \notin {"interrupt", "wakeup"}

\* The scheduler stops or aborts the nodes, on the controller's thread, only
\* when no worker thread can be inside its node any more.
TeardownAfterExit ==
    scheduler \in {"Stopping", "Stopped", "Aborted"} =>
        \A w \in Workers : Gone(w)

\* stop() succeeds only if no worker recorded a failure, one that its Release
\* phase recorded after completed() was already true included.
StopHarvestsFailures == runtime = "Stopped" => primary = None

\* A lifecycle call that fails because a worker failed returns that worker's
\* error, not the refusal to start a later worker or a generic one.
PrimaryReported ==
    /\ result \notin {"startCancelled", "internal"}
    /\ runtime = "Aborted" /\ primary # None /\ result # "ok"
          => result = primary.error

\* docs/completed/realtime-termination-correctness.md:8 says of cancellations
\* "The failure supervisor marks each peer stopped before interrupting it": so
\* no worker records one that the withdrawal of payload admission caused.
WithdrawalIsCoordinated ==
    \A w \in Workers : pc[w] = "recording" => err[w] # "refused"

-----------------------------------------------------------------------------
(* Liveness. *)

\* Every lifecycle call returns (no join waits for ever on a worker that missed
\* its interrupt), and one worker's failure takes every worker out of its loop,
\* also when the controller makes no call.
CallsAndFailuresEnd ==
    []<>(/\ call = "none"
         /\ primary # None => \A w \in Workers : Gone(w))

=============================================================================
