---------------------------- MODULE RuntimeBranch ----------------------------
(***************************************************************************)
(* One output branch: MediaRuntimeBranch, its workers and their failure     *)
(* supervisor, its MediaRuntimeReclamationOwner, and the two threads that   *)
(* call it: the run controller's ("control": start, beginDrain, fail, poll, *)
(* the destructor) and the worker of the fan-out node that publishes into   *)
(* it ("fanout": MediaOutputBranchFanout::publish).                         *)
(*                                                                         *)
(* m_publicationMutex is held across several steps where the code calls     *)
(* out with it: mutex names its holder.  The failure recorder, the flags of *)
(* the workers and the owner's tokens are read and written without it.      *)
(*                                                                         *)
(* The nodes of the branch are one pipeline with a bounded input: queued    *)
(* counts the buffers in its channels.  How a worker waits and is woken is  *)
(* in WorkerGroup.  requestFailureStop makes two passes over the workers,   *)
(* requestStop and interrupt; here a visit does both.                       *)
(***************************************************************************)
EXTENDS Integers, FiniteSets

CONSTANTS Workers,   \* one worker for each node of the branch
          Capacity   \* buffers the branch's channels hold

ASSUME CapacityAssumption == Capacity \in Nat \ {0}

\* A branch has a node, and a worker is neither of the callers' threads.
ASSUME WorkersAssumption == Workers # {} /\ {"control", "fanout"} \cap Workers = {}

VARIABLES
    state,        \* m_state
    dropped,      \* the destructor has begun, the branch not being retired
    failed,       \* m_failures.hasFailure()
    pc,           \* where each worker is
    stop,         \* workers whose requestStop() and interrupt() were called
    walk,         \* workers a caller of requestFailureStop has still to visit
    mutex,        \* holder of m_publicationMutex
    op,           \* what the two callers are in the middle of
    queued, eos,  \* buffers in the branch; the end of stream is behind them
    moved,        \* drainProgress() differs from m_lastDrainProgress
    owner,        \* the reclamation owner's thread
    reclaimAbort, reclaimed,   \* m_reclaimAbort, m_reclaimed
    cleared,      \* m_workers.clear() has run
    prerequisite  \* every m_retirementPrerequisites token is completed

control == <<state, dropped, mutex, op>>
media == <<queued, eos, moved>>
reclaim == <<owner, reclaimAbort, reclaimed, cleared, prerequisite>>
vars == <<control, failed, pc, stop, walk, media, reclaim>>

Callers == {"control", "fanout"}
States == {"Prepared", "Running", "Draining", "Failed", "Retiring", "Retired"}

(* "silent": poll() has unlocked and will call fail(); "refused": publish()    *)
(* has its answer and will call fail(); "failing", "dropping": inside          *)
(* requestFailureStop.                                                        *)
Ops == {"idle", "starting", "polled", "silent", "publishing", "refused",
        "failing", "dropping"}

(* "new" has no thread; "notifying" runs the supervisor's callback and goes on *)
(* to finishExecution, "notifyingExit" does so after it.                       *)
WorkerState == {"new", "running", "notifying", "finishing", "notifyingExit",
                "exited"}

OwnerState == {"idle", "requested", "joined", "stopped", "released", "completed"}

\* MediaGraphWorker::exited(); m_exited is true before the thread is started.
Quiet(w) == pc[w] \in {"new", "exited"}
WorkersExited == \A w \in Workers : Quiet(w)

Terminating == {"Retiring", "Retired"}

-----------------------------------------------------------------------------
(* Stopping the workers.                                                   *)

\* Mutant: only the pass that follows the flag is made, the flag is not set.
Visit_NoRequestStop(a, w) ==
    /\ w \in walk[a]
    /\ walk' = [walk EXCEPT ![a] = @ \ {w}]
    /\ UNCHANGED <<control, failed, pc, stop, media, reclaim>>

\* Every worker is marked stopped and interrupted, one after the other.
Visit(a, w) ==
    /\ w \in walk[a]
    /\ stop' = stop \cup {w}
    /\ walk' = [walk EXCEPT ![a] = @ \ {w}]
    /\ UNCHANGED <<control, failed, pc, media, reclaim>>

\* requestFailureStop by a caller that holds m_publicationMutex.
StopWorkers(a) ==
    /\ walk' = [walk EXCEPT ![a] = Workers]
    /\ mutex' = a
    /\ op' = [op EXCEPT ![a] = "failing"]

FailReturns(a) ==
    /\ op[a] = "failing" /\ walk[a] = {}
    /\ mutex' = "free"
    /\ op' = [op EXCEPT ![a] = "idle"]
    /\ UNCHANGED <<state, dropped, failed, pc, stop, walk, media, reclaim>>

\* fail(): by poll() or publish() that found a reason, or by the controller.
Fail(a) ==
    /\ mutex = "free" /\ ~dropped
    /\ op[a] \in (IF a = "control" THEN {"idle", "silent"} ELSE {"refused"})
    /\ state \notin Terminating
    /\ failed' = TRUE /\ state' = "Failed"
    /\ StopWorkers(a)
    /\ UNCHANGED <<dropped, pc, stop, media, reclaim>>

FailTooLate(a) ==
    /\ mutex = "free" /\ op[a] \in {"silent", "refused"} /\ state \in Terminating
    /\ op' = [op EXCEPT ![a] = "idle"]
    /\ UNCHANGED <<state, dropped, mutex, failed, pc, stop, walk, media, reclaim>>

-----------------------------------------------------------------------------
(* start().                                                                *)

BeginStart ==
    /\ mutex = "free" /\ op["control"] = "idle" /\ state = "Prepared" /\ ~dropped
    /\ mutex' = "control"
    /\ op' = [op EXCEPT !["control"] = "starting"]
    /\ UNCHANGED <<state, dropped, failed, pc, stop, walk, media, reclaim>>

\* The scheduler cannot start the nodes: no worker is created.
StartRefused ==
    /\ op["control"] = "starting" /\ \A w \in Workers : pc[w] = "new"
    /\ failed' = TRUE /\ state' = "Failed"
    /\ mutex' = "free" /\ op' = [op EXCEPT !["control"] = "idle"]
    /\ UNCHANGED <<dropped, pc, stop, walk, media, reclaim>>

Launch(w) ==
    /\ op["control"] = "starting" /\ pc[w] = "new" /\ w \notin stop
    /\ pc' = [pc EXCEPT ![w] = "running"]
    /\ UNCHANGED <<control, failed, stop, walk, media, reclaim>>

\* A worker of a failed branch refuses to start, or its thread is not created.
LaunchFails(w) ==
    /\ op["control"] = "starting" /\ pc[w] = "new"
    /\ failed' = TRUE /\ state' = "Failed"
    /\ StopWorkers("control")
    /\ UNCHANGED <<dropped, pc, stop, media, reclaim>>

Started ==
    /\ op["control"] = "starting" /\ \A w \in Workers : pc[w] # "new"
    /\ state' = "Running"
    /\ mutex' = "free" /\ op' = [op EXCEPT !["control"] = "idle"]
    /\ UNCHANGED <<dropped, failed, pc, stop, walk, media, reclaim>>

-----------------------------------------------------------------------------
(* Publication.                                                            *)

\* publish() looks at state(), then makes a replica.
BeginPublish ==
    /\ mutex = "free" /\ op["fanout"] = "idle" /\ state = "Running"
    /\ ~eos /\ ~dropped
    /\ op' = [op EXCEPT !["fanout"] = "publishing"]
    /\ UNCHANGED <<state, dropped, mutex, failed, pc, stop, walk, media, reclaim>>

Publishes(result) ==
    /\ op["fanout"] = "publishing"
    /\ op' = [op EXCEPT !["fanout"] = result]
    /\ UNCHANGED <<state, dropped, mutex, failed, pc, stop, walk, moved, reclaim>>

ReplicaFails == Publishes("refused") /\ UNCHANGED <<queued, eos>>

\* Mutant: a branch that drains still takes media.
Publishable_Always == ~failed

\* tryPublish accepts media of a running branch only.
Publishable == state = "Running" /\ ~failed

\* Closed: the branch has left Running since, which is not an error.
TryPublishClosed ==
    mutex = "free" /\ ~Publishable /\ Publishes("idle") /\ UNCHANGED <<queued, eos>>

TryPublishAccepted ==
    /\ mutex = "free" /\ Publishable /\ queued < Capacity
    /\ Publishes("idle")
    /\ queued' = queued + 1
    /\ UNCHANGED eos

\* The shared source has ended: the last buffer is the end of stream.
TryPublishEof ==
    /\ mutex = "free" /\ Publishable /\ queued < Capacity
    /\ Publishes("idle")
    /\ eos' = TRUE
    /\ UNCHANGED queued

TryPublishWouldBlock ==
    /\ mutex = "free" /\ Publishable /\ queued = Capacity
    /\ Publishes("refused")
    /\ UNCHANGED <<queued, eos>>

-----------------------------------------------------------------------------
(* beginDrain().                                                           *)

BeginDrain ==
    /\ mutex = "free" /\ op["control"] = "idle" /\ state = "Running" /\ ~dropped
    /\ state' = "Draining"
    /\ eos' = TRUE /\ moved' = FALSE
    /\ UNCHANGED <<dropped, mutex, op, failed, pc, stop, walk, queued, reclaim>>

\* closeWithTerminal finds an input aborted.
BeginDrainFails ==
    /\ mutex = "free" /\ op["control"] = "idle" /\ state = "Running" /\ ~dropped
    /\ failed' = TRUE /\ state' = "Failed"
    /\ StopWorkers("control")
    /\ UNCHANGED <<dropped, pc, stop, media, reclaim>>

-----------------------------------------------------------------------------
(* The workers.                                                            *)

Process(w) ==
    /\ pc[w] = "running" /\ queued > 0
    /\ queued' = queued - 1 /\ moved' = TRUE
    /\ UNCHANGED <<control, failed, pc, stop, walk, eos, reclaim>>

\* recordFailure: the first failure runs the supervisor's callback, which is
\* requestFailureStop without the mutex.
RecordFailure(w, notify, otherwise) ==
    /\ failed' = TRUE
    /\ pc' = [pc EXCEPT ![w] = IF failed THEN otherwise ELSE notify]
    /\ walk' = [walk EXCEPT ![w] = IF failed THEN {} ELSE Workers]
    /\ UNCHANGED <<control, stop, media, reclaim>>

WorkerFails(w) ==
    pc[w] = "running" /\ RecordFailure(w, "notifying", "finishing")

\* finishExecution fails on the way out.
ExitFails(w) ==
    pc[w] = "finishing" /\ RecordFailure(w, "notifyingExit", "exited")

WorkerMoves(w, from, to) ==
    /\ pc[w] = from
    /\ pc' = [pc EXCEPT ![w] = to]
    /\ UNCHANGED <<control, failed, stop, walk, queued, eos, reclaim>>

\* The loop ends: a stop was requested, or the node has seen the end of stream.
Leaves(w) ==
    /\ w \in stop \/ (eos /\ queued = 0)
    /\ WorkerMoves(w, "running", "finishing") /\ moved' = TRUE

Exits(w) == WorkerMoves(w, "finishing", "exited") /\ moved' = TRUE

\* Mutant: the worker publishes its exit before the supervisor's callback ends.
Notified_AnyTime(w) ==
    \/ WorkerMoves(w, "notifying", "finishing") /\ UNCHANGED moved
    \/ WorkerMoves(w, "notifyingExit", "exited") /\ moved' = TRUE

\* The callback has returned.
Notified(w) ==
    /\ walk[w] = {}
    /\ \/ WorkerMoves(w, "notifying", "finishing") /\ UNCHANGED moved
       \/ WorkerMoves(w, "notifyingExit", "exited") /\ moved' = TRUE

-----------------------------------------------------------------------------
(* poll().                                                                 *)

\* The failure recorder is looked at first, the workers after it.
PollBegins ==
    /\ mutex = "free" /\ op["control"] = "idle" /\ ~dropped
    /\ state \notin Terminating
    /\ state' = IF failed THEN "Failed" ELSE state
    /\ mutex' = "control" /\ op' = [op EXCEPT !["control"] = "polled"]
    /\ UNCHANGED <<dropped, failed, pc, stop, walk, media, reclaim>>

PollUnlocks(next) ==
    /\ op["control"] = "polled"
    /\ mutex' = "free" /\ op' = [op EXCEPT !["control"] = next]
    /\ UNCHANGED <<dropped, failed, pc, stop, walk, queued, eos, reclaimed, cleared,
                   prerequisite>>

Drains == state = "Draining" /\ ~WorkersExited

PollProgress ==
    /\ Drains /\ moved /\ PollUnlocks("idle")
    /\ moved' = FALSE
    /\ UNCHANGED <<state, owner, reclaimAbort>>

\* No progress for maximumProgressSilence.
PollSilent ==
    Drains /\ ~moved /\ PollUnlocks("silent")
    /\ UNCHANGED <<state, moved, owner, reclaimAbort>>

PollWaits ==
    /\ \/ Drains /\ ~moved
       \/ ~Drains /\ (state = "Prepared" \/ ~WorkersExited \/ ~prerequisite)
    /\ PollUnlocks("idle")
    /\ UNCHANGED <<state, moved, owner, reclaimAbort>>

\* Mutant: workers that still run are handed to the owner.
RetireReady_NoExit == state # "Prepared" /\ prerequisite

RetireReady == state # "Prepared" /\ WorkersExited /\ prerequisite

PollRetires ==
    /\ RetireReady /\ PollUnlocks("idle")
    /\ state' = "Retiring"
    /\ reclaimAbort' = (state = "Failed")
    /\ owner' = "requested"
    /\ UNCHANGED moved

\* The owner has completed; without m_reclaimed the branch stays owned.
PollRetired ==
    /\ mutex = "free" /\ op["control"] = "idle" /\ state = "Retiring"
    /\ owner = "completed" /\ reclaimed
    /\ state' = "Retired"
    /\ UNCHANGED <<dropped, mutex, op, failed, pc, stop, walk, media, reclaim>>

\* Reclamation exceeds its silence bound: only a failure is recorded.
PollReleaseSilent ==
    /\ mutex = "free" /\ op["control"] = "idle" /\ state = "Retiring"
    /\ owner # "completed" /\ ~failed
    /\ failed' = TRUE
    /\ UNCHANGED <<control, pc, stop, walk, media, reclaim>>

PrerequisiteExits ==
    /\ ~prerequisite /\ prerequisite' = TRUE
    /\ UNCHANGED <<control, failed, pc, stop, walk, media, owner, reclaimAbort,
                   reclaimed, cleared>>

-----------------------------------------------------------------------------
(* The reclamation owner and the destructor.                               *)

OwnerMoves(from, to) ==
    /\ owner = from /\ owner' = to
    /\ UNCHANGED <<control, pc, stop, walk, media, reclaimAbort, prerequisite>>

\* join() of every worker, then the supervisor is disarmed.
OwnerJoins ==
    WorkersExited /\ OwnerMoves("requested", "joined")
    /\ UNCHANGED <<failed, reclaimed, cleared>>

\* scheduler.abort(), or stop(), whose failure is recorded and followed by
\* abort().
OwnerStops ==
    /\ OwnerMoves("joined", "stopped")
    /\ UNCHANGED failed \/ (~reclaimAbort /\ failed' = TRUE)
    /\ UNCHANGED <<reclaimed, cleared>>

OwnerReleases ==
    /\ OwnerMoves("stopped", "released")
    /\ cleared' = TRUE /\ reclaimed' = TRUE
    /\ UNCHANGED failed

\* An exception on the way, before or after m_workers.clear(): the failure is
\* recorded and m_reclaimed stays false.
OwnerRaises ==
    /\ \E from \in {"joined", "stopped"} : OwnerMoves(from, "released")
    /\ failed' = TRUE
    /\ UNCHANGED cleared \/ (owner = "stopped" /\ cleared' = TRUE)
    /\ UNCHANGED reclaimed

OwnerCompletes ==
    OwnerMoves("released", "completed") /\ UNCHANGED <<failed, reclaimed, cleared>>

\* ~MediaRuntimeBranch() of a branch that is not retired: the last reference is
\* gone, so nobody else is calling it; the mutex is not taken.
Drop ==
    /\ mutex = "free" /\ ~dropped /\ state \notin Terminating
    /\ \A a \in Callers : op[a] = "idle"
    /\ dropped' = TRUE
    /\ walk' = [walk EXCEPT !["control"] = Workers]
    /\ op' = [op EXCEPT !["control"] = "dropping"]
    /\ UNCHANGED <<state, mutex, failed, pc, stop, media, reclaim>>

DropRequests ==
    /\ op["control"] = "dropping" /\ walk["control"] = {} /\ owner = "idle"
    /\ owner' = "requested" /\ reclaimAbort' = TRUE
    /\ UNCHANGED <<control, failed, pc, stop, walk, media, reclaimed, cleared,
                   prerequisite>>

-----------------------------------------------------------------------------
Init ==
    /\ state = "Prepared" /\ dropped = FALSE /\ failed = FALSE
    /\ pc = [w \in Workers |-> "new"]
    /\ stop = {}
    /\ walk = [a \in Callers \cup Workers |-> {}]
    /\ mutex = "free"
    /\ op = [a \in Callers |-> "idle"]
    /\ queued = 0 /\ eos = FALSE /\ moved = FALSE
    /\ owner = "idle" /\ reclaimAbort = FALSE /\ reclaimed = FALSE
    /\ cleared = FALSE
    /\ prerequisite \in BOOLEAN

Publish ==
    \/ BeginPublish \/ ReplicaFails \/ TryPublishClosed \/ TryPublishAccepted
    \/ TryPublishEof \/ TryPublishWouldBlock

Starting ==
    \/ BeginStart \/ StartRefused \/ Started
    \/ \E w \in Workers : Launch(w) \/ LaunchFails(w)

Polling ==
    \/ PollBegins \/ PollProgress \/ PollWaits \/ PollRetires \/ PollRetired
    \/ PollReleaseSilent

Work(w) ==
    \/ Process(w) \/ WorkerFails(w) \/ ExitFails(w) \/ Leaves(w) \/ Exits(w)
    \/ Notified(w)

Owner ==
    \/ OwnerJoins \/ OwnerStops \/ OwnerReleases \/ OwnerRaises \/ OwnerCompletes

Next ==
    \/ \E a \in Callers \cup Workers, w \in Workers : Visit(a, w)
    \/ \E a \in Callers : FailReturns(a) \/ Fail(a) \/ FailTooLate(a)
    \/ Starting \/ Publish \/ BeginDrain \/ BeginDrainFails
    \/ \E w \in Workers : Work(w)
    \/ Polling \/ PollSilent \/ PrerequisiteExits
    \/ Owner \/ Drop \/ DropRequests

Spec == Init /\ [][Next]_vars

(* The controller keeps polling and a call that has begun goes on; a drain     *)
(* without progress is found silent in the end; a worker that is stopped or    *)
(* has seen the end of stream leaves its loop; the owner's thread runs.        *)
Fairness ==
    /\ \A a \in Callers \cup Workers, w \in Workers : WF_vars(Visit(a, w))
    /\ \A a \in Callers :
          WF_vars(FailReturns(a) \/ FailTooLate(a))
          /\ WF_vars(op[a] # "idle" /\ Fail(a))
    /\ WF_vars(Starting) /\ WF_vars(Publish)
    /\ \A w \in Workers : WF_vars(Leaves(w) \/ Exits(w) \/ Notified(w))
    /\ WF_vars(Polling) /\ SF_vars(PollBegins) /\ SF_vars(PollSilent)
    /\ WF_vars(PrerequisiteExits) /\ WF_vars(Owner) /\ WF_vars(DropRequests)

FairSpec == Spec /\ Fairness

-----------------------------------------------------------------------------
(* What a branch promises.                                                 *)

(* Every variable keeps its type.                                             *)
TypeOK ==
    /\ state \in States /\ dropped \in BOOLEAN /\ failed \in BOOLEAN
    /\ pc \in [Workers -> WorkerState]
    /\ stop \subseteq Workers
    /\ walk \in [Callers \cup Workers -> SUBSET Workers]
    /\ mutex \in Callers \cup {"free"}
    /\ op \in [Callers -> Ops]
    /\ queued \in 0 .. Capacity /\ eos \in BOOLEAN /\ moved \in BOOLEAN
    /\ owner \in OwnerState
    /\ reclaimAbort \in BOOLEAN /\ reclaimed \in BOOLEAN
    /\ cleared \in BOOLEAN /\ prerequisite \in BOOLEAN

Lifecycle == INSTANCE BranchLifecycle
             WITH phase <- IF dropped THEN "Dropped" ELSE state,
                  live <- {w \in Workers : ~Quiet(w)},
                  held <- ~cleared

(* The branch, with its callers, its workers and its owner interleaved in any   *)
(* way, is the lifecycle of BranchLifecycle: no phase is left out or re-entered, *)
(* it retires only when no worker's thread is left and what it owns is released  *)
(* only after that.                                                             *)
ImplementsLifecycle == Lifecycle!Spec

(* The workers are never destroyed under a requestFailureStop that walks them:  *)
(* neither a caller's, nor a supervisor callback on a worker, nor the            *)
(* destructor's (comment at MediaRuntimeBranch.cpp:212).                        *)
NoUseAfterRelease ==
    cleared => /\ \A a \in DOMAIN walk : walk[a] = {}
               /\ \A a \in Callers : op[a] # "failing"

(* A branch that retires without a recorded failure has handed on every buffer   *)
(* that tryPublish accepted: drain, end of stream and the supervisor never       *)
(* discard media silently.                                                      *)
CleanRetirement == state = "Retired" /\ ~failed => queued = 0

(* A branch that was told to drain, or has failed, is retired in the end, unless *)
(* it is destroyed or its release raised an exception and it stays owned.        *)
BranchRetires ==
    state \in {"Draining", "Failed"} ~>
        \/ state = "Retired" \/ dropped
        \/ owner = "completed" /\ ~reclaimed
=============================================================================
