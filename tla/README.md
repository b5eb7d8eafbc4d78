# Verification of the MediaTranscode graph runtime

This directory holds TLA+ models of the concurrent core of MediaTranscode, the
TLC configurations that check them, and TLAPS proofs. `PROJECT.json` maps every
definition to the lines it translates and lists runs, mutants, findings and
hazards.

## The system

A plan is turned into a graph of *nodes* (demux, decode, filter, encode, mux,
sync, output) joined by *channels*. Each node runs on a worker thread; workers
meet only at channels, at the session's payload ledger and, for audio/video
sessions, at the synchronisation group. A realtime session adds *outputs* to a
running graph: each is a branch of nodes behind a fan-out, with workers of its
own, and outputs with the same encoding share an *encoding group*, which is a
branch as well.

| Part | State | Operations | What is hard about it |
|---|---|---|---|
| Queues (`runtime/queue`) | ring or deque, closed and aborted flags, threads waiting in them | push, pushOutcome, publishPrepared, pop, tryPop, close, abort, clear | index arithmetic, overflow policies, notify_one after unlock |
| Channels (`runtime/channel`) | a queue's length, deferred close, terminal cell, reserved and authorized slots | push, pop, tryPop, close, closeWithTerminal, abort; reserve, authorize, commit, cancel over several channels | two mutexes per channel, notifications sent after unlock, close in front of promised media |
| Workers (`runtime/threading`, `runtime/lifecycle`) | thread phase, stop marks, wakeup, primary failure, executor/runtime/scheduler states | start, stop, abort, harvest, the loop of each worker, the supervisor's callback | failure during start, stop racing failure, telling a cause from its consequences |
| Payload ledger (`runtime/resource`) | bound and usage per account, waiters, aggregate | reserve or arm, claim, release, shrink, admit/grow/partition/retire, cancel | grants to sleeping workers, cancellation racing admission, 64-bit sums |
| Sync group (`sync/`) | playback epoch, output permit, transition, reacquisition phase | request, purge, acknowledge, activate, publish, abort | several mutexes, a purge with no lock held, permits held across calls |
| Output branches (`runtime/threading/MediaRuntimeBranch`, fan-out) | branch state, workers, reclamation owner | start, publish, drain, fail, poll, destroy, reclaim | removal while the source runs, workers freed while somebody walks them |
| Output control (`application/realtime`) | one pending change, snapshots, preparation, outputs and groups | add, remove, prepare, admit, publish, poll, finish | asynchronous preparation against outputs that fail meanwhile |
| Startup, transmit session, beta session, planner, builder, formats, adapters, tools | - | - | see [Not modelled](#not-modelled) |

## Modules

| Module | Models | Style |
|---|---|---|
| `BoundedFifo` | what every `MediaQueue` promises | abstract: the content is a sequence |
| `MediaQueues` | `MediaSpscRingQueue`, `MediaBlockingQueue`, `MediaBlockingQueueStorage` | one action per critical section; cells and indices as in the code |
| `OutputChannels` | `MediaChannel`, `MediaReservedOutputTransaction`, `MediaAtomicOutputTransaction`, `tryReadRequiredInput` | one action per critical section; a queue is its length |
| `WorkerGroup` | `MediaGraphWorker`, `MediaNodeWakeup`, failure recorder and supervisor, `MediaGraphThreadedExecutor`, `MediaGraphRuntimeLifecycleExecutor` | a loop over the workers is a *program*, a sequence of steps that other threads interleave with |
| `PayloadCredit` | `MediaGraphPayloadCreditLedger` | one action per account critical section; the cancel walk and notifications are separate steps |
| `Reacquisition` | `MediaAvReacquisitionCoordinator`, `MediaAvEpochTransitionService` with its generation coordinator, the participants' purges, and how the locked packet gates, the startup coordinator, the release sequencer and the output scheduler use them | one action per critical section; `arb` and `permit` name who keeps a mutex between two steps |
| `BranchLifecycle` | what an output branch promises its owners | abstract: phase, live threads, held resources |
| `RuntimeBranch` | `MediaRuntimeBranch`, its workers and supervisor, `MediaRuntimeReclamationOwner`, `MediaOutputBranchFanout::publish` | one action per step another thread can see; `mutex` names the holder of `m_publicationMutex` |
| `OutputControl` | `MediaRealtimeVideoRunControl`, `MediaRealtimeOutputRunController`, `MediaRealtimePreparationExchange` | `poll()` and `finish()` are sequences of steps |
| `MediaQueuesProofs`, `QueueWaitersProofs`, `OutputChannelsProofs`, `OutputWakeupProofs`, `WorkerGroupProofs`, `ReacquisitionProofs`, `RuntimeBranchProofs`, `OutputControlProofs` | proofs | |
| `MC*` | instances for TLC | |

The modules meet where the code does. `OutputChannels` takes a queue to be its
length and to accept or refuse as a bounded FIFO, which `MediaQueues` shows of
both classes. `RuntimeBranch` leaves how a worker waits and is woken to
`WorkerGroup`. `OutputControl` takes a branch to be the lifecycle that
`RuntimeBranch` implements, and its fairness that a branch told to drain or to
fail retires is `RuntimeBranch`'s `BranchRetires`. That property makes one
exception, a release that raised an exception; there `finish()` waits for good,
and `OutputControl` leaves it out.

### MediaQueues

`setup` is the queue that was built: class and storage, overflow policy, and
whether producers call `push()`, which waits, or only `pushOutcome()`. `store`
keeps deque or cells with the two indices; `Content` reads the frames out of
either, and is the refinement mapping to `BoundedFifo`. `prod` and `cons` are
where the threads are: about to look, asleep on a condition variable, or
unlocked and about to notify. `pop()` of the ring reads `m_aborted` and
`m_closed` without the mutex, so each read is an action.

### OutputChannels

`size`, `qClosed`, `qAborted` are the blocking queue; `closeRequested`,
`terminal`, `reserved`, `authorized` are the channel's members; `txn` and `need`
are the reservation records. `signal[t]` holds the channels a finished commit or
cancel has not notified yet: the code unlocks before it notifies, so everything
else may happen in between. `cons[c]` is what the consumer is doing: `pop()`
decides under one mutex and waits under another, and `tryReadRequiredInput`
makes three separate calls. `parkedTxn`, `blockedOn`, `parkedOn` are those who
wait for room: a node on its wakeup, a thread inside `push()`. `Authorize(H)`
authorizes a set of records together, as the startup release does for several
nodes' reservations at once.

### WorkerGroup

`job[a]` is what actor `a` still has to execute. The controller (actor 0) runs
lifecycle calls; a worker runs the supervisor's callback when its failure is the
first. Errors are classified by their cause, because the properties are about
telling the cause of a failure from what the coordinated stop makes of it.

### PayloadCredit

Quantities are pairs of bytes and objects. `use`, `limit`, `waiters` are an
account's members, `leases` the live lease objects, `total` the session
aggregate. `Source` is the initial account, `Branches` are admitted, grown,
partitioned and retired beside it. `tryReserve` and `tryReserveBatch` have no
caller and are not modelled.

An account belongs to the nodes of one branch, and a waiter holds its node's
wakeup weakly. When `MediaRuntimeBranch::reclaim` has joined the branch's workers
(`JoinWorkers`) it resets the branch's context, and the wakeups go, one sooner
than another where a channel of the next segment still holds it
(`DestroyWakeup`); the account stays open until the branch object dies
(`RetireBranch`), and payloads of it that live elsewhere go on being released.
`Promotion` is one pass of `promoteOne` over the waiters: those without a wakeup
are erased as the pass reaches them, a granted one's credit is taken back there
and then, and the first live one that fits what is left is granted. A pass may
therefore take credit back behind a waiter that would now fit, and leave it;
`NoStrandedWaiter` is about accounts whose workers have not been joined, where
somebody would sleep on it. The session's own context cancels every account
before its wakeups go.

### Reacquisition

A group moves from one clock generation to the next: a gate reads a
discontinuity and calls `request()`; the coordinator closes the output permit,
purges the participants, and waits in `Acquiring` for startup to find a common
start; the sequencer then activates and publishes the next epoch.

* `service` is the epoch service (readiness, epoch, permit, active and completed
  purge, next sequence); the operators `CanX`/`X` are the precondition and the
  effect of its calls. `coord` is the reacquisition coordinator.
* `arb` is the activation mutex, kept by the sequencer from a reservation to the
  commit; `permit` is the service mutex, kept by the scheduler while it emits.
  The coordinator's state mutex is never kept, so a section under it is a step.
* `req[r]` is where a caller of `request()` is: the check, the begin under both
  mutexes, the purges with no lock, the acknowledgements.
* `gate[g]` is where a gate is in its clock handler, which reads shared state
  four times with no lock in between.
* `sched` is the scheduler's session (`gen`, and `fresh`: still the session that
  was refreshed) and its output generation state (`permitted`, `pending`). A
  purge replaces the session and does not empty the channels in front of it.
  It asks for a transition itself, for a hard phase error (the reason a gate
  gives, so the two may join) or an exhausted recovery budget, and then fails.
* A failed worker is followed by `Stop`, the coordinated shutdown of the group.

Left out: requests for a future generation and the `observe` path that makes
them, the Flush reason, the transition timeouts (`pollTimeout` has no caller),
Acquiring evidence and control buffers (an Abort control has no producer in the
source; an aborted input channel is modelled), retries of a pending
transfer, the startup barriers and the audio drift controller. The two service
sections of `permitAuthorityActivation` are one step: what falls between them
can only make it fail, which it can do before them as well.

### RuntimeBranch

`state` is `m_state`, `op` what the controller's thread and the fan-out's worker
are in the middle of, `pc` where each worker is. `walk[a]` is the set of workers
a caller of `requestFailureStop` has still to visit: a caller walks with
`m_publicationMutex`, a supervisor's callback and the destructor without it.
`queued` and `eos` stand for the media in the branch's channels. `owner` is the
reclamation owner's thread, which joins, stops the nodes, releases them
(`cleared` once `m_workers.clear()` has run) and completes. `moved` is what the
drain's silence check compares; that the silence bound has passed is a
nondeterministic choice of `poll()`. The branch is mapped to `BranchLifecycle`
by its phase, its threads and `~cleared`.

### OutputControl

The callers' mailbox is `enabled`, `inProgress`, `pending`, `nextId` and
`listed`. `out`, `grp` and `prep` are the controller's outputs, encoding groups
(each with the count that lets it go) and the preparation it shares with the
worker. `pc` and `cursor` are where `poll()` or `finish()` is; branches, worker
and callers go on between its steps. What the planner and the segment factory
decide is a refusal that may happen, and a budget may end at any moment. `seen`
is the last state the observer was told.

## Runs

| Run | Checks | Instance |
|---|---|---|
| `queues` | `NobodyForgotten`, `IsBoundedFifo`, `BlockedPushWakes` | capacity 3, a key frame and another, one producer, one consumer, every class, storage and policy; about 48,000 states |
| `channels` | `CapacityRespected`, `ReservationsAccounted`, `TerminalLast`, `DeferredClose`, `ConsumerNotForgotten`, `ProducerNotForgotten`; liveness `TerminalDelivered`, `BlockedPushRetries` | two channels (capacity 1 and 2), one owner, one producer, one blocking and one polling consumer; about 88,000 states |
| `required_input` | `ClosedMeansDrained`, violated | capacity 1, one owner |
| `workers` | `PrimaryIsNotCancellation`, `TeardownAfterExit`, `StopHarvestsFailures`, `PrimaryReported`; liveness `CallsAndFailuresEnd` | two workers, all three kinds of wait; about 139,000 states |
| `payload_withdrawal` | `WithdrawalIsCoordinated`, violated | two workers that wait for input |
| `payload_credit` | `TypeOK`, `CreditsAccounted`, `NoStrandedWaiter`, `GrantReachesProducer`, `AdmissionRepresentable`, `CancelComplete`, `GrantsRespectBound` | one producer in the source account, two in a branch, a storage account, `MaxValue` 4; about 302,000 states |
| `payload_credit_live` | liveness `ArmedIsServed` | three producers with equal demands on one account |
| `reacquisition` | `LayersAgree`, `OpensAfterPurge`, `PublishesUnderPermit`, `EmitsUnderPermit`, `ReservedActivationPublishes`, `FailureIsTerminal` | two gates, two generations, two clock states in flight, one release in flight; about 1,387,000 states |
| `reacquisition_live` | liveness `RequestReturns`, `ReadyEnds` | one gate, three generations; about 200,000 states |
| `gate_race` | `DiscontinuityRequested`, violated | two gates, two generations |
| `branches` | `NoUseAfterRelease`, `CleanRetirement`, `ImplementsLifecycle`; liveness `BranchRetires` | two workers, capacity 2; about 54,000 states |
| `outputs` | `GroupsCounted`, `ListedIsOwned`, `NeverRevived`; liveness `SessionAnswers` | the initial output and one added one, in its group or in one of its own; about 406,000 states |

What they show, beyond what the table of `PROJECT.json` says in a sentence each:

* `IsBoundedFifo` and `ImplementsLifecycle` are refinements: every step of the
  queue classes is a step of `BoundedFifo` (or changes nothing it can see), and
  every step of a branch with its callers, workers and owner one of
  `BranchLifecycle`. What a queue or branch does wrong in a corner (a ring that
  wraps while a frame in its middle is dropped, a branch that retires while a
  supervisor's callback still runs) has no counterpart there.
* `NoUseAfterRelease` is about the comment at `MediaRuntimeBranch.cpp:212`: the
  mutex protects callers' walks, and the exit publication of a worker, which
  comes after its callback, the supervisor's.
* `GroupsCounted` and `ListedIsOwned` relate three records of one fact, kept by
  different steps of `poll()`: the outputs, the groups' counts, the callers' list.
* The wake-up properties (`NobodyForgotten`, `ConsumerNotForgotten`,
  `ProducerNotForgotten`, `GrantReachesProducer`) name who is still going to
  notify a sleeper, because the code notifies after it has unlocked.

**Bounds.** Queues: capacity 3 lets a frame be dropped from the front, the
middle and the end, and both rings wrap. An edge of the graph has one producer
and one consumer; with two producers under `BlockProducer`, `notify_one` may
wake the same one again and again, which is not a claim of this code. Channels:
two are the least for which a transaction spans more than one, and capacities 1
and 2 make it fit on one side only. The run has one owner, so that liveness can
be checked on the same graph; its safety invariants are proved for every number
of owners. Two workers are the least where one fails while the other starts,
waits or fails as well; the safety invariants are proved for every number. `MaxValue` stands for the largest
`std::uint64_t`: with 4 an admission is refused in some states and accepted in
others. Two producers of a branch, with demands of which one fits where the other
does not, are the least for which a grant stands behind a waiter that has none,
and for which one wakeup is gone and the other is not. In a branch two workers are the least where one's callback walks another
that still runs, and capacity 2 the least where a full branch still drains in
more than one step. `MaxOutputs` bounds the ids a session gives out: with 2 an
output joins a group or gets its own while the first one runs, fails, drains or
is gone; ids are never reused.

In `Reacquisition` `MaxGen` bounds the generations the source locks: with 2
there is one full transition and the beginning of another (the second
discontinuity is sent and handled, the third generation never locks), which
reaches every action. With 3 generations the liveness run goes through two full
transitions; it has one gate, so the two gates' race is left to the safety run.
`MaxClock` 2 lets a discontinuity and the next lock wait in one channel, and
`MaxReleases` 1 is the least channel between startup and sequencer.

**Symmetry.** The two branch producers of the ledger and the two gates are
interchangeable in the safety runs; runs with a liveness property use none.

**Fairness.** All of it is weak unless said otherwise.

* `MediaQueues`: threads inside `push()` and `pop()` run and a consumer keeps
  reading. Nothing is assumed of who begins a push.
* `OutputChannels`: a consumer's thread keeps running, an owner commits, cancels
  or destroys its transaction and finishes its notifications, `abortChannels` is
  a plain loop. Producers are not assumed to push.
* `WorkerGroup`: threads run; `process()` is assumed to return only once its node
  has been interrupted, which is what `MediaRuntimeNode::interrupt` is for.
* `PayloadCredit`: payloads are eventually destroyed and woken workers run.
* `Reacquisition`: the sequencer, the scheduler and the coordinated stop run; a
  caller of `request()` is in the end granted a mutex that others take again and
  again (strong fairness: they release it after every use). Nothing is assumed of
  the source, of the scheduler's own requests, of an aborted input or of a stop.
* `RuntimeBranch`: calls that have begun go on, the owner's thread runs, and a
  worker leaves its loop once it is stopped or has seen the end of stream.
  `poll()` is granted the mutex in the end, and a drain that is looked at again
  and again without progress is found silent (both strong): the controller polls
  periodically, and the silence bound is a finite time. Workers are not assumed
  to make progress or to fail, nor the controller to start, drain or drop.
* `OutputControl`: the controller's thread and the preparation worker run,
  branches that were told to drain or fail retire, and an output that keeps
  waiting for its first picture meets its deadline (strong). Callers need not
  call, and branches need not fail.

**Deadlock** is checked in every run but `branches` and `outputs`, where a
retired branch and a finished session have nothing left to do; there
`BranchRetires` and `SessionAnswers` say that they do not stop earlier.

## Findings

* `required_input`: the reader of a required input reports a closed input while
  an accepted buffer is queued, when push and close fall between its `tryPop`
  and its `closed()`. `README.md:130` promises that EOF drains.
* `payload_withdrawal`: payload admission is withdrawn before workers are marked
  stopped, so an ordinary stop can record a worker failure;
  `docs/completed/realtime-termination-correctness.md:8` describes mark before
  interrupt.
* `gate_race`: both gates read one discontinuity. If the first begins the
  transition between the second's two looks at the coordinator, the second's
  `observeGeneration` refuses valid evidence, its node fails and the group stops;
  a moment later it would have been withheld.
  `docs/superpowers/specs/2026-07-26-av-sync-automatic-reacquisition-design.md:98`
  says that a valid discontinuity becomes a typed group request.

Two more behaviours have a configuration that reproduces them, but are not among
the runs:

* `tlc -config RingPop.cfg MCMediaQueues`: `MediaSpscRingQueue::pop`
  (`MediaSpscRingQueue.cpp:163`) reads its flags after an empty `tryPop` and
  without the mutex, so that a push and a close in between end it with "queue
  closed and empty" while a frame is queued. It is the race of `required_input`
  one layer down; `MediaBlockingQueue::pop` decides under its mutex.
* `tlc -config EarlyRetired.cfg MCOutputControl`: `finish()`
  (`MediaRealtimeOutputRunController.cpp:972`) rejects a removal that nobody has
  taken yet, and so reports the output failed and retired and unlists it while its
  branch runs. The comment at line 780 keeps a change busy "until the branch is
  ready or has physically retired".

One was met in modelling and no caller in the source reaches it: under
`DropNonKeyFrame`, `MediaBlockingQueue::push` repeats its wait without leaving
the mutex when the queue is full and closed (state `spins`), and stores a key
frame into a queue that was closed while it waited. `MCSetups` leaves that
combination out and the refinement proof assumes it away (`QueuesUsed`), as every
channel pushes through `pushOutcome`.

## Proofs

`OutputChannelsProofs` and `OutputWakeupProofs` hold for any channels,
capacities, batch shapes, owners and producers, from `ChannelsAssumption`
(positive capacities, shapes over the naturals) alone:

* `TypeCorrect`: `Spec => []TypeOK`; in particular the unsigned counters stay
  naturals although six paths subtract from them;
* `AccountingCorrect`: the counters are the slots of the records;
* `CapacityCorrect`: a commit always finds room;
* `TerminalCorrect` and `DeferredCloseCorrect`: the terminal comes last and a
  deferred close is neither forgotten nor early;
* `ConsumerCorrect` and `ProducerCorrect`: no wakeup is lost on either side.

The inductive invariant of the first five is `CounterInv /\ SizeInv /\ WaitType
/\ CloseInv`. `ReservationsAccounted` is not inductive by itself: a subtraction
is safe only because the record being resolved is among those summed, so
`CounterInv` says that the slot sets are finite, and the lemmas `OneSlots` to
`OwnSlots` say how a sum over records changes when one record joins, leaves or
changes state. `CapacityRespected` then needs the exact counters. `CloseInv`
relates the deferred close, the queue's flag, the consumer's phase and the abort
walk.

The wake-up properties are proved channel by channel on top of it.
`ConsumerInv` extends `ConsumerNotForgotten` to nodes that have looked and are
about to wait: they must have found nothing that is still there, or their wakeup
is set. `ProducerInv` adds to `ProducerNotForgotten` that a parked owner waits
for some channel that was not aborted, because `abort()` wakes it. Each step then
notifies the sleepers of a channel, gives them nothing new, or leaves behind
somebody who is going to notify.

`RuntimeBranchProofs` holds for any nonempty set of workers and any positive
capacity:

* `LifetimeCorrect`: `LifetimeInv` is an invariant;
* `ReleaseCorrect`: `NoUseAfterRelease`;
* `LifecycleCorrect`: the branch implements `BranchLifecycle`;
* `RetirementCorrect`: `CleanRetirement`.

`LifetimeInv` is the type invariant and three more: `MutexHeld` (who holds
`m_publicationMutex` in which step), `WalksInside` (a walk is the middle of an
operation, and in which branch state), `OwnerLast` (the owner is asked only when
every worker has exited, or by the destructor after its walk, and nothing is
cleared before it has joined). The refinement needs it because `poll()` looks at
the workers and sets `Retiring` under the mutex, while workers exit without it.
`CleanInv` adds that as long as no failure is recorded nobody is told to stop, so
that a worker that has left its loop has seen the end of stream behind the last
buffer, and that nothing is accepted behind it.

`OutputControlProofs` holds for any number of outputs (`OutputsAssumption`: at
least one):

* `GroupsCorrect`: `GroupsCounted`, an encoding group is registered as long as
  one of its outputs is, its count is the number of its outputs, and a group that
  drains has none;
* `ListedCorrect`: `ListedIsOwned`, callers can list exactly what the controller
  still owns.

`GroupsCounted` needs to know that what `publishPrepared()` registers is new:
`NewIsAbsent` says that an id which is still to be given out, waits in the mailbox
or is being prepared names neither an output nor a group. With the types and
`Homed` (the group of an output is one that was made) this is `CountInv`.
`OwnInv` rests on it and adds `OneChange`: the controller is busy with one change
at a time, the candidate in preparation and the terminal state that waits belong
to it, and the mailbox is empty meanwhile. So `completeOutput()` can only be
called for the last thing owned for an output.

* `ReportsNeverRevive`: `NeverRevived`, an output reported failed, or retired and
  released, is never again reported alive.

This one is about steps, and needs `SeenInv` on top of the two: an id that is not
given out was never reported, a candidate in preparation was last reported
preparing, or failed once it is too late, and an output that was reported failed
while it waits for its first picture stays late, so that no later `poll()` finds
it running.

`ReacquisitionProofs` holds for any gates and any bounds on generations and
channels (`ActorsAssumption`, `BoundsAssumption`):

* `LayersAlwaysAgree` and `EpochsOpenAfterPurge`: the two safety invariants;
* `ReleasesPublishUnderPermit`, `UnitsEmitUnderPermit`,
  `ReservedActivationsPublish`, `FailuresAreTerminal`: the four action properties.

The inductive invariant `IInv` has the types and five parts. `Mutexes` says which
step keeps which mutex. `RequestInv`: at most one request is in its purges, and
only in phase Purging or after an abort. `PhaseInv` is the centre: for each phase
of the coordinator, what the service's readiness, epoch, permit and purge records
are, and at which step of the sequencer that phase is possible; `LayersAgree` is
not inductive without the purge records, because an acknowledgement is accepted
by comparing them. `SequencerInv` ties the head release to the step that uses it,
and `SchedulerInv` an emission to the open epoch. Everything an action does not
touch is carried over by one frame lemma per part.

`MediaQueuesProofs` and `QueueWaitersProofs` hold for any capacity, frames and
overflow policies, and any finite numbers of producers and consumers
(`QueuesAssumption`, `ThreadsAssumption`; the second is used for counting only):

* `QueueInvariant`: `TypeInv`, the storage stays within its bounds;
* `QueuesAreFifo`: every step is a step of `BoundedFifo` on `Content` or leaves it
  alone; its hypothesis `QueuesUsed` is the exception named under Findings;
* `NobodyIsForgotten`: `NobodyForgotten`.

The refinement rests on lemmas about the three storages that say what push, pop,
erasing at an offset, publishing a batch and clearing do to `Content`: ring
arithmetic with wrap-around, once for each storage. `NobodyForgotten` is not
inductive: with one `notify_one` per push or pop, what keeps a sleeper from being
forgotten is a count. `Served` says that while a producer sleeps there are no more
free slots than producers awake plus consumers about to notify, and the same for
consumers and frames (or a batch is about to be announced).

`WorkerGroupProofs` holds for any number of workers and any kinds of wait
(`NAssumption`, `WaitsAssumption`):

* `PrimaryIsNeverCancellation`, `TeardownsFollowExit`, `StopsHarvestFailures`,
  `PrimaryIsReported`: the four safety invariants, from `WorkerInvariant`.

The first half is about the programs alone, whatever `N`: each marks a worker
before the step that wakes or interrupts it, and every worker before it wakes all
of them or shuts the channels (`InOrder`); `stop()` and `abort()` join every
worker before the step that ends them (`Finishes`). The invariant `Inv` carries
this to what is left of a program while others run: `MarkInv` (`Ordered`: what a
step needs marked is marked already or by an earlier step that is left; whoever
is interrupted, or finds a channel shut, is marked), `CallInv` (`Proceeds`: what
is left starts only workers that are new, or joins all that have not exited),
`FailInv` (the primary failure is counted by the worker that recorded it, or is
about to be) and `EndInv` (what holds between calls). `StopHarvestsFailures` needs all of them: a stop that
finds no error count has joined everybody, so nobody is between recording a
failure and counting it.

**Only model-checked.** All liveness: the proof system has no support for
fairness. All of `PayloadCredit`: `CreditsAccounted`, `NoStrandedWaiter` and
`AdmissionRepresentable` speak of sums over sequences of demands and of the
promotion loop, which goes over the waiters again until a pass grants nobody;
what it computes for every input needs induction over data, which is out of the
provers' reach.

## Not modelled

* *Startup preparation and barriers* (`sync/startup`, `nodes/sync`): when media
  may be released is decided by its timestamps, and three nodes hand reservations
  to one another; only the release decision that `Reacquisition` needs is there.
  That `purge()` clears maps another worker fills is a data race in the containers
  and out of a model's reach.
* *Audio drift controller*: it keeps the epoch service's mutex across `process()`
  calls; when, depends on the resampler. Drift, clock lock and lineage are numeric.
* *Transmit session* and *beta session*: one layer below and one above what is
  modelled; each a sequential state machine around a socket or a handle.
* *Fan-out over several branches*: `RuntimeBranch` has one branch; the list of
  subscriptions and the random-access gate of a new one are left out.
* *Planner, presets, graph model, validation, builder, factory*: run once on one
  thread before anything else exists.
* *Protocol formats, FFmpeg and GPU adapters, buffers, telemetry, tools*:
  conversions, external state or reporting.
* *Windows wakeups*: the event and timer body of `MediaNodeWakeup::wait` is
  abstracted to the POSIX one.
* *The single-threaded scheduler* is not on the realtime path.

Metrics, byte accounting, affinity and log messages are left out everywhere.
About a third of the source tree, by lines, is third-party code; most of the rest
is planner tables, protocol formats and adapters of the kinds above.
