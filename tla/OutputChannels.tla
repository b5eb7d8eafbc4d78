---------------------------- MODULE OutputChannels ----------------------------
(***************************************************************************)
(* The channels between graph nodes and the output transactions that       *)
(* publish into several of them at once:                                    *)
(*                                                                         *)
(*   MediaChannel + MediaBlockingQueue   one bounded FIFO per edge, with    *)
(*                                       deferred close and a terminal cell *)
(*   MediaReservedOutputTransaction      reserve / authorize / commit /     *)
(*                                       cancel over several channels       *)
(*   MediaAtomicOutputTransaction        acquire + commit in one go         *)
(*   tryReadRequiredInput                the consumer's non-blocking read   *)
(*                                                                         *)
(* What is inside one critical section (m_mutationMutex of every channel    *)
(* concerned) is one action.  What the code does after it has unlocked (the *)
(* notifications of commit and cancel, the second half of a blocking pop,   *)
(* the aborted() and closed() calls of the reader) is an action of its own. *)
(*                                                                         *)
(* Media buffers of one channel are not told apart: a queue is its length.  *)
(* clear() is left out: it runs only once the workers have been joined.     *)
(***************************************************************************)
EXTENDS Integers, FiniteSets

CONSTANTS Channels,   \* the channels of one graph
          Txns,       \* owners of an output transaction (graph nodes)
          Producers,  \* threads that push single buffers
          Capacity,   \* Capacity[c]: m_policy.queuePolicy.capacity
          Shapes,     \* the batch sizes a transaction may ask for, per channel
          Poppers     \* channels whose consumer node reads with blocking pop()

ASSUME ChannelsAssumption ==
    /\ Capacity \in [Channels -> Nat \ {0}]
    /\ Shapes \subseteq [Channels -> Nat]
    /\ Poppers \subseteq Channels

VARIABLES
    size,            \* buffers in the queue of each channel
    qClosed,         \* MediaBlockingQueue::m_closed
    qAborted,        \* MediaBlockingQueue::m_aborted
    closeRequested,  \* MediaChannel::m_closeRequested
    terminal,        \* MediaChannel::m_terminal holds the EOF buffer
    reserved,        \* MediaChannel::m_reservedCapacity
    authorized,      \* MediaChannel::m_authorizedCapacity
    txn,             \* state of the owner's reservation record
    need,            \* buffers the record holds or asks for, per channel
    signal,          \* channels the owner still has to notify, locks released
    parkedTxn,       \* owners waiting on their node wakeup for room
    blockedOn,       \* producers inside push(), waiting on m_mutationChanged
    parkedOn,        \* producers whose node waits on the producer wakeup
    cons,            \* what the consumer of each channel is doing
    wake,            \* consumer wakeup notified since the consumer last read
    toAbort          \* channels abortChannels has still to visit

account == <<size, qClosed, qAborted, closeRequested, terminal, reserved,
             authorized, txn, need>>
waiting == <<signal, parkedTxn, blockedOn, parkedOn, cons, wake, toAbort>>
vars == <<account, waiting>>

TxnState == {"none", "pending", "authorized", "committed", "cancelled"}

(* Consumer: "ready" to read, "empty" after a failed tryPop, "live" after     *)
(* aborted() said no, "parked" on the node wakeup; "popping", "blocked" inside *)
(* MediaBlockingQueue::pop, "popped" and "missed" after it; "ended" got the    *)
(* terminal, "closedOut" and "abortedOut" were told there is nothing more.     *)
ConsumerState == {"ready", "empty", "live", "parked", "popping", "blocked",
                  "popped", "missed", "ended", "closedOut", "abortedOut"}

-----------------------------------------------------------------------------
(* Notifications.                                                          *)

Touched(n) == {c \in Channels : n[c] > 0}

\* m_consumerWakeup->notify() for the channels in S: a parked node runs again.
WakeConsumers(cs, S) ==
    [c \in Channels |->
        IF c \in S /\ cs[c] = "parked" THEN "ready" ELSE cs[c]]

\* m_notEmpty.notify for the queues in S: a blocked pop looks again.
WakePoppers(cs, S) ==
    [c \in Channels |->
        IF c \in S /\ cs[c] = "blocked" THEN "popping" ELSE cs[c]]

\* Mutant: the consumer wakeup is not notified.
NotifyConsumers_PoppersOnly(S) ==
    cons' = WakePoppers(cons, S) /\ UNCHANGED wake

\* consumer wakeup and m_notEmpty together, and the sequence the node observes.
NotifyConsumers(S) ==
    /\ cons' = WakePoppers(WakeConsumers(cons, S), S)
    /\ wake' = [c \in Channels |-> wake[c] \/ c \in S]

\* Mutant: a blocked push() is never told.
SignalMutationWaiters_Never(S) == UNCHANGED blockedOn

\* signalMutationWaiters(): every push() blocked on the channel tries again.
SignalMutationWaiters(S) ==
    blockedOn' = [c \in Channels |-> IF c \in S THEN {} ELSE blockedOn[c]]

\* Mutant: nodes that wait for a reservation are left asleep.
NotifyProducers_ChannelOnly(S) ==
    /\ parkedOn' = [c \in Channels |-> IF c \in S THEN {} ELSE parkedOn[c]]
    /\ UNCHANGED parkedTxn

\* m_producerWakeup->notify(): nodes that wait for room run again.
NotifyProducers(S) ==
    /\ parkedOn' = [c \in Channels |-> IF c \in S THEN {} ELSE parkedOn[c]]
    /\ parkedTxn' = {t \in parkedTxn : Touched(need[t]) \cap S = {}}

-----------------------------------------------------------------------------
(* Single buffers: MediaChannel::push and pushOutcome.                     *)

Open(c) == ~qAborted[c] /\ ~qClosed[c] /\ ~closeRequested[c]

\* Mutant: reserved slots are not respected.
HasRoom_QueueOnly(c) == size[c] < Capacity[c]

\* pushOutcomeLocked, then MediaBlockingQueue::pushOutcome under BlockProducer.
HasRoom(c) ==
    /\ reserved[c] # 0 => ~(\/ reserved[c] > Capacity[c]
                            \/ size[c] >= Capacity[c] - reserved[c])
    /\ size[c] < Capacity[c]

Idle(p) == \A c \in Channels : p \notin blockedOn[c] /\ p \notin parkedOn[c]

PushAccepted(p, c) ==
    /\ Idle(p) /\ Open(c) /\ HasRoom(c)
    /\ size' = [size EXCEPT ![c] = @ + 1]
    /\ NotifyConsumers({c})
    /\ SignalMutationWaiters({c})
    /\ UNCHANGED <<qClosed, qAborted, closeRequested, terminal, reserved,
                   authorized, txn, need, signal, parkedTxn, parkedOn, toAbort>>

\* WouldBlock: push() waits for a mutation, a node that called pushOutcome
\* keeps the buffer and waits for its producer wakeup.
PushWouldBlock(p, c) ==
    /\ Idle(p) /\ Open(c) /\ ~HasRoom(c)
    /\ \/ /\ blockedOn' = [blockedOn EXCEPT ![c] = @ \cup {p}]
          /\ UNCHANGED parkedOn
       \/ /\ parkedOn' = [parkedOn EXCEPT ![c] = @ \cup {p}]
          /\ UNCHANGED blockedOn
    /\ UNCHANGED <<account, signal, parkedTxn, cons, wake, toAbort>>

-----------------------------------------------------------------------------
(* Consumers: tryPop, pop, tryReadRequiredInput.                           *)

\* Mutant: the terminal does not wait for authorized media.
TerminalReady_Early(c) == terminal[c] /\ ~qAborted[c] /\ size[c] = 0

\* popTerminalLocked's condition.
TerminalReady(c) ==
    terminal[c] /\ ~qAborted[c] /\ authorized[c] = 0 /\ size[c] = 0

TryPopBuffer(c) ==
    /\ c \notin Poppers /\ cons[c] = "ready" /\ size[c] > 0
    /\ size' = [size EXCEPT ![c] = @ - 1]
    /\ SignalMutationWaiters({c}) /\ NotifyProducers({c})
    /\ UNCHANGED <<qClosed, qAborted, closeRequested, terminal, reserved,
                   authorized, txn, need, signal, cons, wake, toAbort>>

TryPopTerminal(c) ==
    /\ c \notin Poppers /\ cons[c] = "ready" /\ TerminalReady(c)
    /\ terminal' = [terminal EXCEPT ![c] = FALSE]
    /\ cons' = [cons EXCEPT ![c] = "ended"]
    /\ SignalMutationWaiters({c}) /\ NotifyProducers({c})
    /\ UNCHANGED <<size, qClosed, qAborted, closeRequested, reserved,
                   authorized, txn, need, signal, wake, toAbort>>

\* tryPop returned false; the worker had observed the wakeup sequence before.
TryPopNothing(c) ==
    /\ c \notin Poppers /\ cons[c] = "ready" /\ size[c] = 0 /\ ~TerminalReady(c)
    /\ cons' = [cons EXCEPT ![c] = "empty"]
    /\ wake' = [wake EXCEPT ![c] = FALSE]
    /\ UNCHANGED <<account, signal, parkedTxn, blockedOn, parkedOn, toAbort>>

\* tryReadRequiredInput goes on with aborted(), under a lock of its own.
ReadAborted(c) ==
    /\ cons[c] = "empty"
    /\ cons' = [cons EXCEPT ![c] = IF qAborted[c] THEN "abortedOut" ELSE "live"]
    /\ UNCHANGED <<account, signal, parkedTxn, blockedOn, parkedOn, wake, toAbort>>

\* MediaChannel::closed().
ChannelClosed(c) == qClosed[c] /\ ~terminal[c] /\ authorized[c] = 0

\* ... and with closed(); nullopt makes the node wait unless it was notified.
ReadClosed(c) ==
    /\ cons[c] = "live"
    /\ cons' = [cons EXCEPT ![c] =
                   IF ChannelClosed(c) THEN "closedOut"
                   ELSE IF wake[c] THEN "ready" ELSE "parked"]
    /\ UNCHANGED <<account, signal, parkedTxn, blockedOn, parkedOn, wake, toAbort>>

\* An input that is not required: the node waits without asking further.
ReadOptional(c) ==
    /\ cons[c] = "empty"
    /\ cons' = [cons EXCEPT ![c] = IF wake[c] THEN "ready" ELSE "parked"]
    /\ UNCHANGED <<account, signal, parkedTxn, blockedOn, parkedOn, wake, toAbort>>

BeginPop(c) ==
    /\ c \in Poppers /\ cons[c] = "ready"
    /\ cons' = [cons EXCEPT ![c] = "popping"]
    /\ UNCHANGED <<account, signal, parkedTxn, blockedOn, parkedOn, wake, toAbort>>

\* MediaBlockingQueue::pop holds the queue mutex only, not m_mutationMutex.
QueuePopWaits(c) ==
    /\ cons[c] = "popping" /\ size[c] = 0 /\ ~qClosed[c] /\ ~qAborted[c]
    /\ cons' = [cons EXCEPT ![c] = "blocked"]
    /\ UNCHANGED <<account, signal, parkedTxn, blockedOn, parkedOn, wake, toAbort>>

QueuePopTakes(c) ==
    /\ cons[c] = "popping" /\ size[c] > 0 /\ ~qAborted[c]
    /\ size' = [size EXCEPT ![c] = @ - 1]
    /\ cons' = [cons EXCEPT ![c] = "popped"]
    /\ UNCHANGED <<qClosed, qAborted, closeRequested, terminal, reserved,
                   authorized, txn, need, signal, parkedTxn, blockedOn,
                   parkedOn, wake, toAbort>>

QueuePopFails(c) ==
    /\ cons[c] = "popping"
    /\ qAborted[c] \/ (size[c] = 0 /\ qClosed[c])
    /\ cons' = [cons EXCEPT ![c] = "missed"]
    /\ UNCHANGED <<account, signal, parkedTxn, blockedOn, parkedOn, wake, toAbort>>

FinishPopBuffer(c) ==
    /\ cons[c] = "popped"
    /\ cons' = [cons EXCEPT ![c] = "ready"]
    /\ SignalMutationWaiters({c}) /\ NotifyProducers({c})
    /\ UNCHANGED <<account, signal, wake, toAbort>>

FinishPopTerminal(c) ==
    /\ cons[c] = "missed" /\ TerminalReady(c)
    /\ terminal' = [terminal EXCEPT ![c] = FALSE]
    /\ cons' = [cons EXCEPT ![c] = "ended"]
    /\ SignalMutationWaiters({c}) /\ NotifyProducers({c})
    /\ UNCHANGED <<size, qClosed, qAborted, closeRequested, reserved,
                   authorized, txn, need, signal, wake, toAbort>>

FinishPopFailed(c) ==
    /\ cons[c] = "missed" /\ ~TerminalReady(c)
    /\ cons' = [cons EXCEPT ![c] =
                   IF qAborted[c] THEN "abortedOut" ELSE "closedOut"]
    /\ UNCHANGED <<account, signal, parkedTxn, blockedOn, parkedOn, wake, toAbort>>

-----------------------------------------------------------------------------
(* Close, terminal close, and abortChannels.                               *)

Close(c) ==
    /\ closeRequested' = [closeRequested EXCEPT ![c] = TRUE]
    /\ qClosed' = [qClosed EXCEPT ![c] = @ \/ authorized[c] = 0]
    /\ NotifyConsumers({c}) /\ NotifyProducers({c}) /\ SignalMutationWaiters({c})
    /\ UNCHANGED <<size, qAborted, terminal, reserved, authorized, txn, need,
                   signal, toAbort>>

CloseWithTerminal(c) ==
    /\ Open(c)
    /\ terminal' = [terminal EXCEPT ![c] = TRUE]
    /\ closeRequested' = [closeRequested EXCEPT ![c] = TRUE]
    /\ qClosed' = [qClosed EXCEPT ![c] = authorized[c] = 0]
    /\ NotifyConsumers({c}) /\ NotifyProducers({c}) /\ SignalMutationWaiters({c})
    /\ UNCHANGED <<size, qAborted, reserved, authorized, txn, need, signal,
                   toAbort>>

\* MediaGraphLifecycle::abortChannels visits the channels one after the other.
AbortChannels ==
    /\ toAbort = {} /\ \E c \in Channels : ~qAborted[c]
    /\ toAbort' = Channels
    /\ UNCHANGED <<account, signal, parkedTxn, blockedOn, parkedOn, cons, wake>>

Abort(c) ==
    /\ c \in toAbort
    /\ toAbort' = toAbort \ {c}
    /\ closeRequested' = [closeRequested EXCEPT ![c] = TRUE]
    /\ terminal' = [terminal EXCEPT ![c] = FALSE]
    /\ qAborted' = [qAborted EXCEPT ![c] = TRUE]
    /\ qClosed' = [qClosed EXCEPT ![c] = TRUE]
    /\ NotifyConsumers({c}) /\ NotifyProducers({c}) /\ SignalMutationWaiters({c})
    /\ UNCHANGED <<size, reserved, authorized, txn, need, signal>>

-----------------------------------------------------------------------------
(* Transactions over several channels.                                     *)

\* The capacity test shared by reserve() and acquire().
Fits(n, c) ==
    ~(\/ n[c] > Capacity[c]
      \/ reserved[c] > Capacity[c] - n[c]
      \/ size[c] > Capacity[c] - n[c] - reserved[c])

\* The slots that the records of T hold in channel c, one element per slot.
Slots(T, n, c) == UNION {{t} \X (1 .. n[t][c]) : t \in T}

Runnable(t) == txn[t] = "none" /\ t \notin parkedTxn

Reserve(t, n) ==
    /\ Runnable(t) /\ Touched(n) # {}
    /\ \A c \in Touched(n) : Open(c) /\ Fits(n, c)
    /\ reserved' = [c \in Channels |-> reserved[c] + n[c]]
    /\ txn' = [txn EXCEPT ![t] = "pending"]
    /\ need' = [need EXCEPT ![t] = n]
    /\ UNCHANGED <<size, qClosed, qAborted, closeRequested, terminal,
                   authorized, waiting>>

\* reserve() or acquire() returned nullopt: processWaiting.  The channels are
\* tested in the order of their identities, so another one may be closed.
NoRoom(t, n) ==
    /\ Runnable(t)
    /\ \E c \in Touched(n) : Open(c) /\ ~Fits(n, c)
    /\ need' = [need EXCEPT ![t] = n]
    /\ parkedTxn' = parkedTxn \cup {t}
    /\ UNCHANGED <<size, qClosed, qAborted, closeRequested, terminal, reserved,
                   authorized, txn, signal, blockedOn, parkedOn, cons, wake,
                   toAbort>>

\* MediaAtomicOutputTransaction: acquire and commit under the same locks.
AtomicOutput(t, n) ==
    /\ Runnable(t) /\ Touched(n) # {}
    /\ \A c \in Touched(n) : Open(c) /\ Fits(n, c)
    /\ size' = [c \in Channels |-> size[c] + n[c]]
    /\ txn' = [txn EXCEPT ![t] = "committed"]
    /\ need' = [need EXCEPT ![t] = n]
    /\ signal' = [signal EXCEPT ![t] = Touched(n)]
    /\ UNCHANGED <<qClosed, qAborted, closeRequested, terminal, reserved,
                   authorized, parkedTxn, blockedOn, parkedOn, cons, wake,
                   toAbort>>

\* authorize(): several records at once, all pending, every channel still open;
\* the authorization callback succeeded.
Authorize(H) ==
    /\ H # {}
    /\ \A t \in H : /\ txn[t] = "pending"
                    /\ \A c \in Touched(need[t]) :
                          Open(c) /\ reserved[c] >= need[t][c]
    /\ txn' = [t \in Txns |-> IF t \in H THEN "authorized" ELSE txn[t]]
    /\ authorized' = [c \in Channels |->
                        authorized[c] + Cardinality(Slots(H, need, c))]
    /\ UNCHANGED <<size, qClosed, qAborted, closeRequested, terminal, reserved,
                   need, waiting>>

\* commit(): publish everything, release the reservation, finish a deferred
\* close; the notifications follow with the locks released.
Commit(t) ==
    /\ txn[t] = "authorized"
    /\ \A c \in Touched(need[t]) : ~qAborted[c]
    /\ size' = [c \in Channels |-> size[c] + need[t][c]]
    /\ reserved' = [c \in Channels |-> reserved[c] - need[t][c]]
    /\ authorized' = [c \in Channels |-> authorized[c] - need[t][c]]
    /\ qClosed' = [c \in Channels |->
                     qClosed[c] \/ (/\ c \in Touched(need[t])
                                    /\ closeRequested[c]
                                    /\ authorized[c] - need[t][c] = 0)]
    /\ txn' = [txn EXCEPT ![t] = "committed"]
    /\ signal' = [signal EXCEPT ![t] = Touched(need[t])]
    /\ UNCHANGED <<qAborted, closeRequested, terminal, need, parkedTxn,
                   blockedOn, parkedOn, cons, wake, toAbort>>

\* commit() finds one of its queues aborted: the whole reservation is released,
\* nothing is published and nobody is notified.
CommitAborted(t) ==
    /\ txn[t] = "authorized"
    /\ \E c \in Touched(need[t]) : qAborted[c]
    /\ reserved' = [c \in Channels |-> reserved[c] - need[t][c]]
    /\ authorized' = [c \in Channels |-> authorized[c] - need[t][c]]
    /\ txn' = [txn EXCEPT ![t] = "cancelled"]
    /\ UNCHANGED <<size, qClosed, qAborted, closeRequested, terminal, need,
                   waiting>>

\* Mutant: a cancelled record keeps its authorized slots.
AuthorizedBy_Forgotten(t, c) == 0

\* what cancel() takes off m_authorizedCapacity.
AuthorizedBy(t, c) == IF txn[t] = "authorized" THEN need[t][c] ELSE 0

\* Mutant: a deferred close is not finished by a cancel.
FinalizedBy_Never(t) == {}

\* finalizeDeferredCloseLocked closes these channels once t's slots are released.
FinalizedBy(t) ==
    {c \in Touched(need[t]) :
        /\ closeRequested[c] /\ ~qClosed[c] /\ ~qAborted[c]
        /\ authorized[c] - AuthorizedBy(t, c) = 0}

\* cancel(), also the destructor of a live transaction.
Cancel(t) ==
    /\ txn[t] \in {"pending", "authorized"}
    /\ reserved' = [c \in Channels |-> reserved[c] - need[t][c]]
    /\ authorized' = [c \in Channels |-> authorized[c] - AuthorizedBy(t, c)]
    /\ qClosed' = [c \in Channels |-> qClosed[c] \/ c \in FinalizedBy(t)]
    /\ txn' = [txn EXCEPT ![t] = "cancelled"]
    /\ signal' = [signal EXCEPT ![t] = Touched(need[t])]
    /\ NotifyConsumers(FinalizedBy(t))
    /\ SignalMutationWaiters(FinalizedBy(t))
    /\ UNCHANGED <<size, qAborted, closeRequested, terminal, need, parkedTxn,
                   parkedOn, toAbort>>

\* notifyPreparedPublished and publishAcceptedMutation for one channel.
SignalPublished(t, c) ==
    /\ txn[t] = "committed" /\ c \in signal[t]
    /\ signal' = [signal EXCEPT ![t] = @ \ {c}]
    /\ NotifyConsumers({c}) /\ SignalMutationWaiters({c})
    /\ UNCHANGED <<account, parkedTxn, parkedOn, toAbort>>

\* publishReservedCapacityMutation for one channel.
SignalReleased(t, c) ==
    /\ txn[t] = "cancelled" /\ c \in signal[t]
    /\ signal' = [signal EXCEPT ![t] = @ \ {c}]
    /\ NotifyProducers({c}) /\ SignalMutationWaiters({c})
    /\ UNCHANGED <<account, cons, wake, toAbort>>

\* The owner drops the finished transaction object.
Release(t) ==
    /\ txn[t] \in {"committed", "cancelled"} /\ signal[t] = {}
    /\ txn' = [txn EXCEPT ![t] = "none"]
    /\ UNCHANGED <<size, qClosed, qAborted, closeRequested, terminal, reserved,
                   authorized, need, waiting>>

-----------------------------------------------------------------------------
Init ==
    /\ size = [c \in Channels |-> 0]
    /\ qClosed = [c \in Channels |-> FALSE]
    /\ qAborted = [c \in Channels |-> FALSE]
    /\ closeRequested = [c \in Channels |-> FALSE]
    /\ terminal = [c \in Channels |-> FALSE]
    /\ reserved = [c \in Channels |-> 0]
    /\ authorized = [c \in Channels |-> 0]
    /\ txn = [t \in Txns |-> "none"]
    /\ need = [t \in Txns |-> [c \in Channels |-> 0]]
    /\ signal = [t \in Txns |-> {}]
    /\ parkedTxn = {}
    /\ blockedOn = [c \in Channels |-> {}]
    /\ parkedOn = [c \in Channels |-> {}]
    /\ cons = [c \in Channels |-> "ready"]
    /\ wake = [c \in Channels |-> FALSE]
    /\ toAbort = {}

Consume(c) ==
    \/ TryPopBuffer(c) \/ TryPopTerminal(c) \/ TryPopNothing(c)
    \/ ReadAborted(c) \/ ReadClosed(c) \/ ReadOptional(c)
    \/ BeginPop(c) \/ QueuePopWaits(c) \/ QueuePopTakes(c) \/ QueuePopFails(c)
    \/ FinishPopBuffer(c) \/ FinishPopTerminal(c) \/ FinishPopFailed(c)

Resolve(t) == Commit(t) \/ CommitAborted(t) \/ Cancel(t)

Notify(t) ==
    \/ \E c \in Channels : SignalPublished(t, c) \/ SignalReleased(t, c)
    \/ Release(t)

Next ==
    \/ \E p \in Producers, c \in Channels :
          PushAccepted(p, c) \/ PushWouldBlock(p, c)
    \/ \E c \in Channels :
          Consume(c) \/ Close(c) \/ CloseWithTerminal(c) \/ Abort(c)
    \/ AbortChannels
    \/ \E t \in Txns, n \in Shapes :
          Reserve(t, n) \/ NoRoom(t, n) \/ AtomicOutput(t, n)
    \/ \E H \in SUBSET Txns : Authorize(H)
    \/ \E t \in Txns : Resolve(t) \/ Notify(t)

Spec == Init /\ [][Next]_vars

(* Every worker thread keeps running, a transaction is finished or destroyed, *)
(* and abortChannels visits every channel once it has begun.                 *)
Fairness ==
    /\ \A c \in Channels : WF_vars(Consume(c)) /\ WF_vars(Abort(c))
    /\ \A t \in Txns : WF_vars(Resolve(t)) /\ WF_vars(Notify(t))

FairSpec == Spec /\ Fairness

-----------------------------------------------------------------------------
(* What the channels and the transactions promise.                         *)

(* Every variable keeps its type; the unsigned m_reservedCapacity and          *)
(* m_authorizedCapacity never go below zero.                                   *)
TypeOK ==
    /\ size \in [Channels -> Nat]
    /\ qClosed \in [Channels -> BOOLEAN]
    /\ qAborted \in [Channels -> BOOLEAN]
    /\ closeRequested \in [Channels -> BOOLEAN]
    /\ terminal \in [Channels -> BOOLEAN]
    /\ reserved \in [Channels -> Nat]
    /\ authorized \in [Channels -> Nat]
    /\ txn \in [Txns -> TxnState]
    /\ need \in [Txns -> [Channels -> Nat]]
    /\ signal \in [Txns -> SUBSET Channels]
    /\ parkedTxn \subseteq Txns
    /\ blockedOn \in [Channels -> SUBSET Producers]
    /\ parkedOn \in [Channels -> SUBSET Producers]
    /\ cons \in [Channels -> ConsumerState]
    /\ wake \in [Channels -> BOOLEAN]
    /\ toAbort \subseteq Channels

Live == {"pending", "authorized"}
InState(S) == {t \in Txns : txn[t] \in S}

(* The slots that records in one of the states S hold in channel c.           *)
Held(S, c) == Slots(InState(S), need, c)

(* Queued buffers and reserved slots together never exceed the capacity of    *)
(* the bounded queue, so a commit can always publish without waiting: push,   *)
(* acquire and reserve all respect the slots of the others.                   *)
CapacityRespected ==
    \A c \in Channels : size[c] + reserved[c] <= Capacity[c]

(* m_reservedCapacity and m_authorizedCapacity are exactly the slots of the   *)
(* live and of the authorized records, whatever mix of authorize, commit,     *)
(* failed commit, cancel and abort has happened: none is leaked, none is      *)
(* given back twice and the unsigned counters never wrap.                     *)
ReservationsAccounted ==
    \A c \in Channels :
        /\ reserved[c] = Cardinality(Held(Live, c))
        /\ authorized[c] = Cardinality(Held({"authorized"}, c))

(* "Expose exactly one terminal after all accepted and already-authorized     *)
(* media" (MediaChannel.h): once the consumer has the terminal the queue is   *)
(* empty, no authorized batch can still arrive and no second terminal waits.  *)
TerminalLast ==
    \A c \in Channels :
        cons[c] = "ended" =>
            size[c] = 0 /\ authorized[c] = 0 /\ ~terminal[c] /\ closeRequested[c]

(* A close that was deferred for authorized media takes effect with the last  *)
(* of it, or abortChannels is about to reach the channel; and a queue is not  *)
(* closed in front of authorized media unless it was aborted.                 *)
DeferredClose ==
    \A c \in Channels :
        /\ closeRequested[c] /\ authorized[c] = 0 => qClosed[c] \/ c \in toAbort
        /\ qClosed[c] /\ ~qAborted[c] => authorized[c] = 0

(* A notification for channel c that its sender still has to deliver.         *)
Pending(S, c) == \E t \in Txns : txn[t] \in S /\ c \in signal[t]

(* No node sleeps on media or on the terminal, and no pop() on the end of its *)
(* input, unless a commit that has unlocked is about to notify it or          *)
(* abortChannels is about to reach the channel.                               *)
ConsumerNotForgotten ==
    \A c \in Channels :
        ~Pending({"committed"}, c) /\ c \notin toAbort =>
            /\ cons[c] = "parked" => size[c] = 0 /\ ~TerminalReady(c)
            /\ cons[c] = "blocked" => size[c] = 0 /\ ~qClosed[c]

(* No producer sleeps in push() and no node sleeps on a reservation that      *)
(* would now succeed, unless the one who made room is about to notify it or   *)
(* abortChannels is about to reach the channel.                               *)
ProducerNotForgotten ==
    /\ \A c \in Channels :
          blockedOn[c] \cup parkedOn[c] # {} /\ (HasRoom(c) \/ ~Open(c)) =>
              cons[c] = "popped" \/ Pending({"cancelled"}, c) \/ c \in toAbort
    /\ \A t \in parkedTxn :
          (\A c \in Touched(need[t]) : Fits(need[t], c)) =>
              \E c \in Touched(need[t]) :
                  cons[c] = "popped" \/ Pending({"cancelled"}, c) \/ c \in toAbort

(* A terminal that was stored reaches the consumer, or the channel is aborted.*)
TerminalDelivered ==
    \A c \in Channels : terminal[c] ~> (cons[c] = "ended" \/ qAborted[c])

(* Every push() that waits gets another try: room is made and announced, so   *)
(* that again and again nobody is left waiting.                               *)
BlockedPushRetries ==
    \A c \in Channels : []<>(blockedOn[c] = {})

(* README.md:130 "EOF drains codec state and all sinks": a reader that        *)
(* reports "required input closed before a buffer was available"              *)
(* (MediaRequiredInputReader.cpp:52) leaves no accepted buffer behind.        *)
ClosedMeansDrained ==
    \A c \in Channels : cons[c] = "closedOut" => size[c] = 0
=============================================================================
