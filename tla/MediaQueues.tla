----------------------------- MODULE MediaQueues -----------------------------
(***************************************************************************)
(* The two classes MediaQueueFactory chooses from, with their storage and   *)
(* the threads inside them:                                                 *)
(*                                                                         *)
(*   "spsc"      MediaSpscRingQueue (also behind MediaSpscQueue): a ring    *)
(*               with one slot kept free, lo = m_read, hi = m_write         *)
(*   "deque"     MediaBlockingQueue over MediaBlockingQueueStorage, Deque   *)
(*   "prepared"  the same over its AtomicPrepared ring: lo = m_ringHead,    *)
(*               hi = m_ringSize                                            *)
(*                                                                         *)
(* A critical section of m_mutex is one action.  A thread between two of    *)
(* them, or notifying after it has unlocked, is in a state of its own.      *)
(* The counters of MediaQueueMetrics are left out; capacity 0 (replaced by  *)
(* 16 in the ring, unbounded in the deque) is left out too.                 *)
(***************************************************************************)
EXTENDS Integers, Sequences, FiniteSets

CONSTANTS Frames, KeyFrames,  \* buffers, and those that are key frames
          NoFrame,            \* an empty slot
          Capacity,           \* m_policy.capacity
          Producers, Consumers,
          Setups              \* queue policies to build: see SetupType

Kinds == {"spsc", "deque", "prepared"}
Policies == {"BlockProducer", "DropNewest", "DropOldest", "DropNonKeyFrame",
             "Abort"}

\* direct: whether producers use push(), which waits, or pushOutcome() only, as
\* MediaChannel does.
SetupType == [kind : Kinds, policy : Policies, direct : BOOLEAN]

ASSUME QueuesAssumption ==
    /\ Capacity \in Nat \ {0}
    /\ KeyFrames \subseteq Frames /\ NoFrame \notin Frames
    /\ Setups \subseteq SetupType

ASSUME ThreadsAssumption == IsFiniteSet(Producers) /\ IsFiniteSet(Consumers)

VARIABLES
    setup,     \* the policy the queue was built with
    store,     \* the storage: deque, or cells with its two indices
    closed,    \* m_closed
    aborted,   \* m_aborted
    prod,      \* where each producer is
    frame,     \* the buffer each producer is pushing
    cons,      \* where each consumer is
    announce   \* published batches still to be notified (m_notEmpty)

vars == <<setup, store, closed, aborted, prod, frame, cons, announce>>

(* Producers: "try" has called push(), "check" is about to evaluate the       *)
(* predicate of its wait on m_notFull, "asleep" waits, "signal" has unlocked   *)
(* and will notify m_notEmpty, "spins" repeats the wait with the mutex held.   *)
ProducerState == {"idle", "try", "check", "asleep", "signal", "spins"}

(* Consumers: "try" has called pop(), "flagA" and "flagC" read m_aborted and   *)
(* m_closed without the mutex, "check", "asleep" and "signal" as above on      *)
(* m_notEmpty; "closedOut" was told "queue closed and empty".                  *)
ConsumerState == {"idle", "try", "flagA", "flagC", "check", "asleep",
                  "signal", "closedOut", "abortedOut"}

Kind == setup.kind

-----------------------------------------------------------------------------
(* The storage.                                                            *)

\* m_ring.size(): the SPSC ring has one slot more than it may hold.
Slots == IF Kind = "spsc" THEN Capacity + 1 ELSE Capacity

\* next() and ringIndex(): the index a number of slots further on.
Index(i, offset) == (i + offset) % Slots

Size(s) ==
    CASE Kind = "deque" -> Len(s.deque)
      [] Kind = "prepared" -> s.hi
      [] Kind = "spsc" -> IF s.hi >= s.lo THEN s.hi - s.lo
                                          ELSE Slots - s.lo + s.hi

At(s, offset) ==
    IF Kind = "deque" THEN s.deque[offset + 1] ELSE s.cells[Index(s.lo, offset)]

Empty(s) == IF Kind = "spsc" THEN s.hi = s.lo ELSE Size(s) = 0
Full(s) ==
    IF Kind = "spsc" THEN Index(s.hi, 1) = s.lo ELSE Size(s) >= Capacity

PushBack(s, f) ==
    CASE Kind = "deque" -> [s EXCEPT !.deque = Append(@, f)]
      [] Kind = "prepared" -> [s EXCEPT !.cells[Index(s.lo, s.hi)] = f,
                                        !.hi = @ + 1]
      [] Kind = "spsc" -> [s EXCEPT !.cells[s.hi] = f, !.hi = Index(@, 1)]

PopFront(s) ==
    CASE Kind = "deque" -> [s EXCEPT !.deque = Tail(@)]
      [] Kind = "prepared" -> [s EXCEPT !.cells[s.lo] = NoFrame,
                                        !.lo = IF s.hi = 1 THEN 0
                                               ELSE Index(@, 1),
                                        !.hi = @ - 1]
      [] Kind = "spsc" -> [s EXCEPT !.cells[s.lo] = NoFrame,
                                    !.lo = Index(@, 1)]

\* the slots of the offsets first .. last
Window(s, first, last) == {Index(s.lo, o) : o \in first .. last}

\* Mutant: the frames before the victim stay where they are.
Erase_NoShift(s, offset) ==
    IF Kind = "spsc" THEN PopFront(s)
    ELSE IF Kind = "deque"
         THEN [s EXCEPT !.deque = SubSeq(@, 1, offset) \o SubSeq(@, offset + 2, Len(@))]
    ELSE [s EXCEPT !.hi = @ - 1]

\* The storage closes the gap from behind, the SPSC ring from the front:
\* dropOldestNonKeyFrame moves the frames before the victim up by one slot.
Erase(s, offset) ==
    CASE Kind = "deque" ->
            [s EXCEPT !.deque = SubSeq(@, 1, offset) \o SubSeq(@, offset + 2, Len(@))]
      [] Kind = "prepared" ->
            [s EXCEPT !.cells = [i \in DOMAIN s.cells |->
                                   IF i = Index(s.lo, s.hi - 1) THEN NoFrame
                                   ELSE IF i \in Window(s, offset, s.hi - 1)
                                        THEN s.cells[Index(i, 1)]
                                   ELSE s.cells[i]],
                      !.hi = @ - 1,
                      !.lo = IF s.hi = 1 THEN 0 ELSE @]
      [] Kind = "spsc" ->
            [s EXCEPT !.cells = [i \in DOMAIN s.cells |->
                                   IF i = s.lo THEN NoFrame
                                   ELSE IF i \in Window(s, 1, offset)
                                        THEN s.cells[IF i = 0 THEN Slots - 1 ELSE i - 1]
                                   ELSE s.cells[i]],
                      !.lo = Index(@, 1)]

Emptied(s) ==
    [deque |-> << >>, cells |-> [i \in DOMAIN s.cells |-> NoFrame],
     lo |-> 0, hi |-> 0]

\* what the search for a droppable frame finds: nothing, or the first offset.
FirstNonKey(s) ==
    {o \in 0 .. Size(s) - 1 :
        /\ At(s, o) \notin KeyFrames
        /\ \A e \in 0 .. o - 1 : At(s, e) \in KeyFrames}

-----------------------------------------------------------------------------
(* Waiting.                                                                *)

\* A producer that spins has the mutex and never lets go of it.
Unlocked == \A p \in Producers : prod[p] # "spins"

\* m_notEmpty.notify_one() and m_notFull.notify_one()
WakeOneConsumer(cs) ==
    LET sleepers == {c \in Consumers : cs[c] = "asleep"}
    IN  IF sleepers = {} THEN {cs}
        ELSE {[cs EXCEPT ![c] = "check"] : c \in sleepers}

\* Mutant: a frame taken does not wake a producer.
WakeOneProducer_Never(ps) == {ps}

WakeOneProducer(ps) ==
    LET sleepers == {p \in Producers : ps[p] = "asleep"}
    IN  IF sleepers = {} THEN {ps}
        ELSE {[ps EXCEPT ![p] = "check"] : p \in sleepers}

\* notify_all()
WakeConsumers(cs) ==
    [c \in Consumers |-> IF cs[c] = "asleep" THEN "check" ELSE cs[c]]

\* Mutant: waiting producers are not told.
WakeProducers_Never(ps) == ps

WakeProducers(ps) ==
    [p \in Producers |-> IF ps[p] = "asleep" THEN "check" ELSE ps[p]]

\* predicates of the two waits
MayPush == ~Full(store) \/ closed \/ aborted
MayPop == ~Empty(store) \/ closed \/ aborted

-----------------------------------------------------------------------------
(* Producers.                                                              *)

\* The incoming frame is given up without a word to the producer.
DropsIncoming(f) ==
    \/ setup.policy = "DropNewest"
    \/ setup.policy = "DropNonKeyFrame" /\ f \notin KeyFrames

\* What an overflowing queue may do to let f in: nothing, or one way.
MakeRoom(f) ==
    CASE ~Full(store) -> {store}
      [] Full(store) /\ setup.policy = "DropOldest" -> {PopFront(store)}
      [] Full(store) /\ setup.policy = "DropNonKeyFrame" /\ f \in KeyFrames ->
            {Erase(store, o) : o \in FirstNonKey(store)}
      [] OTHER -> {}

\* WouldBlock: the producer has to wait, or to try again later.
WouldBlock(f) ==
    Full(store) /\ MakeRoom(f) = {} /\ ~DropsIncoming(f) /\ setup.policy # "Abort"

\* The frame is stored and one consumer notified: at once where the mutex is
\* still held, after unlocking in MediaBlockingQueue::push.
Store(p, f, unlocks) ==
    /\ \E s \in MakeRoom(f) : store' = PushBack(s, f)
    /\ IF unlocks
       THEN prod' = [prod EXCEPT ![p] = "signal"] /\ UNCHANGED cons
       ELSE /\ prod' = [prod EXCEPT ![p] = "idle"]
            /\ cons' \in WakeOneConsumer(cons)
    /\ frame' = [frame EXCEPT ![p] = NoFrame]
    /\ UNCHANGED <<setup, closed, aborted, announce>>

\* The queue is aborted by the frame that does not fit; everybody is told.
OverflowAbort(p) ==
    /\ aborted' = TRUE /\ closed' = TRUE
    /\ prod' = [WakeProducers(prod) EXCEPT ![p] = "idle"]
    /\ frame' = [frame EXCEPT ![p] = NoFrame]
    /\ cons' = WakeConsumers(cons)
    /\ UNCHANGED <<setup, store, announce>>

Returns(p) ==
    /\ prod' = [prod EXCEPT ![p] = "idle"]
    /\ frame' = [frame EXCEPT ![p] = NoFrame]
    /\ UNCHANGED <<setup, store, closed, aborted, cons, announce>>

WaitsAt(p, state) ==
    /\ prod' = [prod EXCEPT ![p] = state]
    /\ UNCHANGED <<setup, store, closed, aborted, frame, cons, announce>>

\* pushOutcome() by a caller that never waits; Dropped, WouldBlock, Closed and
\* Aborted leave the queue as it is.
PushOutcome(p, f) ==
    /\ prod[p] = "idle" /\ Unlocked /\ ~aborted /\ ~closed
    /\ \/ Store(p, f, FALSE)
       \/ Full(store) /\ setup.policy = "Abort" /\ OverflowAbort(p)

BeginPush(p, f) ==
    /\ setup.direct /\ prod[p] = "idle"
    /\ prod' = [prod EXCEPT ![p] = "try"]
    /\ frame' = [frame EXCEPT ![p] = f]
    /\ UNCHANGED <<setup, store, closed, aborted, cons, announce>>

\* push() refuses a closed queue, stores the frame, drops it, aborts the queue,
\* or waits: the ring unlocks before it waits, the blocking queue does not.
TryPush(p) ==
    /\ prod[p] = "try" /\ Unlocked
    /\ LET f == frame[p] IN
        \/ (aborted \/ closed) /\ Returns(p)
        \/ ~aborted /\ ~closed /\ Store(p, f, Kind # "spsc")
        \/ /\ ~aborted /\ ~closed /\ Full(store)
           /\ \/ DropsIncoming(f) /\ Returns(p)
              \/ setup.policy = "Abort" /\ OverflowAbort(p)
              \/ WouldBlock(f) /\ WaitsAt(p, IF Kind = "spsc" THEN "check"
                                                             ELSE "asleep")

CheckPush(p) == prod[p] = "check" /\ Unlocked /\ ~MayPush /\ WaitsAt(p, "asleep")

\* MediaSpscRingQueue::push starts over with pushOutcome.
RingPushResumes(p) ==
    prod[p] = "check" /\ Kind = "spsc" /\ MayPush /\ WaitsAt(p, "try")

\* MediaBlockingQueue::push goes on with the mutex held.  Under BlockProducer it
\* looks at m_aborted and m_closed again; a key frame under DropNonKeyFrame
\* does not, and repeats the loop while the queue is full.
BlockingPushResumes(p) ==
    /\ prod[p] = "check" /\ Kind # "spsc" /\ Unlocked /\ MayPush
    /\ LET f == frame[p] IN
       IF setup.policy = "DropNonKeyFrame"
       THEN \/ Store(p, f, TRUE)
            \/ MakeRoom(f) = {} /\ WaitsAt(p, "spins")
       ELSE \/ (aborted \/ closed) /\ Returns(p)
            \/ ~aborted /\ ~closed /\ Store(p, f, TRUE)

SignalPushed(p) ==
    /\ prod[p] = "signal"
    /\ prod' = [prod EXCEPT ![p] = "idle"]
    /\ cons' \in WakeOneConsumer(cons)
    /\ UNCHANGED <<setup, store, closed, aborted, frame, announce>>

\* publish() of the storage: the frames of a batch go behind the last one.
PushBatch(s, batch) ==
    [s EXCEPT !.cells = [i \in DOMAIN s.cells |->
                           LET n == Index(i, Slots - s.lo) - s.hi + 1
                           IN  IF n \in DOMAIN batch THEN batch[n] ELSE s.cells[i]],
              !.hi = @ + Len(batch)]

\* publishPreparedLocked for an output transaction: it holds the mutex, has
\* found room for the batch, and notifies after it has unlocked.
PublishPrepared(batch) ==
    /\ Kind = "prepared" /\ Unlocked /\ ~aborted /\ ~closed
    /\ Size(store) + Len(batch) <= Capacity
    /\ store' = PushBatch(store, batch)
    /\ announce' = TRUE
    /\ UNCHANGED <<setup, closed, aborted, prod, frame, cons>>

NotifyPreparedPublished ==
    /\ announce
    /\ announce' = FALSE
    /\ cons' = WakeConsumers(cons)
    /\ UNCHANGED <<setup, store, closed, aborted, prod, frame>>

-----------------------------------------------------------------------------
(* Consumers.                                                              *)

ConsumerGoes(c, state) ==
    /\ cons' = [cons EXCEPT ![c] = state]
    /\ UNCHANGED <<setup, store, closed, aborted, prod, frame, announce>>

\* The oldest frame is taken; one producer is notified at once, or after pop()
\* of the blocking queue has unlocked.
Take(c, unlocks) ==
    /\ store' = PopFront(store)
    /\ IF unlocks
       THEN cons' = [cons EXCEPT ![c] = "signal"] /\ UNCHANGED prod
       ELSE /\ cons' = [cons EXCEPT ![c] = "idle"]
            /\ prod' \in WakeOneProducer(prod)
    /\ UNCHANGED <<setup, closed, aborted, frame, announce>>

\* tryPop(); on an empty queue it changes nothing.
TryPop(c) == cons[c] = "idle" /\ Unlocked /\ ~Empty(store) /\ Take(c, FALSE)

BeginPop(c) ==
    cons[c] = "idle" /\ ConsumerGoes(c, IF Kind = "spsc" THEN "try" ELSE "check")

\* MediaSpscRingQueue::pop: tryPop, then the two flags, then the wait.
RingTryPop(c) ==
    /\ cons[c] = "try" /\ Unlocked
    /\ \/ ~Empty(store) /\ Take(c, FALSE)
       \/ Empty(store) /\ ConsumerGoes(c, "flagA")

RingReadsAborted(c) ==
    cons[c] = "flagA" /\ ConsumerGoes(c, IF aborted THEN "abortedOut" ELSE "flagC")

RingReadsClosed(c) ==
    cons[c] = "flagC" /\ ConsumerGoes(c, IF closed THEN "closedOut" ELSE "check")

CheckPop(c) ==
    cons[c] = "check" /\ Unlocked /\ ~MayPop /\ ConsumerGoes(c, "asleep")

RingPopResumes(c) ==
    cons[c] = "check" /\ Kind = "spsc" /\ MayPop /\ ConsumerGoes(c, "try")

\* MediaBlockingQueue::pop decides under the mutex it waited with.
BlockingPopResumes(c) ==
    /\ cons[c] = "check" /\ Kind # "spsc" /\ Unlocked /\ MayPop
    /\ \/ aborted /\ ConsumerGoes(c, "abortedOut")
       \/ ~aborted /\ Empty(store) /\ ConsumerGoes(c, "closedOut")
       \/ ~aborted /\ ~Empty(store) /\ Take(c, TRUE)

SignalPopped(c) ==
    /\ cons[c] = "signal"
    /\ cons' = [cons EXCEPT ![c] = "idle"]
    /\ prod' \in WakeOneProducer(prod)
    /\ UNCHANGED <<setup, store, closed, aborted, frame, announce>>

-----------------------------------------------------------------------------
(* Control.                                                                *)

Close ==
    /\ Unlocked
    /\ closed' = TRUE
    /\ cons' = WakeConsumers(cons) /\ prod' = WakeProducers(prod)
    /\ UNCHANGED <<setup, store, aborted, frame, announce>>

Abort ==
    /\ Unlocked
    /\ aborted' = TRUE /\ closed' = TRUE
    /\ cons' = WakeConsumers(cons) /\ prod' = WakeProducers(prod)
    /\ UNCHANGED <<setup, store, frame, announce>>

Clear ==
    /\ Unlocked
    /\ store' = Emptied(store)
    /\ prod' = WakeProducers(prod)
    /\ UNCHANGED <<setup, closed, aborted, frame, cons, announce>>

Init ==
    /\ setup \in Setups
    /\ store = [deque |-> << >>, cells |-> [i \in 0 .. Slots - 1 |-> NoFrame],
                lo |-> 0, hi |-> 0]
    /\ closed = FALSE /\ aborted = FALSE
    /\ prod = [p \in Producers |-> "idle"]
    /\ frame = [p \in Producers |-> NoFrame]
    /\ cons = [c \in Consumers |-> "idle"]
    /\ announce = FALSE

Produce(p) ==
    \/ TryPush(p) \/ CheckPush(p) \/ RingPushResumes(p)
    \/ BlockingPushResumes(p) \/ SignalPushed(p)

Consume(c) ==
    \/ TryPop(c) \/ RingTryPop(c) \/ RingReadsAborted(c) \/ RingReadsClosed(c)
    \/ CheckPop(c) \/ RingPopResumes(c) \/ BlockingPopResumes(c) \/ SignalPopped(c)

Next ==
    \/ \E p \in Producers : Produce(p)
    \/ \E p \in Producers, f \in Frames : PushOutcome(p, f) \/ BeginPush(p, f)
    \/ \E n \in 1 .. Capacity : \E batch \in [1 .. n -> Frames] : PublishPrepared(batch)
    \/ NotifyPreparedPublished
    \/ \E c \in Consumers : Consume(c) \/ BeginPop(c)
    \/ Close \/ Abort \/ Clear

Spec == Init /\ [][Next]_vars

(* Threads inside push() and pop() keep running and a consumer keeps reading.  *)
Fairness ==
    /\ \A p \in Producers : WF_vars(Produce(p))
    /\ \A c \in Consumers : WF_vars(Consume(c))
    /\ WF_vars(NotifyPreparedPublished)

FairSpec == Spec /\ Fairness

-----------------------------------------------------------------------------
(* What the queues promise.                                                *)

Content(s) == [i \in 1 .. Size(s) |-> At(s, i - 1)]

Fifo == INSTANCE BoundedFifo WITH policy <- setup.policy,
                                  content <- Content(store)

(* Both queue classes, on any of their storages and under any overflow         *)
(* policy, are the bounded FIFO queue of BoundedFifo: index arithmetic, shifts  *)
(* of dropped frames and the wrap of the rings never lose, repeat or reorder    *)
(* a frame, never exceed the capacity and let nothing into a closed queue.      *)
IsBoundedFifo == Fifo!Spec

(* No push() sleeps although there is room or the queue has ended, and no       *)
(* pop() sleeps although there is a frame or the queue has ended, unless        *)
(* another thread has been woken for it or is about to notify (notify_one in    *)
(* pushOutcome, push, pop and tryPop, notify_all elsewhere).                    *)
NobodyForgotten ==
    /\ MayPush /\ (\E p \in Producers : prod[p] = "asleep") =>
          \/ \E p \in Producers : prod[p] \in {"check", "try"}
          \/ \E c \in Consumers : cons[c] = "signal"
    /\ MayPop /\ (\E c \in Consumers : cons[c] = "asleep") =>
          \/ \E c \in Consumers : cons[c] \in {"check", "try", "flagA", "flagC"}
          \/ \E p \in Producers : prod[p] = "signal"
          \/ announce

(* A push() that waits for room gets another look at the queue: every frame     *)
(* taken and every close, abort or clear reaches it.                            *)
BlockedPushWakes ==
    \A p \in Producers : []<>(prod[p] # "asleep")

(* "queue closed and empty" (MediaSpscRingQueue.cpp:170): a pop() that          *)
(* reports it leaves no accepted frame in the queue.                            *)
ClosedAndEmpty ==
    \A c \in Consumers : cons[c] = "closedOut" => Empty(store)
=============================================================================
